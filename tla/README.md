# Deltabase: TLA+ models of storage, queries and server

Deltabase (`src/deltabase`) is a small SQL database server in C++ with a
write-ahead log, a buffer pool and ARIES-style recovery; `src/Deltabase.Data` is
its C# client. This directory holds TLA+ specifications of the parts that decide
whether data survives and whether answers are right, the TLC configurations that
check them on small instances, and TLAPS proofs of the most important invariants.

Paths below are relative to `src/deltabase/src` unless they start with `src/`.

## 1. Inventory

| Component | State it keeps | Operations | Talks to | What is hard |
|---|---|---|---|---|
| `FileWalManager` (`wal/`) | `next_lsn_`, `flushed_lsn_`, `dirty_`, `flushed_`, `flush_in_progress_`; segment files of 1000 records | `append_log`, `flush`, `sync`, `wait_for_durable`, `read_log`, `read_all_logs`, constructor (`hydrate_cache`) | called by transactions and recovery under a recursive mutex shared per database (`DatabaseIoLockService`) | threads, failed writes, torn records, restarts |
| `Transaction` (`transactions/`) | `state_`, `last_lsn_` | `begin`, `append_log`, `commit` | log manager, then `BufferPool::flush_dirty` | log before page; no rollback at run time |
| `StdDbInstance` (`storage/`) | owns all of the below and a recursive mutex | `insert_row`, `update_row`, `delete_rows`, scans, DDL | catalog, buffer pool, transaction | statements that fail half way |
| `BufferPool`, `Cache`, `LRUPolicy` | at most 100 pages and 100 index files, dirty flags, page lists per table | `get_dp`, `prepare_dp`, `create_dp`, `dirty_dp`, `flush_dirty`, eviction | file I/O manager | eviction of dirty pages, stale pointers |
| `CatalogCache` | `MetaTable`s and `MetaSchema`s | `hydrate`, `put`, `save_*`, destructor (`flush`) | file I/O manager | metadata files are written by the destructor and by recovery only; images restored by undo |
| `FileIOManager`, serializers | directories, page, metadata, index files | read, write (whole-file overwrite + fsync), create, delete | the file system | not atomic, fields that are not stored |
| `RecoveryManager` | none between calls | `recover`: REDO, UNDO, compensation records, rollback markers | log manager, file I/O manager | crash inside recovery |
| `IndexBPlusTree`, `BPIndexPager` | index pages | `find`, `insert`, splits | index file buffer | duplicates, references across splits |
| `Engine` | one database instance (detached, or `StdDbInstance`) | `create_db`, `attach_db`, `execute_query` | SQL front end, executor | one engine per session over shared files |
| SQL front end, analyzer, planner, `node_executor` | per query | lex, parse, analyze, plan, `open`/`next`/`close` | database instance | precedence, index choice, streaming |
| `NetServer`, `StdProtocol` | sessions | message loop, `handle_stream` with a cancel thread | engine | two threads on one socket |
| C# client | connection | connect, query, cancel | server | the other side of the protocol |
| CLI, dump tools | none of the database's | print | engine, files | nothing |

What makes each of them correct:

* **Log**: an LSN identifies one record for ever; what `commit` waited for can be
  read back after any crash; a transaction's records form one chain; `commit` returns.
* **Pages and log**: no page is written before its log; a page never goes back.
* **Statements and recovery**: after any crashes the table holds exactly what the
  committed statements left, once; unfinished statements are undone once; recovery ends.
* **Metadata**: `last_rid` covers the ids in use, `live_rows` counts the rows.
* **Catalog**: after any crashes it has the tables and indexes of the committed
  statements, every index has its file, and recovery does not throw.
* **Formats**: what is written reads back, and no part of a file or record is taken
  for a whole.
* **Scan, index**: every live row is reached, once.
* **Queries**: a statement that is accepted is the one that was written, and finds the
  same rows whichever scan the planner chooses; one that is refused changes no row.
* **Server**: every request is answered once, streams end, a database stays reachable.

`PROJECT.json` lists the hazards, each at its line, with the properties aimed at it.

## 2. Modules

| Module | Contents |
|---|---|
| `AbstractLog` | what `IWALManager` promises: records with increasing LSNs, a stable initial part, crashes that cut the unstable tail |
| `FileWal` | `FileWalManager` and the transactions that drive it, as threads |
| `MCFileWal`, `FileWal_*.cfg` | instances for TLC |
| `FileWalProofs` | theorems about `FileWal`, among them that it implements `AbstractLog` |
| `Storage` | one `StdDbInstance` with one table: statements, buffer pool, page and metadata files, crashes, recovery |
| `MCStorage`, `Storage_*.cfg` | instances for TLC |
| `StorageProofs` | theorems about `Storage`: types, write-ahead, page LSNs |
| `UndoProofs`, `RowIdProofs` | theorems about `Storage`: undo, row ids; each extends the one before |
| `TableProofs` | theorems about `Storage`: the rows of the table; extends `UndoProofs` |
| `LiveRowProofs` | theorem about `Storage`: the counter of live rows; extends `TableProofs` |
| `BPlusTree` | `IndexBPlusTree` and `BPIndexPager` as operators on index files |
| `Index` | one index of one table: the statements that maintain it, commits, evictions, restarts, crashes |
| `MCIndex`, `Index_maintain.cfg` | instance for TLC |
| `Server` | `NetServer`: sessions, the message loop, the two threads of `handle_stream`, clients |
| `MCServer`, `Server_protocol.cfg` | instance for TLC |
| `ServerProofs` | theorems about `Server` |
| `SqlParser` | `lex` on words, `SqlParser` on tokens, as operators |
| `Planner` | `SemanticAnalyzer` and `StdPlanner` as operators on a catalog and a statement |
| `Query` | `Engine::execute_query`: texts, executors, evaluator, tables with several columns and indexes |
| `MCQuery`, `Query_execute.cfg` | instance for TLC |
| `WalCodec` | `StdStorageSerializer`, `StdWalSerializer`, the framing of the log: fields written and fields read |
| `Catalog` | schemas, tables and indexes through DDL, commits, crashes, recovery and close |
| `CatalogCodec` | the log and the metadata files of `Catalog` in the formats of `WalCodec` |
| `CatalogProofs` | theorems about `Catalog` |
| `MCCatalog`, `Catalog_recovery.cfg` | instance for TLC |

`Storage`, `Index`, `Query` and `Catalog` look at the same instance from four sides, and
each says in its header what it takes from the others: rows and pages with the log
(`Storage`), one tree (`Index`), answers (`Query`), metadata (`Catalog`).

### FileWal

Variables are the members of `FileWalManager` (`next_lsn`, `flushed_lsn`, `dirty`,
`flushed`, `flush_in_progress`), the owner of the database mutex, the locals of
`flush`/`write_logs` (`to_flush`, `unwritten`), the segment files (`disk`, with
`synced` for what an `fsync` covered, `torn` for segments that hold a partial
record and `hidden` for records behind one), and per transaction its program
counter and `last_lsn_`. A vector of records is the set of its records, since
every record carries its LSN and the vectors are in LSN order.

| Action | Code |
|---|---|
| `Begin`, `AppendOp`, `Commit` | `Transaction::begin`, `append_log`, `commit` up to `wait_for_durable`; each calls `FileWalManager::append_log` (`AppendLog`) |
| `WaitReturns`, `WaitFlushes`, `WaitSpins` | one turn of the loop of `wait_for_durable`: done, starts a flush, flush with nothing dirty |
| `Flush` | `flush`/`sync` called on its own |
| `WriteRecord`, `FinishFlush` | one record in `write_logs`, with the `fsync` at a segment boundary; its end and the end of `flush` |
| `WriteFails` | `open`/`write` fails: the exception leaves `flush` (the swapped batch is lost) and passes the `catch` of `wait_for_durable` |
| `Crash` | external: the process dies; with `PowerLoss` every segment keeps what was fsync'ed and an initial part of the rest, with `TornWrites` possibly a partial record |
| `HydrateCache`, `HydrateThrows` | the constructor; bytes behind a partial record that do not parse |

Each action is one stretch of code between acquiring and releasing the database
mutex, or between two writes. The mutex is held for the whole of
`wait_for_durable`, so the branch that sleeps on `cv_` has no action:
`FlushHoldsDbMutex` shows that no state would take it. A record that a reader
reconstructs from the bytes of two others (a partial record whose size field
reaches into the records behind it, and which happens to parse) is not modelled;
such a start either skips the hidden records or throws.

### Storage

The log is the sequence of its records with a durable prefix, which is what
`AbstractLog` gives and `FileWalProofs` shows of the log manager when writes do
not fail. Variables: `disk` (page files), `mt_file` (the table's meta file), `mt`
(the catalog's copy), `pages` (`data_pages_per_table_`), `cache`, `dirty`; the
running statement (`phase`, `txn`, `unchanged_mt`, `todo`); the position of
recovery (`redone`, `active`, `current`).

| Action | Code |
|---|---|
| `BeginInsert`, `InsertRow`, `InsertThrows` | `InsertNodeExecutor::next`, `insert_row` with `make_row`, `prepare_dp` and the linking of a new page; `UniqueConstraintViolation` out of `insert_row_into_indexes` |
| `BeginOnRows`, `UpdateRow`, `UpdateThrows`, `DeleteRow` | `UpdateNodeExecutor`/`DeleteNodeExecutor::next`: scan, then one iteration of the loop of `update_row`/`delete_rows` |
| `Commit`, `WaitForDurable`, `FlushDirty`, `CommitDone` | `Transaction::commit`; one page of `flush_dirty(max_lsn)` at a time |
| `Evict` | `Cache::evict_one`, when pages of other tables fill the cache |
| `Crash`, `Close` | the process dies (inside `wait_for_durable` with any part of the batch written); the destructors: the catalog is written, dirty pages and unflushed records are dropped |
| `Start`, `Redo`, `EndRedo` | `recover`: the REDO pass record by record (`redo`, `redo_data`, `redo_meta`), `get_active_txns` |
| `UndoTxn`, `UndoSkip`, `UndoLogs`, `UndoApplies`, `UndoEnd` | `undo`: a transaction of the hash map in any order, a record passed over, a compensation record appended and flushed, the page or metadata changed, the rollback marker |
| `Recovered` | the rest of `init`: `hydrate` and `initialize`, the page list in any directory order |

A row is its id, one value and the OBSOLETE flag; a page counts rows instead of
bytes (`PageCap`), with `size` kept as the code keeps it: set when a page is read,
never when a row is added. Loops over pages and rows are one action per
iteration, because a statement can throw in the middle, but nothing else of the
same engine runs in between: it holds the instance mutex, and an engine serves one
session. `cfg_.last_checkpoint_lsn` is never advanced by the code, so recovery
always starts at the first record. An INSERT has one row, which is all that
`parse_insert` yields. `update_row` pushes to `page->rows` inside a range-for over it:
when an UPDATE has several rows of a page, it may overlook the later ones (`Visits`), or
find them in memory that the vector has left, so that the OBSOLETE flag it sets is
lost; `lost_flags` counts these. Log writes succeed here; `FileWal` has the failing
ones. Page and metadata files are written atomically: a page file cut by a kill would
make every later start throw, so `RecoveryEnds` holds up to that.

### BPlusTree and Index

`BPlusTree` has one operator per function: `Descent` (`find_leaf`), `Find`, `Insert`,
`InsertIntoLeaf`, `SplitLeaf`, `SplitInternal`, `LinkAt` and `NewRoot`
(`insert_into_parent`), `CreatePage`, `Pos` (`get_page`), `NewFile`
(`create_index_file`), `Stored`/`Loaded` (`serialize_if`, `deserialize_if`), `Chain`
(the walk of `index_scan`). Recursion up the tree is a fold over the search path. A
file is a sequence of pages in the order of `file->pages`, with the vector's capacity:
`create_page` moves a full vector while the splitting functions hold references into
it. The standard library's vector then refuses the copy of the upper half with
`std::length_error` (tried with GCC at every optimisation level): `SplitThrows`.

| Action of `Index` | Code |
|---|---|
| `InsertRow` | `insert_row`: index first, then page and log; or an exception before or after the tree was changed |
| `UpdateRow`, `DeleteRow` | `update_row` (old row flagged, new one on the page, then the index), `delete_rows` |
| `CreateIndex` | `create_index`: file, check for duplicates, one insertion per live row, metadata |
| `Hangs` | a search or a scan that runs into a cycle, with the instance mutex locked |
| `WaitForDurable`, `FlushDirty` | `Transaction::commit` |
| `Evict` | `Cache::evict_one` on the index file and `get_table_index` |
| `Close`, `Crash`, `Start` | the end of the process; recovery of table and metadata; the index file as it is on disk |

The table is one page, in memory and on disk (`page`, `page_file`), with the next row id
in both (`last_rid`, `mt_rid`) and the log with its durable part. Ids are given as the
code gives them, after the increment in `update_row` and before it in `make_row`, so that
an INSERT after an UPDATE gets the id of the UPDATE's row; the index, undo, redo and
DELETE find a row by its id, and take the first. `Start` replays the log over the page
(`Redone`, `UndoTxn`), which `Storage` does step by step. An UPDATE matches one row.
`index_scan`'s branch for `=` compares a node type that the parser never produces, so
the scan always walks the leaf chain.

### Server

Per connection: the messages on their way to the server, all that was sent to the
client (also the history the properties speak of), who has closed it, where
`handle_client` is, the variables of `handle_stream`, and per thread of `handle_stream`
a message whose length is sent and whose body is not (`send_message` calls `send`
twice). Shared: `sessions_`, the sessions whose engine has a database, what there is of
the database on disk, whether the process runs.

| Action | Code |
|---|---|
| `AcceptPing`, `Leave` | `handle_client` before and after its loop; the end of a session destroys its engine, and that writes the configuration file |
| `RefuseMessage`, `RefuseSession`, `Disconnect` | `handle_message`: what is not allowed here, `get_session` without result, `receive_message` without result (the client is gone, or the length is too large) |
| `HandleDb`, `HandleQuery`, `HandleClose` | the handlers; the database's part is success or an exception, and for a query also no return at all (`NeverReturns`): `lex` without end, or the process dying in the planner or in `update_row` |
| `StreamStart`, `StreamLoop`, `StreamThrows`, `StreamChunk`, `StreamEnd` | `stream_handler`, with the test of `cancelled` apart from the sending of the chunk |
| `CancelReceives`, `CancelDisconnects`, `CancelAnswers` | `cancel_handler` |
| `FinishSend`, `EndStream` | the body of a message; both joins |
| `Ask`, `StopReading`, `GoAway` | external: a client sends any message, stops reading what it is sent, or goes away, losing the end of what it sent |

The handlers of the message loop are atomic: no other thread of the server uses the
connection or the session while they run, since clients are taken to use their own
session id. A `send` to a client that has gone is lost or ends the process: SIGPIPE has
its default action, and no thread catches the exception. A `send` to a client that is
there and does not read blocks (`CanSend`; that the buffers of the socket are full is taken
to be so from the next message on). That the destructor's write
of the configuration file succeeds is assumed. `NetServer::stop` is left out: nothing
calls it.

### SqlParser, Planner and Query

A text is a sequence of words. `SqlParser` has the dictionaries of `dictionary.hpp`, the
token of a word (`TokenOf`), the words on which `lex` throws or never returns, and one
operator per parsing function. A parser is an operator from tokens and a position to
`[ok, at, node]`; `Advance` stays on the last token, as `advance()` does, which is what
lets the parser read a token twice and accept one after a statement.

`Planner` has one operator per `analyze_*` (`SelectValid`, `WhereValid`, ...), the cost
comparison of `choose_scan_type` (`IndexScanCheaper`: with the constants of the code the
comparison does not depend on how many rows there are, only on whether there are any),
`ShouldStream`, and a plan per statement. Exceptions are conditions (`PlanThrows`), as
is the null pointer that CREATE TABLE in an unknown schema follows (`PlanCrashes`).

`Query` runs plans: `Rows` is what the scan and filter nodes hand up, `Answer` what
`execute_query` returns for a SELECT, `Outcomes` the set of ends that an INSERT, UPDATE
or DELETE may come to, each done, thrown or with the process dead, with the table as it
then is (which entry of a key `find()` meets is left open). A leaf that is full may
split, and a split may throw `std::length_error` after the entry is in the leaf
(`InsertIntoIndexes`); that the entries stay found after a split is left to `Index`. Once
`push_back` in `update_row` may have moved the rows under the loop (`moved`), each further
row of an UPDATE is updated, overlooked, or the end of the process.

| Action | Code |
|---|---|
| `ExecuteInsert`, `ExecuteUpdate`, `ExecuteDelete` | the nodes of these names with `insert_row`, `update_row`, `delete_rows`; a statement that throws keeps what it has changed |
| `ExecuteCreateTable`, `ExecuteCreateIndex`, `ExecuteDropIndex`, `ExecuteCreateDb` | the DDL nodes; `is_unique` of a plain CREATE INDEX is uninitialised, so either value |
| `Hang`, `Crash`, `UpdateDies` | `lex` without end; the null pointer of the planner; `update_row` in freed memory |

SELECT changes nothing and has no action: the properties ask every SELECT in every
state. Values are their type and a number; a table is one page.

### WalCodec and Catalog

`WalCodec` has two tables of formats, one from the `serialize` functions and one from
the `deserialize` functions: lists of fields with their names, counts, nested objects
and, for the reader, whether it tests for the whole length, for any byte or for nothing.
Streams are sequences of units (two to a field, one to a byte of a string); `ReadField`
gives what is left, as `ReadOnlyMemoryStream::read` does. `ReadLogs` is
`read_logs_from_file`, whose next record begins where `deserialize` stopped.

`Catalog` has the log with its durable part, the directories (`disk`: per name the
metadata and the index files), the cache (`schema`, `tables`), the running statement and
the position of recovery. A metadata file is truncated and then written
(`file_utils.cpp:97,175`): `writing` are the files that a kill may now cut, `cut` those that
one has cut, on which `read_schema_meta` and `read_table_meta` throw.

| Action | Code |
|---|---|
| `CreateSchema`, `CreateTable`, `CreateIndex`, `DropIndex` | the functions of `StdDbInstance`; `CreateIndex` also as it throws at duplicates, with its record and its file left |
| `ChangeRows` | a statement on rows as far as it logs an UpdateTable record; also an UPDATE that a unique index refuses |
| `Commit`, `Flushed` | `Transaction::commit` before and after `wait_for_durable` |
| `Close`, `KilledInClose` | the destructors: metadata written, unflushed records lost; the same with only some of the files written, and one of them cut |
| `Crash` | external: any part of a batch that is being written, or any file under write cut |
| `Start`, `Redo`, `RedoDone` | `init`, the REDO pass record by record, `get_active_txns` |
| `RecoveryThrows` | `read_ms` or `read_mt` meets a file that a kill has cut: the constructor throws |
| `UndoBegin`, `UndoSkip`, `UndoLog`, `UndoApply`, `UndoEnd` | `undo`, with the flush of the compensation record apart from the change of the files |
| `Hydrate` | `CatalogCache::hydrate` |

A statement is a transaction. The indexes of a table are a bag of their ids, since one may
be listed twice. Their order matters in one place: the `erase_if` of DROP INDEX
(`std_db_instance.cpp:887`) compares through a pointer into the vector it is moving, so
that an index listed twice may not be removed twice. That happens only on tables whose
indexes recovery has spoiled (`UndoSpoils`), which the properties leave out. The row records of a statement are folded into its table
record; they contribute the reading of the table's metadata in `redo_data`. `CatalogCodec` puts the
two together: every record of the log and every metadata file as `WalCodec` writes and
reads it.

## 3. Runs

| Run | Instance | Shows |
|---|---|---|
| `wal_faults` | 3 transactions, 5 LSNs, 2 records per segment, 1 failing write, 2 crashes with power loss and torn records (1.7 million states) | `TypeOK`, `LsnUnique`, `AckedDurable`, `PrevChain`, `FlushHoldsDbMutex` |
| `wal_kill` | 2 transactions, 6 LSNs, 2 kills of the process | `LogDense`; `CommitReturns` under fairness; `ImplementsAbstractLog` |
| `wal_torn` | as `wal_faults`, 1 kill with a torn record, no failing write | **violates** `CommitLsnDurable` |
| `storage_recovery` | 4 statements, 2 pages of 1 row, 2 values, 14 records when a statement begins, 1 failing statement, 1 eviction of a clean page, 2 crashes or restarts (2.6 million states) | `TypeOK`, `WriteAhead`, `TableMatchesLog`, `UndoneOnce`, `LastRidCovers`, `LiveRowsCounted`, `PageLsnMonotone` |
| `storage_restart` | 2 statements, 8 records, 1 value, the same faults | `RecoveryEnds` under fairness |
| `storage_evict` | 3 statements, no crash, 2 evictions of any page: an UPDATE over two pages that fails | **violates** `WriteAhead` |
| `storage_rowids` | as `storage_recovery`, no failing statement, 1 crash | **violates** `CommittedRecovered` |
| `storage_scan` | as `storage_recovery`, no failing statement | **violates** `ScanReachesRows` |
| `index_maintain` | one-key leaves, two-key internal pages, 2 keys and NULL, 7 rows, 2 events (1.3 million states) | `TypeOK`, `TreeSound`, `FindMatchesScan`, `IndexCoversRows`, `UniqueHolds` |
| `query_execute` | 25 statements, two of them also with every slip of one word out of 12, 2 columns, 2 indexes, leaves of 2 keys, 4 rows (218,000 states) | `TypeOK`, `SelectExact`, `DmlExact`, `RefusedCleanly`, `RoundTrip`, `AcceptedMeansWritten` |
| `catalog_recovery` | 2 table names, 6 statements, 14 records, 2 crashes that may cut a metadata file, any closes (929,000 states) | `TypeOK`, `CatalogRecovered`, `IndexFilesPresent`, `RecoverySucceeds`, `StoredReadsBack`; `RecoveryEnds` under fairness |
| `server_protocol` | 1 connection, 5 messages, at most 2 unread, 2 chunks, a client that may stop reading or go away (619,000 states) | `TypeOK`, `AnswersInOrder`, `FramesWhole`, `CancelBound`, `DatabaseKept`; `Served`, `SessionEnds` under fairness |

**Bounds.** Segments of two records make one transaction span segments and one
batch cross a boundary; three transactions make a flush by one carry records of
the two others, one of them unfinished. Two crashes are needed for a crash inside
the recovery from a crash, and for a torn record to be appended to and then read.
Pages of one row make the second INSERT open a page; four statements are two INSERTs,
one that changes both rows, and one more on its result, any of which may fail. `Counter` (2^64 in the code) is larger than any count the
instance reaches, so a wrap-around would show as a wrong `live_rows`. In `Index` a leaf of one
key splits at the second one and seven rows give three levels; an event is an UPDATE,
DELETE, INSERT of NULL, eviction, restart or crash, and two reloads with splits
between them are the shortest way to a cycle. In `Server` five messages are a PING, a
CREATE_DB, a QUERY, one message that the reader takes and a second QUERY; two chunks let
a stream be cancelled before, between and after them. Connections share only the
database's files and the end of the process, so one is checked; `ServerProofs` has the
safety properties for any number. In `Query` four rows made
are two versions of two rows, or a refused INSERT between two others; the stream
threshold is 3 instead of 2048 and a leaf holds 2 keys instead of 64, so that both kinds of result occur, and `AcceptedMeansWritten`
tries the slips of all 25 statements. In `Catalog` six statements are a schema, a table,
an index, its drop, a failed statement and a table of the name again; two crashes put one
inside the recovery from the other. Deadlock is not
checked: clients may stop sending, and all bounds may be used up.

**Fairness.** `FileWal!FairSpec`: a thread inside `wait_for_durable` or `flush`
keeps running (it waits for nothing but the mutex, which is held for finite
stretches), and a crashed server is started again. No fairness for `Begin`,
`AppendOp`, `Commit`, faults or crashes. Weak fairness is enough since a waiting
thread that is locked out is locked out by a flush that itself goes on.
`Storage!FairSpec`: recovery, once begun, keeps running, and a server that is down
is started. `Server!FairSpec`: each thread goes on when it can (no lock is held
across a wait, and each thread is the only one that disables its own next step, except
for the end of the process); a thread that waits in `send` for a client that does not
read, or in a query that never returns, cannot go on. Clients owe nothing. `Catalog!Spec`: recovery goes on once it
is started, since nothing in `init()` waits. `Query` needs no fairness: its properties are
invariants.

**Qualifications in the properties.** `AckedDurable` and `PrevChain` speak of
histories without failed writes and torn records: with either, the code does lose
records (`wal_torn`, hazards). `TableMatchesLog` speaks of histories in which row
ids were not reused (`storage_rowids` shows what happens otherwise), no statement built
on rows a failed one left in the cache, and `update_row` lost no flag in freed memory;
`LiveRowsCounted` of the last and of histories without a failed statement. The properties of `Index` speak of
files whose page ids differ, `IndexCoversRows` and `UniqueHolds` of histories in which
every row id was given once (`GivenOnce`: of two rows with one id an index finds the first
twice and the second never), `IndexCoversRows` of histories without a crash (the index
has no redo), `UniqueHolds` of keys whose entries are in one leaf and histories in
which no restart followed a failed statement. `FramesWhole` leaves out connections on which
a CANCEL_STREAM was answered during a stream, `Served` the messages that the reader of
a stream takes. `Served` and `SessionEnds` leave out queries that never return, and
`Served` clients that do not read. `SelectExact` and `DmlExact` speak of the conditions
that the code evaluates as they read (`Plain`): not AND or OR, not a literal on the left,
values of one type, no `<` or `<=` unless an index is scanned; of rows with different ids
and, for an index scan, of an index without leftovers of a refused statement; `DmlExact` of UPDATEs
under whose loop `push_back` moved no rows. `RefusedCleanly` speaks of tables without such
leftovers (`NoEntryLeft`) and allows a refusal where a leaf may be full (`MayOverfill`).
`AcceptedMeansWritten` allows one word to be skipped or misread. `CatalogRecovered`
leaves out the indexes of tables on which recovery undid an UPDATE or a DROP INDEX
(`UndoSpoils`), `IndexFilesPresent` names whose CREATE TABLE was undone
(`RemovedByName`), `RecoverySucceeds` the starts that meet the cut file of a table before the
redo of its CREATE TABLE, `StoredReadsBack` a log cut inside the size of a record when the
uninitialised rest of that size is 0. TLC finds a violation when any one of
these conditions is dropped, except for AND, OR and a literal on the left, which the
code refuses by an exception and `Selected` does not define. `LastRidCovers` ends with
the first undo, which restores an older `last_rid`.

### What the violations show

* `wal_torn`: records appended behind a partial one are never read back, though
  `commit` was acknowledged (`file_wal_manager.cpp:326,379`).
* `storage_evict`: `Cache::evict_one` writes a dirty page whatever its LSN, here one that a
  failed UPDATE left in the cache, whose records are in the log's buffer only.
* `storage_rowids`: `update_row` uses `++last_rid`, `make_row` `last_rid++`: an
  INSERT after an UPDATE reuses the UPDATE's row id, and undoing that INSERT after a
  crash removes the committed row of the UPDATE.
* `storage_scan`: the `next` link of the tail page is not logged; after a crash the
  redone page is not reached by a scan.

Met while modelling `Index`, without a document that says otherwise:

* `last_page` is not written to the index file: after an eviction or a restart new
  pages get ids that are in use (`std_storage_serializer.cpp:188`).
* A split that has to enlarge `file->pages` throws (`index_bplus_tree.cpp:44,126`): the
  65th and 66th keys of a new index, and `create_index` on more than 64 rows. The entry
  that caused it stays and, in a unique index, blocks its key.
* `find` looks at one leaf; when a split divides equal keys, it may meet the entry of
  an old version only, and a unique index takes a duplicate.
* `create_index` creates the file before the check that its comment
  (`std_db_instance.cpp:761`) places "before creating index file".

Met while modelling `Server`:

* `handle_stream` returns only when the client sent one more message or went away, and
  that message is dropped unless it is a CANCEL_STREAM (`server.cpp:357,420`): a client
  that sends a QUERY after a QUERY gets no answer to the second one.
* `send_mutex` is taken for chunks only (`server.cpp:342`), so that the answer to a
  CANCEL_STREAM can be mixed with the messages of the stream.
* The configuration file is written by the destructor of an instance only
  (`std_db_instance.cpp:58`): while the session that created a database is open, and
  after a process that died, ATTACH_DB answers DB_NOT_EXISTS.
* A client that disconnects during a stream can end the process.

Met while modelling `SqlParser`, `Planner` and `Query`:

* `Evaluator::lt` and `lte` use `>` and `>=` (`evaluator.cpp:144-248`), `index_scan` does
  not: `DELETE ... WHERE a < 5` removes the rows above 5, and creating an index changes
  the answer of a SELECT.
* `src/deltabase/README.md:111` lists `CREATE SCHEMA`; the analyzer has no case for it and
  refuses it. Line 174 says "SELECT results are currently materialized in memory in the
  standard plan executor."; from 2048 estimated rows on `execute_query` returns a
  `StreamedResult` over executors that nobody has opened (`engine.cpp:116`).
* `parse_select` skips the token after a column list, so `SELECT a FROM t` is a syntax
  error, and with a stray word before FROM it is accepted; the projection then appends to
  the row that is reused, so every row after the first is too long.
* One token after a statement is ignored: `DELETE FROM t wher` deletes all rows
  (`parser.cpp:143-147`). ALTER TABLE never parses.
* `lex` does not advance past a character that begins no token: the session hangs.
* AND and OR throw in the evaluator, or in `choose_scan_type` if there is an index; so does
  a literal on the left of a comparison, which the analyzer admits.
* A plain CREATE INDEX reads an uninitialised `is_unique`; CREATE TABLE in a schema that
  does not exist follows a null pointer.
* An INSERT that a second index refuses leaves its entry in the first. An UPDATE that is
  refused leaves a live version without its entry, which an index scan does not find.

* A QUERY on which `lex` hangs is never answered, and its session never ends. Nor is a
  client that stops reading ever given up: `send` has no timeout (`socket_api.cpp:64`).

Met while modelling `WalCodec` and `Catalog`:

* A kill inside the write of a metadata file leaves it cut. Redoing the CREATE TABLE or
  CREATE SCHEMA replaces it; but `read_table_meta` reads one table's file after the other,
  and when a record of an earlier table makes it meet the cut file first, that start and
  every later one throws (`file_io_manager.cpp:407`).
* The size of a log record is read into an uninitialised variable and a short read is
  accepted (`file_wal_manager.cpp:376`): a log cut inside the size ends there, or makes the
  start throw, depending on what the variable held.
* Undoing a DROP INDEX appends an entry that was never removed: the index is listed twice
  from then on, once more at every start. Undoing a failed UPDATE writes back a table
  without the indexes created since.
* The compensation record of a CREATE TABLE is redone at every start and removes the
  directory of that name, with the index files of a table created since.
* The first INSERT in the session that created the database throws: its page needs the
  schema's metadata file, which the end of the session writes.

## 4. Proofs

All constants are arbitrary up to the `ConstantsAssumption` of each module
(`CatalogAssumption`: the bounds are natural numbers, and the schema's file is not one of a
table).

**`FileWalProofs`**

* `TypeCorrect`, by induction over the actions.
* `FlushHoldsMutex`, from `LockInv`: a transaction inside a flush, started by
  `wait_for_durable` or not, owns the mutex of a running process, and a batch or
  `flush_in_progress` belongs to somebody inside a flush.
* `LsnsUnique`, from `LsnInv`: the readable records of the files, the buffers and the
  batch have different LSNs, below `next_lsn` while the process runs. `LsnUnique` alone
  is not inductive: it does not say that what a restart will read is as good as
  what is in the buffers.
* `AckedAreDurable`, from `DurInv`: batch and dirty buffer lie beyond
  `flushed_lsn` (`OrderInv`); a running transaction's records are fsync'ed, in the batch
  or dirty, and form a chain that ends at `last_lsn_` (`LiveInv`); one that has not begun
  has no records (`IdleInv`); an acknowledged one's records are all fsync'ed (`DoneInv`);
  records behind a partial one are in torn segments (`HiddenInv`). The step that
  needs the order of `write_logs` is `WriteRecord` across a segment boundary.
* `LogIsDense` and `RefinesAbstractLog`, assuming no power loss, torn or failed
  writes, from `KillInv`: files, rest of the batch and dirty buffer follow each other
  in LSN order and together hold every LSN below `next_lsn`. The mapping takes the
  files as the stable part: a write is `Stabilize`, a crash is `Lose`, `append_log` is
  `AppendRecord`, the rest stutters.
* `ChainsUnbroken` (`PrevChain`), from `PrevInv`: besides `LsnInv` and `LockInv`, a
  record's predecessor is written and fsync'ed no later than the record
  (`WrittenInOrder`, `SyncedInOrder`, `HiddenInOrder`), so that whatever initial parts of
  the segments a power loss leaves, a record that is left has its predecessor.
  `PrevChain` speaks of what a running process can read; the invariant has to say the
  same of the files while it is down, and of what a crash may leave of them.

**`StorageProofs`**

* `TypeCorrect`, from `TypeInv`: besides types, the links of every record lead to an
  earlier one (`LinkInv`), so undo and redo never leave the log; only UPDATE and
  DELETE have rows to visit, and undo applies a record that can be compensated (`StmtInv`).
* `WriteAheadHolds` and `PageLsnsNeverFall`, assuming `Evictions # "any"` (see
  `storage_evict` for why), from `LsnInv`: while pages are being flushed, and during
  recovery, the log is durable to its end; the cache is empty during recovery; the
  LSN of a cached page lies between that of its file and the end of the log.

**`UndoProofs`** (extends `StorageProofs`)

* `UndoneAtMostOnce` (`UndoneOnce`), from `UndoInv`: the records of a transaction are
  linked by `prev` (`Chained`), a compensation record copies its record and leads on to
  what comes before it (`Compensates`), the records that a transaction's last compensation
  record can still reach are not compensated (`Follows`), and the record at which undo
  stands is one of those (`Working`, `WalkInv`). `UndoneOnce` alone does not say where an
  interrupted undo goes on.

**`RowIdProofs`** (extends `UndoProofs`)

* `LastRidKeepsUp` (`LastRidCovers`), assuming `Evictions # "any"`: a dirty page that is
  evicted keeps rows on disk that the log loses in a crash, and nothing then restores
  their `last_rid`. From `RidInv`: every row record is followed by the table record of the
  same operation (`Paired`) or is the last one of a running or failed statement; table
  records grow in `last_rid` (`TableLog`); the metadata file is as far as the redone part
  of the log (`InRecovery`, `MetaInv`); the rows of each page stem from records that those
  table records cover (`Covered`, `RowsCovered`). TLC checked `RidInv` on the instance of
  `storage_recovery` first.

**`TableProofs`** (extends `UndoProofs`)

* `TableMatchesLogHolds` (`TableMatchesLog`): whenever the instance is idle, after any
  number of statements, failures, evictions, crashes and recoveries interrupted anywhere,
  the table holds the committed rows once each and nothing else, under the conditions that
  the property names. It assumes `Evictions # "any"` (a dirty page that is evicted puts rows
  on disk before their records, see `storage_evict`), and nothing of `update_row`'s loop:
  rows that it overlooks are not in the log either, and a history in which it lost a flag in
  freed memory (`lost_flags`) is one of the property's exceptions.
* `RecoveredUnlessIdsReused`, under the same assumption: `CommittedRecovered`, which
  `storage_rowids` refutes, can fail in two ways only, the one that run shows and a lost flag;
  as long as the row ids of the log are distinct and no flag was lost, what was committed is
  recovered.

Both follow from the inductive invariant `TableInv`, which TLC checked on a smaller
instance of `storage_recovery` first. `TableMatchesLog` speaks of the cache of an idle
instance; the invariant has to say in every state what the pages hold and why:

* The log (`History`). A record that replaces a row names a record of that row (`Sourced`),
  at most one statement that is not undone replaces a row (`Alone`), and it sees a row that
  was committed or its own (`Rightful`). What undo will still do (`Rolled`, `Walked`), and
  that a transaction that was committed is never undone (`Ends`, `Fresh`, `Pending`).
* A page is a function of the records applied to it (`Content`): each record has one slot
  (`Once`), the slot holds the record's value (`Versions`), its flag is what the last record
  of it says (`LastWins`), and every record up to the page's LSN is there (`Present`).
* Where a page is (`CachedRight`, `DiskRight`): a page in the cache is right for the whole
  log; a file is right for every log that a crash may leave, that is for every cut at or
  beyond the durable end. Redo then brings every file up to the log (`Redone`), and undo
  takes back what its walk has passed.
* What a running statement has found (`Known`, `Tasks`, `OwnRows`, `Latest`, `DeleteTail`,
  `Listed`): the rows it still has to visit are current, although the statement appends new
  versions to the pages it scans.

At the end (`TableSettled`, `FilesSettled`) every page is settled: a slot is live exactly if
its record stands in the log. That the table has as many copies of a row as the log
commits is a bijection between live slots and standing records (`SettledCounts`,
`TableCounts`).

**`LiveRowProofs`** (extends `TableProofs`)

`LiveRowsCountedHolds` (`LiveRowsCounted`): as long as no statement failed, `update_row` lost no
flag and the row ids of the log are distinct, the `live_rows` of an idle instance is the number of live rows in the
table, modulo the width of the counter, for every width. The assumption on the constants
is that of `TableMatchesLogHolds`. The counter never looks at the rows: it is counted up
and down in memory, copied into a table record before and after each row, and after a crash
is whatever redo and undo left in the metadata file. So the inductive invariant, `LiveInv`
(`LiveCore` in the states without a failed statement), ties each of these copies to the log.
`Kept(lg, x)` are the records of log `lg` whose rows are in the table when the committed
transactions and `x` count, `Num(lg, x)` is their number in the counter's width:

* In memory (`MetaNow`) the counter is `Num` of the log and the running transaction; each
  INSERT, UPDATE or DELETE record changes `Kept` by one row or none (`KeptWork`, `NumWork`),
  since what it replaces is in `Kept` (`WorksKept`, from `TableInv`).
* In the log (`MetaRight`), the first table record of a transaction that has not ended holds
  the committed number in its before image, and if all have ended, the last image that redo
  writes is that number. This is said of every log that a crash may leave (`MetaCuts`).
  A row record is followed by the table record of the same operation (`Pairs`).
* In the file (`MetaFile`): during recovery it is the last image redo has come to. Undo
  compensates every table record it passes (`TabRolled`, `TabWalked`), the first one of the
  transaction last, so that the image it leaves is the oldest (`UndoneImage`).
* Why there is only one transaction to undo (`Sole`, `Closed`, `OpenLast`): without failed
  statements a transaction that did not end was cut off by a crash, and the next recovery
  ends it. A failed statement leaves its transaction open for ever while others go on, and
  its undo, at the next start, restores a count that is long out of date; hence the
  condition of the property.
* `Origins`: rows in pages and rows that a statement replaces come from committed
  transactions, which is why `NoDirtyWrite` need not be assumed here (`NothingOpen`).

TLC checked `LiveInv` first, on a smaller instance of `storage_recovery` without failing
statements and with a counter of width 2, which wraps.

**`ServerProofs`**

`TypesKept` (`TypeOK`), `DatabaseStays` (`DatabaseKept`), `AnswersOrdered`
(`AnswersInOrder`), `MessagesWhole` (`FramesWhole`), `CancelBounded` (`CancelBound`), for
any number of connections, messages and chunks. Every action is first shown to be one of
a few effects on one connection (`StepDoes`): it answers, begins, goes on with or ends a
stream, or sends nothing. `ServerInv` then says of every connection what was sent
(`Orderly`: answers in the order of their requests, streams one after the other), that
what is to come is numbered beyond it (`Numbered`), which variables of `handle_stream`
go with which prefix of the stream (`Threaded`, `SentSoFar`), and that a half sent
message is the last piece unless a CANCEL_STREAM was answered (`FrameInv`). The
properties alone are not inductive: they look at what was sent, not at what the two
threads are about to send.

**`CatalogProofs`**

`TypesCorrect` (`TypeOK`), `RecoveryThrowsOnlyAtCutFile` (`RecoverySucceeds`), `CatalogIsCommitted`
(`CatalogRecovered`), `FilesPresent` (`IndexFilesPresent`), for any names and any number of
statements and crashes, with metadata files cut by a kill. All follow from one inductive
invariant (`Inductive`): `CatalogInv` and `CutInv`, or else `Broken`, the constructor has thrown
at a cut file, after which nothing changes any more. TLC checked `CatalogInv` on the instance
of `catalog_recovery` first:

* The log (`LogInv`). A statement has one record, and its commit record is the next one
  (`Once`, `CommitNext`); a CLR is that of an earlier statement that was not committed, and
  is the only one of it (`ClrOf`, `ClrOnce`); a record's schema and table were committed
  before it (`SchemaBefore`, `TableBefore`); a name is taken from no committed table
  (`NamesDiffer`). A CREATE SCHEMA or CREATE TABLE that did not end is the last statement
  of the log (`LastOnes`): it could only be cut off by a crash, and the next recovery ends
  it. That is why redoing its CLR at every start, which removes a directory by name, hits
  no table that was committed before it.
* The position (`DurableInv`, `RunningInv`, `SettledInv`, `WalkInv`): what a crash can cut
  off, and at which record an interrupted undo goes on.
* Files and cache (`StoredInv`, `RedoneInv`, `CachedInv`). Files may be of any age, but hold
  committed objects only; when redo stands at a record, all that was committed before it is
  in the files. So the table that a record needs is found (`KnownTable`).
* Cut files (`CutInv`). A file that is cut or may be cut is that of a committed CREATE TABLE
  or CREATE SCHEMA, which redo repeats; where redo has passed that record, the file is whole
  again (`RedoCut`). What throws is then a search that meets a cut file whose CREATE TABLE is
  still ahead (`ThrowBreaks`).
* Indexes (`ListedInv`, `IndexesInv`, `FilesInv`). The listing of a table is what the live
  statements before that point made, in the images of UPDATE records too, since redo writes
  those back; a table on which an UPDATE or a DROP INDEX was compensated is left out.

`CatalogRecovered` alone is not inductive: it speaks of the cache between statements, and
the cache is rebuilt from the files, which redo rebuilds from the log over whatever an
interrupted recovery left. The hardest steps are the CLRs: redo repeats the undo of a
statement that redo never did (`ClrRedone`).

Only model-checked: liveness (`CommitReturns`, both `RecoveryEnds`, `Served`, `SessionEnds`),
which is beyond the prover; everything about `Index`, whose tree operations are folds over the search path, so that a proof would
be an induction over data; everything about `Query`, and `StoredReadsBack` of
`CatalogCodec`, which rest on operators that are recursive where the code is (expressions,
nested objects).

## 5. Not modelled, and the plan

Every safety property that the runs of `FileWal`, `Storage`, `Server` and `Catalog` check is
proved, but for `StoredReadsBack`. That `Storage` uses the log only as `AbstractLog` allows
is not a refinement step by step (`InsertRow` appends two records, `UndoLogs` appends and
flushes), so it stays an argument of section 2.

Not modelled:

* Two engines over one set of files, as two sessions on one database make them: each has
  its own LSNs, page cache and catalog, and only single file operations are serialised
  (`engine.cpp:80`). No property of the data survives that, so a model would have nothing
  to state; the hazard is listed.
* Files that mix an old and a new version after a crash inside an overwrite. What a
  reader makes of a file that was cut short is in `WalCodec`, and what recovery makes of
  cut metadata files in `Catalog`; page files, index files and the removal of a directory
  are atomic.
* The classes of the C# client. Its part of the protocol is the environment of `Server`.
* CLI and dump tools: they print.
* `LimitNodeExecutor` (no plan holds one), ALTER TABLE beyond its refusal by the parser,
  column constraints (parsed, stored, enforced nowhere), UpdateSchema, DeleteSchema and
  DeleteTable records beyond their formats (nothing appends one).
* The characters of the lexer, the formatting of numbers, logging.

Undefined behaviour is a choice between its likely outcomes where these are few (the freed
rows of `update_row`, the split of an index page, uninitialised values). Where there is no
bounded set of outcomes (use of evicted pages, null pages after a failed INSERT) it is
excluded by guards and listed among the hazards.
