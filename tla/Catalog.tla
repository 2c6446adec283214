------------------------------ MODULE Catalog ------------------------------
(***************************************************************************)
(* The catalog of one database: schemas, tables and indexes through DDL    *)
(* statements, commits, crashes, recovery and close                        *)
(* (storage/std_db_instance.cpp, storage/catalog.cpp, the metadata and     *)
(* index files of storage/file_io_manager.cpp, the metadata records of     *)
(* recovery/recovery_manager.cpp, engine/engine.cpp).                      *)
(*                                                                         *)
(* The catalog lives in CatalogCache and in the log; metadata files are    *)
(* written by recovery and by the destructor of CatalogCache only.         *)
(* Directories are named after schemas and tables, so that two objects of  *)
(* one name share one.  There is one schema, the default one: CREATE SCHEMA*)
(* is refused (module Planner).  LSNs are positions in the log; begin      *)
(* records, which change nothing, are left out, and the row records of a   *)
(* statement are part of its table record (module Storage has the rows).   *)
(* The log's own failures are those of module FileWal.                     *)
(*                                                                         *)
(* A metadata file is replaced by truncating it and then writing it        *)
(* (storage/file_utils.cpp), so a process killed in between leaves it cut, *)
(* and whatever reads it throws.  Index files and the removal of a         *)
(* directory are taken as atomic.                                          *)
(***************************************************************************)
EXTENDS Naturals, Sequences, Bags

CONSTANTS
  Names,        \* names of tables
  MaxIds,       \* bound on the schemas, tables and indexes made (UUIDs)
  MaxLog,       \* bound on the records that statements append
  MaxCrashes    \* bound on crashes

(* The metadata file of the schema, beside those of the tables             *)
SchemaFile == "schema"
MetaFiles == Names \union {SchemaFile}

ASSUME CatalogAssumption ==
  {MaxIds, MaxLog, MaxCrashes} \subseteq Nat /\ SchemaFile \notin Names

VARIABLES
  phase,     \* "down", "redo", "undo", "up", "broken" (the constructor threw)
  log,       \* the log, with the records that are not flushed yet
  durable,   \* how many of them are on disk
  disk,      \* metadata and index files
  cut,       \* the metadata files that a kill has cut
  writing,   \* the ones that the last step of recovery may still be writing
  schema,    \* CatalogCache::schemas_: the id of the default schema, or 0
  tables,    \* CatalogCache::tables_: id -> MetaTable
  running,   \* the statement under way: its transaction and its stage
  at,        \* recovery: the record to redo, or to undo
  active,    \* recovery: the transactions still to undo
  undoing,   \* recovery: the one being undone, and whether its CLR is logged
  ids,       \* ids given out
  crashes    \* counter for the bound

recovery == <<at, active, undoing>>
cache == <<schema, tables>>
torn == <<cut, writing>>
vars == <<phase, log, durable, disk, torn, cache, running, recovery, ids, crashes>>

-----------------------------------------------------------------------------
(* Metadata: MetaTable, MetaIndex.  The indexes of a table are a bag of    *)
(* ids.  Their order matters in one place, the erase of DROP INDEX from a  *)
(* list that has an index twice, which only an undo makes (UndoSpoils)     *)

Table(id, name, schema_id) ==
  [id |-> id, name |-> name, schema_id |-> schema_id, indexes |-> EmptyBag, filled |-> FALSE]
NoTable == Table(0, "", 0)
Index(id, table_id) == [id |-> id, table_id |-> table_id]
Without(indexes, id) == [i \in DOMAIN indexes \ {id} |-> indexes[i]]

(* Log records.  A CLR has prev 0; undo goes on at undo_next               *)
Record(kind, txn, prev, before, after) ==
  [kind |-> kind, clr |-> FALSE, txn |-> txn, prev |-> prev, undo_next |-> 0,
   before |-> before, after |-> after]
Nothing == "nothing"
Marker(kind, txn, prev) == Record(kind, txn, prev, Nothing, Nothing)
Markers == {"commit", "rollback"}

(* make_clr                                                                *)
MakeClr(r) == [r EXCEPT !.clr = TRUE, !.prev = 0, !.undo_next = r.prev]

-----------------------------------------------------------------------------
(* Files: FileIOManager.  Each operation gives the files it leaves; ok is  *)
(* FALSE when it throws                                                    *)

NoDir == [meta |-> NoTable, index_files |-> {}]
NoFiles == [ok |-> TRUE, schema |-> 0, dirs |-> [n \in Names |-> NoDir]]
Throws(d) == [d EXCEPT !.ok = FALSE]

WriteMs(d, id) == [d EXCEPT !.schema = id]
DeleteMs(d) == [d EXCEPT !.schema = 0, !.dirs = [n \in Names |-> NoDir]]

(* read_schema_meta(id) finds the schema by its id                         *)
WriteMt(d, mt) ==
  IF d.schema # mt.schema_id THEN Throws(d) ELSE [d EXCEPT !.dirs[mt.name].meta = mt]
DeleteMt(d, mt) ==
  IF d.schema # mt.schema_id THEN Throws(d) ELSE [d EXCEPT !.dirs[mt.name] = NoDir]

(* read_tables_meta passes over a directory without metadata               *)
(* (a mutant: it reads a table there)                                      *)
StoredAnyway(d) == {d.dirs[n].meta : n \in Names}
StoredTables(d) == {d.dirs[n].meta : n \in Names} \ {NoTable}

(* read_table_meta(id), and write_mt of what became of the table           *)
TableMeta(d, id) == CHOOSE mt \in StoredTables(d) : mt.id = id
ChangeTable(d, id, changed) ==
  IF \A mt \in StoredTables(d) : mt.id # id THEN Throws(d) ELSE WriteMt(d, changed)

(* create_index_file makes the directories, and no metadata for them       *)
(* (a mutant: the file is made when the index is first flushed)            *)
CreateNoIndexFile(d, name, id) == d
CreateIndexFile(d, name, id) == [d EXCEPT !.dirs[name].index_files = @ \union {id}]

-----------------------------------------------------------------------------
(* Redo of one record, and undo: undo_record does to the files what the    *)
(* redo of the record's CLR does.  The row record before an UpdateTable    *)
(* record reads the table's metadata (redo_data); its CLR comes after that *)
(* of the UpdateTable record, which needs no such file                     *)
(* (a mutant: the schema's metadata is left to close())                    *)
RedoSchemaLater(d, r) == IF r.clr THEN DeleteMs(d) ELSE d
RedoSchema(d, r) == IF r.clr THEN DeleteMs(d) ELSE WriteMs(d, r.after)

AddIndex(d, index) ==
  ChangeTable(d, index.table_id,
              [TableMeta(d, index.table_id) EXCEPT !.indexes = @ (+) SetToBag({index.id})])
(* (a mutant: the entry is left in the metadata file, for close() to drop) *)
EraseIndexLater(d, index) == d
EraseIndex(d, index) ==
  ChangeTable(d, index.table_id,
              [TableMeta(d, index.table_id) EXCEPT !.indexes = Without(@, index.id)])

RedoRecord(d, r) ==
  CASE r.kind = "create_schema" -> RedoSchema(d, r)
    [] r.kind = "create_table" -> IF r.clr THEN DeleteMt(d, r.after) ELSE WriteMt(d, r.after)
    [] r.kind = "update_table" ->
         IF r.clr THEN WriteMt(d, r.before) ELSE ChangeTable(d, r.after.id, r.after)
    [] r.kind = "create_index" -> IF r.clr THEN EraseIndex(d, r.after) ELSE AddIndex(d, r.after)
    [] r.kind = "drop_index" -> IF r.clr THEN AddIndex(d, r.before) ELSE EraseIndex(d, r.before)
    [] OTHER -> d

TxnsWith(kind) == {log[i].txn : i \in {j \in DOMAIN log : log[j].kind = kind}}
LastOf(txn) == CHOOSE i \in DOMAIN log :
                 log[i].txn = txn /\ \A j \in DOMAIN log : log[j].txn = txn => j <= i
(* get_active_txns                                                         *)
Unfinished == {log[i].txn : i \in DOMAIN log} \ (TxnsWith("commit") \union TxnsWith("rollback"))

(* what redo takes: the CLRs, and the records of committed transactions    *)
Eligible(r) == r.clr \/ r.txn \in TxnsWith("commit")

-----------------------------------------------------------------------------
(* Statements                                                              *)

NoStatement == [txn |-> 0, stage |-> "none"]
NotUndoing == [txn |-> 0, logged |-> FALSE]

Init ==
  /\ phase = "down" /\ log = <<>> /\ durable = 0 /\ disk = NoFiles
  /\ cut = {} /\ writing = {}
  /\ schema = 0 /\ tables = << >> /\ running = NoStatement
  /\ at = 0 /\ active = {} /\ undoing = NotUndoing
  /\ ids = 0 /\ crashes = 0

Ready == phase = "up" /\ running = NoStatement /\ Len(log) < MaxLog
TableNamed(name) == {t \in DOMAIN tables : tables[t].name = name}

(* its transaction takes the next id, too                                  *)
Txn == ids + 1
Logged(kind, before, after) == log' = Append(log, Record(kind, Txn, 0, before, after))
Ran == running' = [txn |-> Txn, stage |-> "ran"]
Failed == running' = NoStatement

(* set_db_instance, when there is no default schema                        *)
CreateSchema ==
  /\ Ready /\ schema = 0 /\ ids < MaxIds
  /\ Logged("create_schema", Nothing, ids + 1) /\ Ran
  /\ schema' = ids + 1 /\ ids' = ids + 1
  /\ UNCHANGED <<phase, durable, disk, torn, tables, recovery, crashes>>

CreateTable(name) ==
  /\ Ready /\ schema # 0 /\ TableNamed(name) = {} /\ ids < MaxIds
  /\ LET mt == Table(ids + 1, name, schema)
     IN  /\ Logged("create_table", Nothing, mt)
         /\ tables' = [t \in DOMAIN tables \union {mt.id} |-> IF t = mt.id THEN mt ELSE tables[t]]
  /\ Ran /\ ids' = ids + 1
  /\ UNCHANGED <<phase, durable, disk, torn, schema, recovery, crashes>>

(* the record and the file come before the check for duplicates            *)
CreateIndex(t) ==
  /\ Ready /\ ids < MaxIds
  /\ LET index == Index(ids + 1, t)
     IN  /\ Logged("create_index", Nothing, index)
         /\ disk' = CreateIndexFile(disk, tables[t].name, index.id)
         /\ \/ Ran /\ tables' = [tables EXCEPT ![t].indexes = @ (+) SetToBag({index.id})]
            \/ tables[t].filled /\ Failed /\ UNCHANGED tables
  /\ ids' = ids + 1
  /\ UNCHANGED <<phase, durable, torn, schema, recovery, crashes>>

(* the entry is gone before the record is appended; the file stays         *)
DropIndex(t, id) ==
  /\ Ready /\ ids < MaxIds
  /\ Logged("drop_index", Index(id, t), Nothing) /\ Ran
  /\ tables' = [tables EXCEPT ![t].indexes = Without(@, id)]
  /\ ids' = ids + 1
  /\ UNCHANGED <<phase, durable, disk, torn, schema, recovery, crashes>>

(* A statement on rows.  The first page of a table needs the schema's      *)
(* metadata file, which a session that made the schema does not have yet;  *)
(* an UPDATE that an index refuses has logged its records                  *)
ChangeRows(t) ==
  /\ Ready /\ ids < MaxIds
  /\ tables[t].filled \/ disk.schema = tables[t].schema_id
  /\ LET after == [tables[t] EXCEPT !.filled = TRUE]
     IN  Logged("update_table", tables[t], after) /\ tables' = [tables EXCEPT ![t] = after]
  /\ \/ Ran
     \/ tables[t].filled /\ tables[t].indexes # EmptyBag /\ Failed
  /\ ids' = ids + 1
  /\ UNCHANGED <<phase, durable, disk, torn, schema, recovery, crashes>>

(* Transaction::commit: the record, then wait_for_durable                  *)
Commit ==
  /\ phase = "up" /\ running.stage = "ran"
  /\ log' = Append(log, Marker("commit", running.txn, Len(log)))
  /\ running' = [running EXCEPT !.stage = "committing"]
  /\ UNCHANGED <<phase, durable, disk, torn, cache, recovery, ids, crashes>>

Flushed ==
  /\ phase = "up" /\ running.stage = "committing"
  /\ durable' = Len(log) /\ running' = NoStatement
  /\ UNCHANGED <<phase, log, disk, torn, cache, recovery, ids, crashes>>

(* ~StdDbInstance: CatalogCache::flush writes the schema, then the tables, *)
(* each to its directory; what is not flushed of the log is lost           *)
Named(n) == {t \in TableNamed(n) : tables[t].schema_id = schema}
Writable == {n \in Names : Named(n) # {}}
SaveTables(d, S) ==
  [d EXCEPT !.dirs = [n \in Names |->
     IF n \in S THEN [d.dirs[n] EXCEPT !.meta = tables[CHOOSE t \in Named(n) : TRUE]]
     ELSE d.dirs[n]]]
Closing(S) ==
  /\ phase = "up" /\ running = NoStatement /\ schema # 0
  /\ disk' = SaveTables(WriteMs(disk, schema), S)
  /\ log' = SubSeq(log, 1, durable)
  /\ phase' = "down" /\ schema' = 0 /\ tables' = << >>
  /\ UNCHANGED <<durable, writing, running, recovery, ids>>

Close == Closing(Writable) /\ UNCHANGED <<cut, crashes>>

(* a kill inside it: some tables are written, in the order of a hash map,  *)
(* the last one perhaps cut, or before them the schema                     *)
KilledInClose ==
  /\ crashes < MaxCrashes /\ crashes' = crashes + 1
  /\ \E S \in SUBSET Writable :
       /\ Closing(S)
       /\ cut' \in {{}} \union {{f} : f \in IF S = {} THEN {SchemaFile} ELSE S}

(* A crash inside write_logs leaves any part of the batch, and one inside  *)
(* the write of a metadata file leaves the file cut                        *)
Crash ==
  /\ phase \in {"up", "redo", "undo"} /\ crashes < MaxCrashes
  /\ \E k \in (IF running.stage = "committing" THEN durable .. Len(log) ELSE {durable}) :
       log' = SubSeq(log, 1, k) /\ durable' = k
  /\ phase' = "down" /\ schema' = 0 /\ tables' = << >> /\ running' = NoStatement
  /\ at' = 0 /\ active' = {} /\ undoing' = NotUndoing
  /\ \E W \in SUBSET writing : cut' = cut \union W
  /\ writing' = {} /\ crashes' = crashes + 1
  /\ UNCHANGED <<disk, ids>>

-----------------------------------------------------------------------------
(* Recovery.  What the redo of a record does to the metadata files: those  *)
(* it replaces or removes, those of them it writes, those it must read,    *)
(* and those it may come upon, as read_table_meta(id) reads one table after*)
(* the other, in the order of the directory, up to the one with the id     *)

TableIdOf(r) == IF r.kind = "create_index" THEN r.after.table_id ELSE r.before.table_id
FilesOf(d, r) ==
  CASE r.kind = "create_schema" -> IF r.clr THEN MetaFiles ELSE {SchemaFile}
    [] r.kind \in {"create_table", "update_table"} -> {r.after.name}
    [] r.kind \in {"create_index", "drop_index"} ->
         {n \in Names : d.dirs[n].meta # NoTable /\ d.dirs[n].meta.id = TableIdOf(r)}
    [] OTHER -> {}
Writes(d, r) == IF r.clr /\ r.kind \in {"create_schema", "create_table"} THEN {} ELSE FilesOf(d, r)
Reads(d, r) ==
  CASE r.kind = "create_table" \/ (r.kind = "update_table" /\ r.clr) -> {SchemaFile}
    [] r.kind \in {"update_table", "create_index", "drop_index"} -> {SchemaFile} \union FilesOf(d, r)
    [] OTHER -> {}
MayRead(r) ==
  CASE r.kind = "create_table" -> {SchemaFile}
    [] r.kind \in {"update_table", "create_index", "drop_index"} -> MetaFiles
    [] OTHER -> {}

Start ==
  /\ phase = "down"
  /\ phase' = "redo" /\ at' = 1
  /\ UNCHANGED <<log, durable, disk, torn, cache, running, active, undoing, ids, crashes>>

Leave(d) == disk' = [d EXCEPT !.ok = TRUE] /\ phase' = IF d.ok THEN phase ELSE "broken"

(* What was written before it is whole once the next step is taken         *)
Replace(r) ==
  /\ Reads(disk, r) \intersect cut = {}
  /\ Leave(RedoRecord(disk, r))
  /\ cut' = cut \ FilesOf(disk, r) /\ writing' = Writes(disk, r)
Whole == writing' = {} /\ UNCHANGED cut

Redo ==
  /\ phase = "redo" /\ at <= Len(log)
  /\ IF Eligible(log[at]) THEN Replace(log[at]) ELSE Whole /\ UNCHANGED <<phase, disk>>
  /\ at' = at + 1
  /\ UNCHANGED <<log, durable, cache, running, active, undoing, ids, crashes>>

RedoDone ==
  /\ phase = "redo" /\ at > Len(log)
  /\ phase' = "undo" /\ active' = Unfinished /\ at' = 0 /\ Whole
  /\ UNCHANGED <<log, durable, disk, cache, running, undoing, ids, crashes>>

(* the transactions are undone in the order of a hash map                  *)
UndoBegin ==
  /\ phase = "undo" /\ undoing = NotUndoing
  /\ \E t \in active : undoing' = [txn |-> t, logged |-> FALSE] /\ at' = LastOf(t)
  /\ Whole
  /\ UNCHANGED <<phase, log, durable, disk, cache, running, active, ids, crashes>>

(* a CLR of an undo that a crash cut short leads to what it left           *)
(* (a mutant: the CLR stays the current record)                            *)
AfterClrSame(r) == at
AfterClr(r) == r.undo_next
UndoSkip ==
  /\ phase = "undo" /\ undoing # NotUndoing /\ at # 0 /\ log[at].clr
  /\ at' = AfterClr(log[at]) /\ Whole
  /\ UNCHANGED <<phase, log, durable, disk, cache, running, active, undoing, ids, crashes>>

(* the CLR is appended and flushed, and only then are the files changed    *)
UndoLog ==
  /\ phase = "undo" /\ undoing # NotUndoing /\ at # 0 /\ ~log[at].clr /\ ~undoing.logged
  /\ log' = Append(log, MakeClr(log[at])) /\ durable' = Len(log) + 1
  /\ undoing' = [undoing EXCEPT !.logged = TRUE] /\ Whole
  /\ UNCHANGED <<phase, disk, cache, running, at, active, ids, crashes>>

UndoApply ==
  /\ phase = "undo" /\ undoing.logged
  /\ Replace(MakeClr(log[at]))
  /\ at' = log[at].prev /\ undoing' = [undoing EXCEPT !.logged = FALSE]
  /\ UNCHANGED <<log, durable, cache, running, active, ids, crashes>>

UndoEnd ==
  /\ phase = "undo" /\ undoing # NotUndoing /\ at = 0
  /\ log' = Append(log, Marker("rollback", undoing.txn, 0)) /\ durable' = Len(log) + 1
  /\ active' = active \ {undoing.txn} /\ undoing' = NotUndoing /\ Whole
  /\ UNCHANGED <<phase, disk, cache, running, at, ids, crashes>>

(* CatalogCache::hydrate reads every file                                  *)
Recovered == phase = "undo" /\ undoing = NotUndoing /\ active = {}
Hydrate ==
  /\ Recovered /\ cut = {} /\ Whole
  /\ phase' = "up" /\ schema' = disk.schema
  /\ tables' = [t \in {mt.id : mt \in StoredTables(disk)} |->
                  CHOOSE mt \in StoredTables(disk) : mt.id = t]
  /\ UNCHANGED <<log, durable, disk, running, recovery, ids, crashes>>

(* read_ms or read_mt throws, at a file that a kill has cut                *)
ToRead ==
  IF phase = "redo" /\ at <= Len(log) /\ Eligible(log[at]) THEN MayRead(log[at])
  ELSE IF phase = "undo" /\ undoing.logged THEN MayRead(MakeClr(log[at]))
  ELSE IF Recovered THEN MetaFiles
  ELSE {}
RecoveryThrows ==
  /\ ToRead \intersect cut # {}
  /\ phase' = "broken"
  /\ UNCHANGED <<log, durable, disk, torn, cache, running, recovery, ids, crashes>>

-----------------------------------------------------------------------------
Statement ==
  \/ CreateSchema
  \/ \E name \in Names : CreateTable(name)
  \/ \E t \in DOMAIN tables :
       \/ CreateIndex(t) \/ ChangeRows(t)
       \/ \E id \in DOMAIN tables[t].indexes : DropIndex(t, id)
Recovery ==
  \/ Redo \/ RedoDone
  \/ UndoBegin \/ UndoSkip \/ UndoLog \/ UndoApply \/ UndoEnd \/ Hydrate
  \/ RecoveryThrows
Next == Statement \/ Commit \/ Flushed \/ Close \/ KilledInClose \/ Crash \/ Start \/ Recovery

(* init() runs to its end once it is started: nothing in it waits          *)
Spec == Init /\ [][Next]_vars /\ WF_vars(Recovery)

-----------------------------------------------------------------------------
(* Properties                                                              *)

(* Metadata files are under their names, and only tables are hydrated.     *)
TypeOK ==
  /\ phase \in {"down", "redo", "undo", "up", "broken"}
  /\ durable <= Len(log) /\ (running.stage = "none" \/ phase = "up")
  /\ schema \in 0 .. MaxIds /\ DOMAIN tables \subseteq 1 .. MaxIds
  /\ \A t \in DOMAIN tables : tables[t].id = t /\ tables[t].name \in Names
  /\ disk.ok /\ disk.schema \in 0 .. MaxIds /\ cut \union writing \subseteq MetaFiles
  /\ \A n \in Names : disk.dirs[n].meta = NoTable \/ disk.dirs[n].meta.name = n

(* What the committed statements of the log made                           *)
Committed(kind) ==
  {log[i] : i \in {j \in DOMAIN log :
                     log[j].kind = kind /\ ~log[j].clr /\ log[j].txn \in TxnsWith("commit")}}
CommittedTables == {r.after : r \in Committed("create_table")}
CommittedIndexes(t) ==
  {r.after.id : r \in {q \in Committed("create_index") : q.after.table_id = t}}
    \ {r.before.id : r \in Committed("drop_index")}
Compensated(kind) == {log[i] : i \in {j \in DOMAIN log : log[j].kind = kind /\ log[j].clr}}

(* Between statements, in the session that ran them and after any number of*)
(* crashes and restarts, the catalog has the tables of the committed       *)
(* CREATE TABLEs and no other, and each of them has the indexes that were  *)
(* created and not dropped by committed statements, once each.  Not so for *)
(* a table on which recovery undid an UPDATE, whose old image forgets the  *)
(* indexes made since, or a DROP INDEX, which undo_record reverts although *)
(* redo has never done it.                                                 *)
UndoSpoils(t) ==
  \/ \E r \in Compensated("update_table") : r.before.id = t
  \/ \E r \in Compensated("drop_index") : r.before.table_id = t
CatalogRecovered ==
  (phase = "up" /\ running = NoStatement) =>
    /\ {<<t, tables[t].name>> : t \in DOMAIN tables} = {<<mt.id, mt.name>> : mt \in CommittedTables}
    /\ \A t \in DOMAIN tables :
         ~UndoSpoils(t) =>
           tables[t].indexes = SetToBag(CommittedIndexes(t))

(* Every index of the catalog has its file, where maintenance and scans    *)
(* look for it.  Not so after the undo of a CREATE TABLE of that name, or  *)
(* of the schema: its CLR is redone at every start, and removes the whole  *)
(* directory of the table that has the name now.                           *)
RemovedByName(mt) ==
  Compensated("create_schema") # {} \/ \E r \in Compensated("create_table") : r.after.name = mt.name
IndexFilesPresent ==
  phase = "up" =>
    \A t \in DOMAIN tables :
      ~RemovedByName(tables[t]) =>
        DOMAIN tables[t].indexes \subseteq disk.dirs[tables[t].name].index_files

(* No log that commits, failed statements and crashes can leave, and no    *)
(* state of the files that a kill inside recovery or inside close() can    *)
(* leave, cut metadata files included, makes recovery throw, but for one:  *)
(* the file of a table is cut, and read_table_meta, looking for a table    *)
(* created before it, meets that file before the redo of its CREATE TABLE  *)
(* has replaced it.                                                        *)
RecoverySucceeds ==
  phase = "broken" =>
    \E j \in DOMAIN log :
      /\ at < j /\ log[j] \in Committed("create_table")
      /\ log[j].after.name \in cut

(* A recovery that starts comes to its end, or to a crash.                 *)
RecoveryEnds == (phase \in {"redo", "undo"}) ~> (phase \in {"up", "down", "broken"})
=============================================================================
