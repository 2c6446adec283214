------------------------------- MODULE Index -------------------------------
(***************************************************************************)
(* One index of one table: the rows of the table, the index file in the    *)
(* buffer pool and on disk, and the statements that maintain them          *)
(* (storage/std_db_instance.cpp, storage/buffer_pool.cpp).  Statements are *)
(* transactions of one engine, run one at a time under the instance mutex. *)
(* The index has no log records of its own for rows: recovery rebuilds the *)
(* table from the log and leaves the index file as it is.                  *)
(*                                                                         *)
(* The table has one data page, so that a row pointer (page id, row id) is *)
(* the row's id, and the ids are those the code gives: last_rid++ in an    *)
(* INSERT, ++last_rid in an UPDATE, which may give one id to two rows.  An *)
(* UPDATE matches one row (update_row over several rows of a page is in    *)
(* Query).  `log` keeps the records that recovery would still act on;      *)
(* pages, log and recovery in detail are those of module Storage.          *)
(***************************************************************************)
EXTENDS BPlusTree, FiniteSets

CONSTANTS
  Keys,        \* values of the indexed column, ordered like DataTokens
  NullKey,     \* the value NULL, which is not indexed
  MaxRows,     \* bound on the row ids given; INSERTs of a key count here
  MaxEvents    \* bound on the other statements, restarts and evictions together

ASSUME IndexAssumption ==
  /\ Keys \subseteq Nat /\ NullKey \notin Keys
  /\ {MaxRows, MaxEvents} \subseteq Nat

VARIABLES
  phase,     \* what the engine does, see Phases
  page,      \* the rows of the table's page in the buffer pool
  page_file, \* and in the page file
  last_rid,  \* mt->last_rid
  mt_rid,    \* and as the table records that recovery has seen or will redo leave it
  log,       \* records of the committing statement and of those that threw
  durable,   \* how many of them are in the log files
  indexes,   \* {} or {is_unique}: mt->indexes of the table
  file,      \* the index file in the buffer pool
  dirty,     \* and whether it differs from the one on disk
  disk,      \* the index file on disk
  given,     \* history: the row ids given so far, in order
  failed,    \* history: those of them that statements gave that then threw
  restarts,  \* the kinds of restart so far, of {"close", "crash"}
  events     \* see MaxEvents

table == <<page, page_file, last_rid, mt_rid, log, durable>>
index == <<indexes, file, dirty, disk>>
history == <<given, failed, restarts>>
vars == <<phase, table, index, history, events>>

Phases == {"idle", "waiting", "flushing",  \* between statements; Transaction::commit
           "hung",                         \* a search or a scan that does not end
           "down"}

Values == Keys \union {NullKey}

Row == [id : Nat, key : Values, obsolete : BOOLEAN]
NewRow(id, key) == [id |-> id, key |-> key, obsolete |-> FALSE]

(* a record knows its transaction by the place of that one's first record  *)
Record ==
  [kind : {"insert", "update", "delete"}, first : Nat, before : Row, after : Row]
    \union [kind : {"table"}, first : Nat, before : Nat, after : Nat]
    \union [kind : {"create_index", "commit"}, first : Nat]

(* what a statement on a row logs: the row, and the table's last_rid       *)
RowRecords(kind, before, after, rid) ==
  <<[kind |-> kind, first |-> Len(log) + 1, before |-> before, after |-> after],
    [kind |-> "table", first |-> Len(log) + 1, before |-> last_rid, after |-> rid]>>
CommitRecord == <<[kind |-> "commit", first |-> Len(log) + 1]>>

Counted == events < MaxEvents /\ events' = events + 1

Init ==
  /\ phase = "idle"
  /\ page = <<>> /\ page_file = <<>> /\ last_rid = 0 /\ mt_rid = 0
  /\ log = <<>> /\ durable = 0
  /\ indexes = {}
  /\ file = NewFile /\ dirty = FALSE /\ disk = Stored(NewFile)
  /\ given = <<>> /\ failed = {} /\ restarts = {} /\ events = 0

-----------------------------------------------------------------------------
(* insert_row_into_indexes                                                 *)

(* is_row_obsolete: the first row of the page with that id decides; a row  *)
(* that is not there counts as not obsolete                                *)
IsRowObsolete(rows, id) ==
  LET i == SelectInSeq(rows, LAMBDA r : r.id = id) IN i # 0 /\ rows[i].obsolete

(* a unique index refuses a key whose first entry is not obsolete          *)
(* (a mutant: the test of mi.is_unique is negated)                         *)
RefusedUnlessUnique(rows, key) ==
  /\ FALSE \in indexes
  /\ Found(file, key)
  /\ ~IsRowObsolete(rows, Find(file, key))
Refused(rows, key) ==
  /\ TRUE \in indexes
  /\ Found(file, key)
  /\ ~IsRowObsolete(rows, Find(file, key))

(* a mutant: NULL is indexed like other values                             *)
IndexedWithNull(key) == indexes # {}
Indexed(key) == indexes # {} /\ key # NullKey

(* the row `id` enters the index; `rows` is the page as the check for      *)
(* duplicates sees it.  Either it is entered, or something throws before   *)
(* or after the tree was changed.                                          *)
EntersIndex(rows, key, id) ==
  IF Indexed(key)
    THEN LET result == Insert(file, key, id)
         IN  /\ ~Refused(rows, key) /\ ~result.threw
             /\ file' = result.file
             /\ dirty' = TRUE
    ELSE UNCHANGED <<file, dirty>>

IndexThrows(rows, key, id) ==
  /\ Indexed(key)
  /\ LET result == Insert(file, key, id)
     IN  IF Refused(rows, key) THEN UNCHANGED <<file, dirty>>
         ELSE result.threw /\ file' = result.file /\ dirty' = TRUE

-----------------------------------------------------------------------------
(* Statements.  Each ends in Transaction::commit ("waiting"), or throws:   *)
(* nothing is rolled back, its transaction stays without a commit record.  *)

GivesId(id) == Len(given) < MaxRows /\ given' = Append(given, id)

Executed(records) ==
  /\ phase' = "waiting"
  /\ log' = log \o records \o CommitRecord
  /\ UNCHANGED <<page_file, mt_rid, durable, indexes, disk, failed, restarts>>
Aborted(records, id) ==
  /\ log' = log \o records
  /\ failed' = failed \union {id}
  /\ UNCHANGED <<phase, page_file, mt_rid, durable, indexes, disk, restarts>>

(* insert_row: make_row takes the id, the index comes before the page and  *)
(* the log.  When the tree throws, the entry stays in its leaf, and the row*)
(* it points to is never written.                                          *)
InsertRow(key) ==
  LET row == NewRow(last_rid, key)
  IN  /\ phase = "idle"
      /\ GivesId(row.id) /\ last_rid' = last_rid + 1
      /\ IF key = NullKey THEN Counted ELSE UNCHANGED events
      /\ Indexed(key) => SearchEnds(file, key)
      /\ \/ /\ EntersIndex(page, key, row.id)
            /\ page' = Append(page, row)
            /\ Executed(RowRecords("insert", row, row, last_rid + 1))
         \/ /\ IndexThrows(page, key, row.id)
            /\ UNCHANGED page
            /\ Aborted(<<>>, row.id)

(* the live rows of the page with that id, which update_row and delete_rows*)
(* visit                                                                   *)
LiveWithId(id) == {i \in DOMAIN page : page[i].id = id /\ ~page[i].obsolete}

(* update_row for row i that its condition matches and an assignment of    *)
(* `key`, or of another column (key = page[i].key): the old row is flagged,*)
(* the records are logged and the new row is on its page before the index  *)
(* is changed.  A page is not marked dirty when that throws.               *)
UpdateRow(i, key) ==
  LET old == [page[i] EXCEPT !.obsolete = TRUE]
      row == NewRow(last_rid + 1, key)
      rows == Append([page EXCEPT ![i] = old], row)
      records == RowRecords("update", old, row, last_rid + 1)
  IN  /\ phase = "idle"
      /\ LiveWithId(page[i].id) = {i}
      /\ GivesId(row.id) /\ last_rid' = last_rid + 1 /\ Counted
      /\ Indexed(key) => SearchEnds(file, key)
      /\ page' = rows
      /\ \/ EntersIndex(rows, key, row.id) /\ Executed(records)
         \/ IndexThrows(rows, key, row.id) /\ Aborted(records, row.id)

(* delete_rows flags the rows with the id; their entries stay in the index *)
DeleteRow(id) ==
  /\ phase = "idle"
  /\ LiveWithId(id) # {}
  /\ Counted
  /\ page' = [i \in DOMAIN page |->
                IF i \in LiveWithId(id) THEN [page[i] EXCEPT !.obsolete = TRUE] ELSE page[i]]
  /\ LET visited == SetToSortSeq(LiveWithId(id), <)
     IN  Executed(FlattenSeq([n \in DOMAIN visited |->
           RowRecords("delete", page'[visited[n]], page'[visited[n]], last_rid)]))
  /\ UNCHANGED <<last_rid, file, dirty, given>>

(* a search in a tree with a cycle, or a scan of a leaf chain with one,    *)
(* does not return, and it holds the instance mutex                        *)
Hangs ==
  /\ phase = "idle"
  /\ indexes # {}
  /\ \/ \E key \in Keys : ~SearchEnds(file, key)
     \/ ScanLoops(file)
  /\ phase' = "hung"
  /\ UNCHANGED <<table, index, history, events>>

(* create_index: the log record and the file with an empty tree first, then*)
(* the check for duplicates, then one insertion per live row, and only then*)
(* the metadata.  When it throws, the file and the record that it made are *)
(* not used again.                                                         *)
LiveEntries == SelectSeq(page, LAMBDA r : ~r.obsolete /\ r.key # NullKey)
HasDuplicates ==
  \E i, j \in DOMAIN LiveEntries : i # j /\ LiveEntries[i].key = LiveEntries[j].key
BuildStep(result, row) ==
  IF result.threw THEN result ELSE Insert(result.file, row.key, row.id)
Built == FoldLeft(BuildStep, Done(NewFile), LiveEntries)

CreateIndex(is_unique) ==
  /\ phase = "idle"
  /\ indexes = {}
  /\ UNCHANGED <<page, page_file, last_rid, mt_rid, durable, history, events>>
  /\ IF (is_unique /\ HasDuplicates) \/ Built.threw
       THEN UNCHANGED <<phase, log, index>>
       ELSE /\ disk' = Stored(NewFile)
            /\ file' = Built.file /\ dirty' = TRUE
            /\ indexes' = {is_unique}
            /\ phase' = "waiting"
            /\ log' = log \o <<[kind |-> "create_index", first |-> Len(log) + 1]>>
                          \o CommitRecord

-----------------------------------------------------------------------------
(* Commit: the log is made durable, then flush_dirty writes the page, and  *)
(* the index file if it is dirty.  Its last_lsn is at most that of the     *)
(* committing transaction, so the test of flush_dirty(max_lsn) always lets *)
(* it through.                                                             *)

WaitForDurable ==
  /\ phase = "waiting"
  /\ phase' = "flushing"
  /\ durable' = Len(log)
  /\ UNCHANGED <<page, page_file, last_rid, mt_rid, log, index, history, events>>

(* what redo makes of the table's files; it acts on a committed statement  *)
Committed(n) == Last(log).kind = "commit" /\ log[n].first = Last(log).first
FlagFirst(rows, id, b) ==
  LET i == SelectInSeq(rows, LAMBDA r : r.id = id)
  IN  IF i = 0 THEN rows ELSE [rows EXCEPT ![i].obsolete = b]
RedoStep(files, r) ==
  CASE r.kind = "insert" -> [files EXCEPT !.rows = Append(@, r.after)]
    [] r.kind = "update" -> [files EXCEPT !.rows = Append(FlagFirst(@, r.before.id, TRUE), r.after)]
    [] r.kind = "delete" -> [files EXCEPT !.rows = FlagFirst(@, r.before.id, TRUE)]
    [] r.kind = "table"  -> [files EXCEPT !.rid = r.after]
    [] OTHER -> files
Redone ==
  LET committed == SelectSeq([n \in DOMAIN log |-> n], Committed)
  IN  FoldLeft(LAMBDA files, n : RedoStep(files, log[n]),
               [rows |-> page_file, rid |-> mt_rid], committed)

(* the files of the table have what the statement did: of the records, only*)
(* those of statements that threw still matter                             *)
FlushPages ==
  /\ page_file' = page
  /\ mt_rid' = Redone.rid
  /\ log' = SubSeq(log, 1, Last(log).first - 1)
  /\ durable' = Last(log).first - 1

(* a mutant: only data pages are written                                   *)
FlushDirtyPagesOnly ==
  /\ phase = "flushing"
  /\ phase' = "idle"
  /\ FlushPages
  /\ UNCHANGED <<page, last_rid, index, history, events>>
FlushDirty ==
  /\ phase = "flushing"
  /\ phase' = "idle"
  /\ FlushPages
  /\ disk' = IF dirty THEN Stored(file) ELSE disk
  /\ dirty' = FALSE
  /\ UNCHANGED <<page, last_rid, indexes, file, history, events>>

-----------------------------------------------------------------------------
(* The index file leaves the cache and is read again                       *)

(* Cache::evict_one writes a dirty file; the next access reads it          *)
Evict ==
  /\ phase = "idle"
  /\ Counted
  /\ disk' = IF dirty THEN Stored(file) ELSE disk
  /\ file' = Loaded(disk')
  /\ dirty' = FALSE
  /\ UNCHANGED <<phase, table, indexes, history>>

(* the process ends with k records in the log files                        *)
Die(k, how) ==
  /\ phase' = "down"
  /\ log' = SubSeq(log, 1, k) /\ durable' = k
  /\ restarts' = restarts \union {how}
  /\ UNCHANGED <<page, page_file, last_rid, mt_rid, file, dirty, disk, given, failed>>

(* the destructors write the table's metadata, which redo writes again, and*)
(* drop the dirty entries of the buffer pool and the records in memory     *)
Close ==
  /\ phase = "idle"
  /\ Counted
  /\ Die(durable, "close")
  /\ UNCHANGED indexes

(* a crash inside a statement or its commit; a part of the records that    *)
(* wait_for_durable was writing may be in the files, and a CREATE INDEX    *)
(* whose commit record is not among them is undone.  Between statements a  *)
(* crash is a Close.                                                       *)
Crash ==
  /\ phase \in {"waiting", "flushing", "hung"}
  /\ Counted
  /\ \E k \in IF phase = "waiting" THEN durable .. Len(log) ELSE {durable} :
       /\ Die(k, "crash")
       /\ indexes' = IF /\ k < Len(log)
                        /\ \E n \in DOMAIN log : log[n].kind = "create_index"
                      THEN {} ELSE indexes

(* The unfinished statements are undone, each from its last record, in any *)
(* order: an INSERT's row is flagged, a DELETE's is no longer, and the row *)
(* an UPDATE made gets the values of the one it replaced, which stays      *)
(* flagged.  The first row of the page with the id is taken.               *)
RestoreFirst(rows, id, key) ==
  LET i == SelectInSeq(rows, LAMBDA r : r.id = id)
  IN  IF i = 0 THEN rows ELSE [rows EXCEPT ![i].obsolete = FALSE, ![i].key = key]
UndoStep(files, r) ==
  CASE r.kind = "insert" -> [files EXCEPT !.rows = FlagFirst(@, r.after.id, TRUE)]
    [] r.kind = "update" -> [files EXCEPT !.rows = RestoreFirst(@, r.after.id, r.before.key)]
    [] r.kind = "delete" -> [files EXCEPT !.rows = FlagFirst(@, r.before.id, FALSE)]
    [] r.kind = "table"  -> [files EXCEPT !.rid = r.before]
    [] OTHER -> files
UndoTxn(files, first) ==
  LET records == SelectSeq(log, LAMBDA r : r.first = first)
  IN  FoldLeft(UndoStep, files, Reverse(records))
ActiveTxns == {log[n].first : n \in {m \in DOMAIN log : ~Committed(m)}}

(* recovery of the table and its metadata, then the first use of the index *)
Start ==
  /\ phase = "down"
  /\ phase' = "idle"
  /\ \E order \in SetToSeqs(ActiveTxns) :
       LET files == FoldLeft(UndoTxn, Redone, order)
       IN  /\ page' = files.rows /\ page_file' = files.rows
           /\ last_rid' = files.rid /\ mt_rid' = files.rid
  /\ log' = <<>> /\ durable' = 0
  /\ file' = Loaded(disk)
  /\ dirty' = FALSE
  /\ UNCHANGED <<indexes, disk, history, events>>

Next ==
  \/ \E key \in Values : InsertRow(key)
  \/ \E i \in DOMAIN page : \E key \in Values : UpdateRow(i, key)
  \/ \E i \in DOMAIN page : DeleteRow(page[i].id)
  \/ \E is_unique \in BOOLEAN : CreateIndex(is_unique)
  \/ WaitForDurable \/ FlushDirty \/ Hangs
  \/ Evict \/ Close \/ Crash \/ Start

Spec == Init /\ [][Next]_vars

-----------------------------------------------------------------------------
(* Properties                                                              *)

(* Types: the pages of the file in the buffer pool, the table and the      *)
(* engine's state.                                                         *)
IndexPage ==
  [id : Nat, parent : Nat, is_leaf : {TRUE}, keys : Seq(Keys), rows : Seq(Nat), next_leaf : Nat]
    \union [id : Nat, parent : Nat, is_leaf : {FALSE}, keys : Seq(Keys), children : Seq(Nat)]
TypeOK ==
  /\ phase \in Phases
  /\ {page, page_file} \subseteq Seq(Row) /\ {last_rid, mt_rid} \subseteq Nat
  /\ log \in Seq(Record) /\ durable \in 0 .. Len(log)
  /\ indexes \in {{}, {TRUE}, {FALSE}}
  /\ \A i \in DOMAIN file.pages : file.pages[i] \in IndexPage
  /\ file.root_page \in Nat /\ file.last_page \in Nat
  /\ file.capacity >= Len(file.pages)
  /\ dirty \in BOOLEAN
  /\ given \in Seq(Nat) /\ Len(given) <= MaxRows /\ failed \subseteq Range(given)
  /\ restarts \subseteq {"close", "crash"} /\ events \in 0 .. MaxEvents

(* A page's id finds that page.  create_page after a reload breaks it:     *)
(* ids begin again at 1.                                                   *)
PageIdsDiffer ==
  \A i, j \in DOMAIN file.pages : file.pages[i].id = file.pages[j].id => i = j

(* between statements, with an index in use whose page ids differ          *)
InGoodOrder == indexes # {} /\ phase = "idle" /\ PageIdsDiffer

InternalPages == {i \in DOMAIN file.pages : ~file.pages[i].is_leaf}
ChildrenOf(i) == {Pos(file, c) : c \in Range(file.pages[i].children)}
Ascending(keys) == \A i \in 1 .. Len(keys) - 1 : keys[i] <= keys[i + 1]

(* As long as page ids differ, the file is a search tree: every internal   *)
(* page in use has one child more than keys, and is its children's parent; *)
(* the leaf chain visits the leaves that hang below internal pages, each   *)
(* once, and its keys ascend.  Pages that a failed split left behind are   *)
(* linked nowhere.                                                         *)
TreeSound ==
  InGoodOrder =>
    LET chain == Chain(file)
        linked == UNION {ChildrenOf(i) : i \in InternalPages}
    IN  /\ ~ScanLoops(file)
        /\ \A i \in InternalPages :
             LET p == file.pages[i]
             IN  p.children # <<>> =>
                   /\ Len(p.children) = Len(p.keys) + 1
                   /\ \A c \in ChildrenOf(i) : file.pages[c].parent = p.id
                   /\ p.id = file.root_page \/ i \in linked
        /\ Range(chain) = IF file.pages[Pos(file, file.root_page)].is_leaf
                            THEN {Pos(file, file.root_page)} ELSE linked \ InternalPages
        /\ Cardinality(Range(chain)) = Len(chain)
        /\ Ascending(ChainKeys(file))

(* As long as page ids differ, find and the leaf chain agree: a search from*)
(* the root meets an entry for exactly the keys that the chain holds.      *)
FindMatchesScan ==
  InGoodOrder =>
    \A key \in Keys :
      /\ SearchEnds(file, key)
      /\ Found(file, key) <=> key \in Range(ChainKeys(file))

(* Without a crash, and as long as page ids differ, index_scan returns     *)
(* every live row that a committed statement made whose column is not NULL,*)
(* once, by an entry with the row's key, unless its id was given to another*)
(* row too: last_rid++ of make_row after ++last_rid of update_row does that*)
(* and append_row_by_ptr then returns the first of the two for both.       *)
Entries(id) == {n \in DOMAIN ChainRows(file) : ChainRows(file)[n] = id}
GivenOnce(id) == Cardinality({n \in DOMAIN given : given[n] = id}) = 1
IndexCoversRows ==
  InGoodOrder /\ "crash" \notin restarts =>
    \A i \in DOMAIN page :
      LET row == page[i]
      IN  ~row.obsolete /\ row.key # NullKey /\ GivenOnce(row.id) /\ row.id \notin failed
            => \E n \in Entries(row.id) : /\ Entries(row.id) = {n}
                                          /\ ChainKeys(file)[n] = row.key

(* A unique index keeps two live rows from having the same key, as long as *)
(* page ids differ, both rows have an entry and an id of their own, the    *)
(* entries of that key are in one leaf (find looks at one leaf only, and a *)
(* split can divide equal keys), and no restart has brought back a row that*)
(* a failed statement replaced.                                            *)
InOneLeaf(key) ==
  Cardinality({i \in Range(Chain(file)) : key \in Range(file.pages[i].keys)}) <= 1
UniqueHolds ==
  InGoodOrder /\ indexes = {TRUE} /\ ~(failed # {} /\ restarts # {}) =>
    \A i, j \in DOMAIN page :
      /\ i # j /\ ~page[i].obsolete /\ ~page[j].obsolete
      /\ page[i].key = page[j].key /\ page[i].key # NullKey
      /\ GivenOnce(page[i].id) /\ GivenOnce(page[j].id)
      /\ InOneLeaf(page[i].key)
      => Entries(page[i].id) = {} \/ Entries(page[j].id) = {}
=============================================================================
