------------------------------ MODULE Storage ------------------------------
(***************************************************************************)
(* One StdDbInstance and one of its tables: statements that run as         *)
(* transactions (storage/std_db_instance.cpp, executor/node_executor.cpp), *)
(* the buffer pool (storage/buffer_pool.cpp), the page and table files, and*)
(* RecoveryManager (recovery/recovery_manager.cpp), with crashes anywhere, *)
(* recovery included.                                                      *)
(*                                                                         *)
(* The write-ahead log is the sequence of its records, an LSN being a      *)
(* position in it; the first `durable` of them are in the log files.       *)
(* FileWalProofs shows that FileWalManager is such a log.  An engine runs  *)
(* one statement at a time.                                                *)
(***************************************************************************)
EXTENDS Naturals, Sequences, FiniteSets

CONSTANTS
  Txns, NoTxn,  \* transaction ids, one per statement; none
  Pages, NoPage,\* page ids; the null id
  Vals,         \* what the columns of a row hold
  PageCap,      \* rows in a page file of DataPage::MAX_SIZE bytes
  Statements,   \* the statements clients send, of {"insert", "update", "delete"}
  Evictions,    \* pages the full cache may drop: "none", "clean" or "any"
  Counter,      \* number of values of live_rows, 2^64 in the code
  MaxLsn,       \* bound on the log's length when a statement begins
  MaxTargets,   \* bound on the rows an UPDATE or DELETE matches
  MaxCrashes, MaxThrows, MaxEvicts  \* bounds on crashes, failing statements, evictions

ASSUME ConstantsAssumption ==
  /\ NoPage \notin Pages /\ NoTxn \notin Txns
  /\ IsFiniteSet(Pages)
  /\ MaxLsn \in Nat /\ PageCap \in Nat /\ Counter \in Nat \ {0}

VARIABLES
  phase,     \* what the process does, see Phases
  log,       \* the write-ahead log
  durable,   \* how much of it is in the log files
  disk,      \* page files
  mt_file,   \* the table's meta file
  mt,        \* MetaTable in the catalog
  pages,     \* data_pages_per_table_ of the table
  cache,     \* data_pages_
  dirty,     \* its dirty entries
  txn,       \* running or committing statement: its transaction
  unchanged_mt, \* the copy of mt taken when the operation began
  todo,      \* rows an UPDATE or DELETE has yet to visit, as <<page, slot>>
  redone,    \* recovery: records the REDO pass is through with
  active,    \* recovery: transactions still to be undone
  current,   \* recovery: `current` of undo(), for the transaction being undone
  lost_flags,\* history: OBSOLETE flags that update_row set in freed memory
  crashes, throws, evicts

statement == <<txn, unchanged_mt, todo>>
memory == <<mt, pages, cache, dirty>>
recovery == <<redone, active, current>>
files == <<log, durable, disk, mt_file>>
history == <<lost_flags, crashes, throws, evicts>>
vars == <<phase, files, memory, statement, recovery, history>>

Phases == {"idle", "insert", "update", "delete",    \* between, and in, statements
           "waiting", "flushing",                   \* Transaction::commit
           "down", "redo", "undo", "undo_apply"}    \* no process; RecoveryManager
InStatement == {"insert", "update", "delete"}

-----------------------------------------------------------------------------
(* Rows, pages, table metadata and log records                             *)

Row == [id : Nat, val : Vals, obsolete : BOOLEAN]
Page == [rows : Seq(Row), last_lsn : Nat, next : Pages \union {NoPage},
         max_rid : Nat, size : Nat]
MetaTable == [last_rid : Nat, live_rows : 0 .. Counter - 1]
Record ==
  [kind : {"begin", "commit", "rollback"}, txn : Txns, prev : Nat]
    \union [kind : {"insert", "update", "delete"}, txn : Txns, prev : Nat, page : Pages,
            before : Row, after : Row]
    \union [kind : {"update_table"}, txn : Txns, prev : Nat, before : MetaTable,
            after : MetaTable]
    \union [kind : {"clr"}, txn : Txns, prev : Nat, of : Nat, undo_next : Nat]

WithRows(pg, rows, lsn) == [pg EXCEPT !.rows = rows, !.last_lsn = lsn]
NewPage == [rows |-> <<>>, last_lsn |-> 0, next |-> NoPage, max_rid |-> 0, size |-> 0]

Put(f, k, v) == [x \in DOMAIN f \union {k} |-> IF x = k THEN v ELSE f[x]]

(* the loop that flags the first row with a given id                       *)
FlagFirst(rows, id, b) ==
  [i \in DOMAIN rows |->
     IF rows[i].id = id /\ \A j \in 1 .. i - 1 : rows[j].id # id
       THEN [rows[i] EXCEPT !.obsolete = b] ELSE rows[i]]

(* CLRUpdate and the undo of an update: the new row gets the old values    *)
RestoreFirst(rows, id, val) ==
  [i \in DOMAIN rows |->
     IF rows[i].id = id /\ \A j \in 1 .. i - 1 : rows[j].id # id
       THEN [rows[i] EXCEPT !.obsolete = FALSE, !.val = val] ELSE rows[i]]

DataKinds == {"insert", "update", "delete"}

(* the last LSN of transaction x in log lg, 0 if it has none: last_lsn_ of *)
(* the transaction, and get_last_lsns                                      *)
LastLsn(x, lg) ==
  LET S == {i \in DOMAIN lg : lg[i].txn = x}
  IN  IF S = {} THEN 0 ELSE CHOOSE m \in S : \A i \in S : i <= m

(* Transaction::append_log, for each sort of record: it is given the       *)
(* transaction and linked to that transaction's last record                *)
LogMark(lg, x, kind) ==
  Append(lg, [kind |-> kind, txn |-> x, prev |-> LastLsn(x, lg)])
LogRow(lg, x, kind, p, before, after) ==
  Append(lg, [kind |-> kind, txn |-> x, prev |-> LastLsn(x, lg), page |-> p,
              before |-> before, after |-> after])
LogTable(lg, x, before, after) ==
  Append(lg, [kind |-> "update_table", txn |-> x, prev |-> LastLsn(x, lg),
              before |-> before, after |-> after])

(* make_clr whose undo_next_lsn is the record it compensates               *)
make_clrAgain(of) ==
  [kind |-> "clr", txn |-> log[of].txn, prev |-> 0, of |-> of, undo_next |-> of]

(* a compensation record carries what the record at LSN `of` carries       *)
make_clr(of) ==
  [kind |-> "clr", txn |-> log[of].txn, prev |-> 0, of |-> of, undo_next |-> log[of].prev]

Marked(x, kind) == \E i \in DOMAIN log : log[i].kind = kind /\ log[i].txn = x

NewTable == [last_rid |-> 0, live_rows |-> 0]

TypeOK ==
  /\ phase \in Phases
  /\ log \in Seq(Record) /\ durable \in 0 .. Len(log)
  /\ DOMAIN disk \subseteq Pages /\ \A p \in DOMAIN disk : disk[p] \in Page
  /\ mt_file \in MetaTable /\ mt \in MetaTable /\ unchanged_mt \in MetaTable
  /\ pages \in Seq(Pages)
  /\ DOMAIN cache \subseteq Pages /\ \A p \in DOMAIN cache : cache[p] \in Page
  /\ dirty \subseteq DOMAIN cache
  /\ txn \in Txns \union {NoTxn}
  /\ \A t \in todo : t[1] \in DOMAIN cache /\ t[2] \in DOMAIN cache[t[1]].rows
  /\ redone \in 0 .. Len(log) /\ current \in 0 .. Len(log)
  /\ active \subseteq Txns
  /\ lost_flags \in Nat /\ crashes \in Nat /\ throws \in Nat /\ evicts \in Nat

Init ==
  /\ phase = "idle"
  /\ log = <<>> /\ durable = 0
  /\ disk = <<>> /\ mt_file = NewTable
  /\ mt = NewTable /\ pages = <<>> /\ cache = <<>> /\ dirty = {}
  /\ txn = NoTxn /\ unchanged_mt = NewTable /\ todo = {}
  /\ redone = 0 /\ active = {} /\ current = 0
  /\ lost_flags = 0 /\ crashes = 0 /\ throws = 0 /\ evicts = 0

-----------------------------------------------------------------------------
(* The buffer pool                                                         *)

(* write_page: the size of a page is not stored, a reader takes the file's *)
write_page(p, pg) == Put(disk, p, [pg EXCEPT !.size = Len(pg.rows)])

(* get_table_data: the cache once every page of the table was asked for    *)
get_table_data ==
  [p \in DOMAIN cache \union {pages[k] : k \in {j \in DOMAIN pages : pages[j] \in DOMAIN disk}}
     |-> IF p \in DOMAIN cache THEN cache[p] ELSE disk[p]]

(* some page of the table can neither be found in the cache nor be read    *)
NullPage == \E k \in DOMAIN pages : pages[k] \notin DOMAIN get_table_data

(* positions in `pages` of the pages of c                                  *)
Loaded(c) == {k \in DOMAIN pages : pages[k] \in DOMAIN c}

(* prepare_dp finds its page: the first with room, its size never counting *)
(* the rows added since it was read                                        *)
WithRoom(c) == {k \in Loaded(c) : c[pages[k]].size + 1 <= PageCap}
First(S) == CHOOSE k \in S : \A j \in S : k <= j

(* insert_row's tail page: no successor, greatest max_rid, first of these  *)
Tails(c) == {k \in Loaded(c) : c[pages[k]].next = NoPage}
TailPos(c) == First({k \in Tails(c) : \A j \in Tails(c) :
                                      c[pages[j]].max_rid <= c[pages[k]].max_rid})

(* p may be the page prepare_dp returns: the first with room, or a new one *)
MayPrepare(p) ==
  LET c == get_table_data
  IN  IF WithRoom(c) # {} THEN p = pages[First(WithRoom(c))]
      ELSE /\ \A k \in DOMAIN pages : pages[k] # p
           /\ \A i \in DOMAIN log : log[i].kind \in DataKinds => log[i].page # p
           /\ p \notin DOMAIN disk

(* what prepare_dp, and the linking of a new page in insert_row, leave     *)
PrepareDp(p) ==
  LET c == get_table_data
      q == pages[TailPos(c)]
  IN  IF WithRoom(c) # {} THEN [cache |-> c, pages |-> pages, dirty |-> dirty]
      ELSE IF Tails(c) = {}
        THEN [cache |-> Put(c, p, NewPage), pages |-> Append(pages, p), dirty |-> dirty]
        ELSE [cache |-> Put([c EXCEPT ![q].next = p], p, NewPage),
              pages |-> Append(pages, p), dirty |-> dirty \union {q}]

(* seq_scan: it starts at the first page that no page refers to, or at the *)
(* first page, and follows the successors                                  *)
ScanStart(c) ==
  LET heads == {k \in Loaded(c) : \A j \in Loaded(c) : c[pages[j]].next # pages[k]}
  IN  IF heads # {} THEN {pages[First(heads)]}
      ELSE IF Loaded(c) # {} THEN {pages[First(Loaded(c))]} ELSE {}

ScanPages(c) ==
  LET reach[n \in 0 .. Cardinality(Pages)] ==
        IF n = 0 THEN ScanStart(c)
        ELSE reach[n - 1] \union ({c[p].next : p \in reach[n - 1]} \intersect DOMAIN c)
  IN  reach[Cardinality(Pages)]

(* <<page, slot>> of the rows of the pages in P that are not OBSOLETE      *)
LiveSlots(c, P) ==
  UNION {{<<p, i>> : i \in {j \in DOMAIN c[p].rows : ~c[p].rows[j].obsolete}} : p \in P}

RowAt(c, t) == c[t[1]].rows[t[2]]

-----------------------------------------------------------------------------
(* Statements                                                              *)

(* an INSERT begins its transaction                                        *)
BeginInsert(x) ==
  /\ phase = "idle" /\ "insert" \in Statements
  /\ x \notin {log[i].txn : i \in DOMAIN log}
  /\ Len(log) + 4 <= MaxLsn
  /\ phase' = "insert" /\ txn' = x
  /\ log' = LogMark(log, x, "begin")
  /\ UNCHANGED <<durable, disk, mt_file, memory, unchanged_mt, todo, recovery, history>>

(* make_row                                                                *)
TableAfterInsert ==
  [mt EXCEPT !.last_rid = @ + 1, !.live_rows = (@ + 1) % Counter]

(* the INSERT has not had its row yet: parse_insert reads one row          *)
RowPending == log[Len(log)].kind = "begin"

(* insert_row                                                              *)
InsertRow(v) ==
  /\ phase = "insert" /\ RowPending
  /\ \E p \in Pages :
       LET d == PrepareDp(p)
           row == [id |-> mt.last_rid, val |-> v, obsolete |-> FALSE]
           lg == LogTable(LogRow(log, txn, "insert", p, row, row), txn, mt, TableAfterInsert)
       IN  /\ MayPrepare(p)
           /\ log' = lg
           /\ cache' = [d.cache EXCEPT ![p] = WithRows(@, Append(@.rows, row), Len(lg))]
           /\ dirty' = d.dirty \union {p}
           /\ pages' = d.pages
  /\ mt' = TableAfterInsert
  /\ UNCHANGED <<phase, durable, disk, mt_file, statement, recovery, history>>

(* insert_row throws UniqueConstraintViolation from insert_row_into_indexes:*)
(* the table's counters and a new page stay behind, the transaction is      *)
(* dropped without a rollback                                               *)
InsertThrows ==
  /\ phase = "insert" /\ RowPending /\ throws < MaxThrows
  /\ \E p \in Pages :
       LET d == PrepareDp(p)
       IN  /\ MayPrepare(p)
           /\ cache' = d.cache /\ dirty' = d.dirty /\ pages' = d.pages
  /\ mt' = TableAfterInsert
  /\ phase' = "idle" /\ txn' = NoTxn
  /\ throws' = throws + 1
  /\ UNCHANGED <<files, unchanged_mt, todo, recovery, lost_flags, crashes, evicts>>

(* The slots update_row or delete_rows comes to, of those that hold the ids*)
(* it was given.  page->rows.push_back in the loop of update_row may move  *)
(* the rows, and a row that is then met in the freed memory may be         *)
(* overlooked; its page has an earlier one that was updated.               *)
Visits(kind, found) ==
  {S \in SUBSET found :
     \A t \in found \ S : kind = "update" /\ \E u \in S : u[1] = t[1] /\ u[2] < t[2]}

(* an UPDATE or DELETE begins and scans the table for the rows it is about *)
BeginOnRows(x, kind) ==
  /\ phase = "idle" /\ kind \in Statements \ {"insert"}
  /\ x \notin {log[i].txn : i \in DOMAIN log}
  /\ ~NullPage
  /\ LET c == get_table_data
         all == LiveSlots(c, DOMAIN c)
         scanned == {RowAt(c, t).id : t \in LiveSlots(c, ScanPages(c))}
     IN  /\ cache' = c
         /\ \E ids \in SUBSET scanned :
              /\ Cardinality(ids) <= MaxTargets
              /\ todo' \in Visits(kind, {t \in all : RowAt(c, t).id \in ids})
              /\ Len(log) + 2 + 2 * Cardinality(todo') <= MaxLsn
  /\ phase' = kind /\ txn' = x /\ unchanged_mt' = mt
  /\ log' = LogMark(log, x, "begin")
  /\ UNCHANGED <<durable, disk, mt_file, mt, pages, dirty, recovery, history>>

(* t is the slot the loops over pages and rows come to next                *)
PagePos(p) == CHOOSE k \in DOMAIN pages : pages[k] = p
IsNext(t) ==
  /\ t \in todo
  /\ \A u \in todo : \/ PagePos(t[1]) < PagePos(u[1])
                     \/ t[1] = u[1] /\ t[2] <= u[2]

(* t is the last slot of its page to be visited: the page gets its LSN     *)
PageDone(t) == ~\E u \in todo : u # t /\ u[1] = t[1]

(* update_row on slot t: the old row, flagged before it is logged, the new *)
(* one, and the page after it, the flag on the old row being lost when the *)
(* vector's memory moved under the iteration, as it may have done once the *)
(* loop has put a row on this page.  (The loop may also end the process    *)
(* there: a Crash.)                                                        *)
OldVersion(t) == [RowAt(cache, t) EXCEPT !.obsolete = TRUE]
NewVersion(t, v) == [RowAt(cache, t) EXCEPT !.id = mt.last_rid + 1, !.val = v]
RowsAfterUpdate(t, v, lost) ==
  Append([cache[t[1]].rows EXCEPT ![t[2]].obsolete = ~lost], NewVersion(t, v))
MaxRidAfterUpdate(t) ==
  IF cache[t[1]].max_rid < mt.last_rid + 1 THEN mt.last_rid + 1 ELSE cache[t[1]].max_rid
PageAfterUpdate(t, v, lost) ==
  [cache[t[1]] EXCEPT !.rows = RowsAfterUpdate(t, v, lost), !.max_rid = MaxRidAfterUpdate(t)]
(* ... logging the table as it was when the statement began                *)
LogAfterUpdateStale(t, v) ==
  LogTable(LogRow(log, txn, "update", t[1], OldVersion(t), NewVersion(t, v)),
           txn, unchanged_mt, unchanged_mt)
LogAfterUpdate(t, v) ==
  LogTable(LogRow(log, txn, "update", t[1], OldVersion(t), NewVersion(t, v)),
           txn, unchanged_mt, [mt EXCEPT !.last_rid = @ + 1])
MayLose(t) ==
  IF \E i \in DOMAIN log : /\ log[i].txn = txn /\ log[i].kind = "update"
                           /\ log[i].page = t[1]
    THEN BOOLEAN ELSE {FALSE}

(* update_row, one iteration                                               *)
UpdateRow(t, v) ==
  /\ phase = "update" /\ IsNext(t)
  /\ log' = LogAfterUpdate(t, v)
  /\ mt' = [mt EXCEPT !.last_rid = @ + 1]
  /\ \E lost \in MayLose(t) :
       LET pg == PageAfterUpdate(t, v, lost)
       IN  /\ cache' = [cache EXCEPT ![t[1]] =
                          IF PageDone(t) THEN [pg EXCEPT !.last_lsn = Len(log) + 1] ELSE pg]
           /\ lost_flags' = IF lost THEN lost_flags + 1 ELSE lost_flags
  /\ dirty' = IF PageDone(t) THEN dirty \union {t[1]} ELSE dirty
  /\ todo' = todo \ {t}
  /\ UNCHANGED <<phase, durable, disk, mt_file, pages, txn, unchanged_mt, recovery,
                 crashes, throws, evicts>>

(* UpdateThrows that keeps the rest of the loop for later                  *)
UpdateThrowsResumes(t, v) ==
  /\ phase = "update" /\ IsNext(t) /\ throws < MaxThrows
  /\ log' = LogAfterUpdate(t, v)
  /\ mt' = [mt EXCEPT !.last_rid = @ + 1]
  /\ \E lost \in MayLose(t) : /\ cache' = [cache EXCEPT ![t[1]] = PageAfterUpdate(t, v, lost)]
                             /\ lost_flags' = IF lost THEN lost_flags + 1 ELSE lost_flags
  /\ phase' = "idle" /\ txn' = NoTxn /\ unchanged_mt' = NewTable
  /\ throws' = throws + 1
  /\ UNCHANGED <<durable, disk, mt_file, pages, dirty, todo, recovery, crashes, evicts>>

(* update_row throws UniqueConstraintViolation: the records are logged and *)
(* the page changed, its LSN and dirty mark are not                        *)
UpdateThrows(t, v) ==
  /\ phase = "update" /\ IsNext(t) /\ throws < MaxThrows
  /\ log' = LogAfterUpdate(t, v)
  /\ mt' = [mt EXCEPT !.last_rid = @ + 1]
  /\ \E lost \in MayLose(t) : /\ cache' = [cache EXCEPT ![t[1]] = PageAfterUpdate(t, v, lost)]
                             /\ lost_flags' = IF lost THEN lost_flags + 1 ELSE lost_flags
  /\ todo' = {} /\ phase' = "idle" /\ txn' = NoTxn /\ unchanged_mt' = NewTable
  /\ throws' = throws + 1
  /\ UNCHANGED <<durable, disk, mt_file, pages, dirty, recovery, crashes, evicts>>

(* delete_rows that forgets the counter                                    *)
TableAfterDeleteUncounted == mt

(* delete_rows: the counter is unsigned                                    *)
TableAfterDelete == [mt EXCEPT !.live_rows = (@ + Counter - 1) % Counter]

(* delete_rows, one iteration                                              *)
DeleteRow(t) ==
  /\ phase = "delete" /\ IsNext(t)
  /\ LET row == OldVersion(t)
         pg == [cache[t[1]] EXCEPT !.rows[t[2]] = row]
     IN  /\ log' = LogTable(LogRow(log, txn, "delete", t[1], row, row),
                            txn, unchanged_mt, TableAfterDelete)
         /\ mt' = TableAfterDelete
         /\ cache' = [cache EXCEPT ![t[1]] =
                        IF PageDone(t) THEN [pg EXCEPT !.last_lsn = Len(log) + 1] ELSE pg]
  /\ dirty' = IF PageDone(t) THEN dirty \union {t[1]} ELSE dirty
  /\ todo' = todo \ {t}
  /\ UNCHANGED <<phase, durable, disk, mt_file, pages, txn, unchanged_mt, recovery, history>>

(* Transaction::commit: the commit record                                  *)
Commit ==
  /\ phase \in InStatement /\ todo = {}
  /\ phase = "insert" => ~RowPending
  /\ log' = LogMark(log, txn, "commit")
  /\ phase' = "waiting"
  /\ UNCHANGED <<durable, disk, mt_file, memory, statement, recovery, history>>

(* WaitForDurable that does not wait                                       *)
WaitForDurableReturnsEarly ==
  /\ phase = "waiting"
  /\ phase' = "flushing"
  /\ UNCHANGED <<log, durable, disk, mt_file, memory, statement, recovery, history>>

(* wait_for_durable returns                                                *)
WaitForDurable ==
  /\ phase = "waiting"
  /\ durable' = Len(log)
  /\ phase' = "flushing"
  /\ UNCHANGED <<log, disk, mt_file, memory, statement, recovery, history>>

(* flush_dirty(max_lsn): the pages it writes                               *)
Flushable == {p \in dirty : cache[p].last_lsn <= LastLsn(txn, log)}

FlushDirty(p) ==
  /\ phase = "flushing" /\ p \in Flushable
  /\ disk' = write_page(p, cache[p])
  /\ dirty' = dirty \ {p}
  /\ UNCHANGED <<phase, log, durable, mt_file, mt, pages, cache, statement, recovery, history>>

(* commit returns                                                          *)
CommitDone ==
  /\ phase = "flushing" /\ Flushable = {}
  /\ phase' = "idle" /\ txn' = NoTxn /\ unchanged_mt' = NewTable
  /\ UNCHANGED <<files, memory, todo, recovery, history>>

(* the cache is full of pages of other tables: p, the least recently used, *)
(* is evicted, written first if it is dirty                                *)
Evict(p) ==
  /\ phase = "idle" /\ p \in DOMAIN cache /\ evicts < MaxEvicts
  /\ Evictions = "any" \/ (Evictions = "clean" /\ p \notin dirty)
  /\ disk' = IF p \in dirty THEN write_page(p, cache[p]) ELSE disk
  /\ dirty' = dirty \ {p}
  /\ cache' = [q \in DOMAIN cache \ {p} |-> cache[q]]
  /\ evicts' = evicts + 1
  /\ UNCHANGED <<phase, log, durable, mt_file, mt, pages, statement, recovery,
                 lost_flags, crashes, throws>>

-----------------------------------------------------------------------------
(* Crashes and recovery                                                    *)

(* the process is gone; k records of the log are in the log files          *)
Die(k) ==
  /\ phase' = "down"
  /\ log' = SubSeq(log, 1, k) /\ durable' = k
  /\ mt' = NewTable /\ pages' = <<>> /\ cache' = <<>> /\ dirty' = {}
  /\ txn' = NoTxn /\ unchanged_mt' = NewTable /\ todo' = {}
  /\ redone' = 0 /\ active' = {} /\ current' = 0
  /\ crashes' = crashes + 1
  /\ UNCHANGED <<disk, lost_flags, throws, evicts>>

(* a crash; inside wait_for_durable any part of the batch may be written   *)
Crash ==
  /\ phase # "down" /\ crashes < MaxCrashes
  /\ \E k \in durable .. Len(log) : /\ phase # "waiting" => k = durable
                                    /\ Die(k)
  /\ UNCHANGED mt_file

(* the instance is destroyed: the catalog writes the table's metadata, the *)
(* dirty pages and the unflushed log are dropped                           *)
Close ==
  /\ phase = "idle" /\ crashes < MaxCrashes
  /\ mt_file' = mt
  /\ Die(durable)

(* the next start: recover() reads the log                                 *)
Start ==
  /\ phase = "down"
  /\ phase' = "redo"
  /\ UNCHANGED <<files, memory, statement, recovery, history>>

(* redo(record, page) on the rows of the page                              *)
RedoRows(r, rows) ==
  CASE r.kind = "insert" -> Append(rows, r.after)
    [] r.kind = "update" -> Append(FlagFirst(rows, r.before.id, TRUE), r.after)
    [] r.kind = "delete" -> FlagFirst(rows, r.before.id, TRUE)

(* undo_record(record, page); redo of its compensation record is the same  *)
UndoRows(r, rows) ==
  CASE r.kind = "insert" -> FlagFirst(rows, r.after.id, TRUE)
    [] r.kind = "update" -> RestoreFirst(rows, r.after.id, r.before.val)
    [] r.kind = "delete" -> FlagFirst(rows, r.before.id, FALSE)

ReadOrCreate(p) == IF p \in DOMAIN disk THEN disk[p] ELSE NewPage

(* redo_data without the LSN comparison                                    *)
RedoDataUnguarded(n, p, rows) ==
  /\ disk' = write_page(p, WithRows(ReadOrCreate(p), rows, n))
  /\ UNCHANGED mt_file

(* redo_data: record n changes page p unless the page has seen it          *)
RedoData(n, p, rows) ==
  /\ disk' = IF ReadOrCreate(p).last_lsn < n
               THEN write_page(p, WithRows(ReadOrCreate(p), rows, n))
               ELSE disk
  /\ UNCHANGED mt_file

(* redo of record n: compensation records always, others if committed      *)
RedoRecord(n) ==
  LET r == log[n]
  IN  \/ /\ r.kind = "clr" /\ log[r.of].kind \in DataKinds
         /\ LET p == log[r.of].page
            IN  RedoData(n, p, UndoRows(log[r.of], ReadOrCreate(p).rows))
      \/ /\ r.kind = "clr" /\ log[r.of].kind = "update_table"
         /\ mt_file' = log[r.of].before
         /\ UNCHANGED disk
      \/ /\ r.kind \in DataKinds /\ Marked(r.txn, "commit")
         /\ RedoData(n, r.page, RedoRows(r, ReadOrCreate(r.page).rows))
      \/ /\ r.kind = "update_table" /\ Marked(r.txn, "commit")
         /\ mt_file' = r.after
         /\ UNCHANGED disk
      \/ /\ r.kind # "clr"
         /\ r.kind \in {"begin", "commit", "rollback"} \/ ~Marked(r.txn, "commit")
         /\ UNCHANGED <<disk, mt_file>>

Redo ==
  /\ phase = "redo" /\ redone < Len(log)
  /\ RedoRecord(redone + 1)
  /\ redone' = redone + 1
  /\ UNCHANGED <<phase, log, durable, memory, statement, active, current, history>>

(* get_active_txns: neither committed nor rolled back                      *)
EndRedo ==
  /\ phase = "redo" /\ redone = Len(log)
  /\ phase' = "undo"
  /\ active' = {x \in {log[i].txn : i \in DOMAIN log} :
                  ~Marked(x, "commit") /\ ~Marked(x, "rollback")}
  /\ UNCHANGED <<files, memory, statement, redone, current, history>>

(* undo(): the next active transaction, from its last record               *)
UndoTxn(x) ==
  /\ phase = "undo" /\ txn = NoTxn /\ x \in active
  /\ txn' = x /\ current' = LastLsn(x, log)
  /\ UNCHANGED <<phase, files, memory, unchanged_mt, todo, redone, active, history>>

(* the record can be compensated: metadata always, a row if its page exists*)
Undoable(r) == \/ r.kind = "update_table"
               \/ r.kind \in DataKinds /\ r.page \in DOMAIN disk

(* UndoSkip that does not get past a compensation record                   *)
UndoSkipStays ==
  /\ phase = "undo" /\ current # 0 /\ ~Undoable(log[current])
  /\ current' = IF log[current].kind = "clr" THEN current ELSE log[current].prev
  /\ UNCHANGED <<phase, files, memory, statement, redone, active, history>>

(* undo() passes over a record: a compensation record leads past what it   *)
(* compensates                                                             *)
UndoSkip ==
  /\ phase = "undo" /\ current # 0 /\ ~Undoable(log[current])
  /\ current' = IF log[current].kind = "clr" THEN log[current].undo_next
                                             ELSE log[current].prev
  /\ UNCHANGED <<phase, files, memory, statement, redone, active, history>>

(* undo() appends and flushes the compensation record                      *)
UndoLogs ==
  /\ phase = "undo" /\ current # 0 /\ Undoable(log[current])
  /\ log' = Append(log, make_clr(current))
  /\ durable' = Len(log) + 1
  /\ phase' = "undo_apply"
  /\ UNCHANGED <<disk, mt_file, memory, statement, recovery, history>>

(* UndoApplies that stamps the page with the LSN of the undone record      *)
UndoAppliesOldLsn ==
  /\ phase = "undo_apply"
  /\ LET r == log[current]
     IN  IF r.kind = "update_table"
           THEN mt_file' = r.before /\ UNCHANGED disk
           ELSE /\ disk' = write_page(r.page, WithRows(disk[r.page],
                                                     UndoRows(r, disk[r.page].rows), current))
                /\ UNCHANGED mt_file
  /\ current' = log[current].prev
  /\ phase' = "undo"
  /\ UNCHANGED <<log, durable, memory, statement, redone, active, history>>

(* ... then changes the page, or the metadata                              *)
UndoApplies ==
  /\ phase = "undo_apply"
  /\ LET r == log[current]
     IN  IF r.kind = "update_table"
           THEN mt_file' = r.before /\ UNCHANGED disk
           ELSE /\ disk' = write_page(r.page, WithRows(disk[r.page],
                                                     UndoRows(r, disk[r.page].rows), Len(log)))
                /\ UNCHANGED mt_file
  /\ current' = log[current].prev
  /\ phase' = "undo"
  /\ UNCHANGED <<log, durable, memory, statement, redone, active, history>>

(* the transaction is undone: the rollback marker                          *)
UndoEnd ==
  /\ phase = "undo" /\ txn # NoTxn /\ current = 0
  /\ log' = Append(log, [kind |-> "rollback", txn |-> txn, prev |-> 0])
  /\ durable' = Len(log) + 1
  /\ active' = active \ {txn} /\ txn' = NoTxn
  /\ UNCHANGED <<phase, disk, mt_file, memory, unchanged_mt, todo, redone, current, history>>

(* the rest of init(): hydrate() and initialize(), the pages in whatever   *)
(* order the directory lists them                                          *)
Recovered ==
  /\ phase = "undo" /\ active = {}
  /\ phase' = "idle"
  /\ mt' = mt_file
  /\ pages' \in {s \in [1 .. Cardinality(DOMAIN disk) -> DOMAIN disk] :
                   \A j, k \in DOMAIN s : s[j] = s[k] => j = k}
  /\ redone' = 0
  /\ UNCHANGED <<files, cache, dirty, statement, active, current, history>>

Statement ==
  \/ \E x \in Txns : BeginInsert(x)
  \/ \E v \in Vals : InsertRow(v)
  \/ InsertThrows
  \/ \E x \in Txns, kind \in {"update", "delete"} : BeginOnRows(x, kind)
  \/ \E t \in todo, v \in Vals : UpdateRow(t, v) \/ UpdateThrows(t, v)
  \/ \E t \in todo : DeleteRow(t)

Committing == Commit \/ WaitForDurable \/ CommitDone \/ \E p \in Pages : FlushDirty(p)

Recovering ==
  \/ Start \/ Redo \/ EndRedo
  \/ \E x \in Txns : UndoTxn(x)
  \/ UndoSkip \/ UndoLogs \/ UndoApplies \/ UndoEnd \/ Recovered

Next ==
  \/ Statement \/ Committing \/ Recovering
  \/ \E p \in Pages : Evict(p)
  \/ Crash \/ Close

Spec == Init /\ [][Next]_vars

(* a started server runs its recovery, and a crashed one is started again  *)
FairSpec == Spec /\ WF_vars(Recovering)

-----------------------------------------------------------------------------
(* Page LSNs and the log                                                   *)

(* Write-ahead: no page file holds a change whose log record could still   *)
(* be lost.  flush_dirty runs after wait_for_durable and checks LSNs; undo *)
(* flushes its compensation record first.                                  *)
WriteAhead == \A p \in DOMAIN disk : disk[p].last_lsn <= durable

(* A page file never goes back to an older LSN, whatever mix of commits,   *)
(* evictions, failed statements, redo and undo writes it (redo_data's      *)
(* guard, flush_dirty, undo).                                              *)
PageLsnMonotone ==
  [][\A p \in DOMAIN disk : /\ p \in DOMAIN disk'
                            /\ disk[p].last_lsn <= disk'[p].last_lsn]_vars

-----------------------------------------------------------------------------
(* What the log says the table holds                                       *)

Creates(i) == log[i].kind \in {"insert", "update"}
Supersedes(j, i) == /\ log[j].kind \in {"update", "delete"} /\ Creates(i)
                    /\ log[j].before.id = log[i].after.id

(* the records whose rows committed statements left in the table           *)
CommittedRows ==
  {i \in DOMAIN log :
     /\ Creates(i) /\ Marked(log[i].txn, "commit")
     /\ ~\E j \in DOMAIN log : Supersedes(j, i) /\ Marked(log[j].txn, "commit")}

(* no two rows ever got the same id                                        *)
RowIdsDistinct ==
  \A i, j \in DOMAIN log :
    Creates(i) /\ Creates(j) /\ log[i].after.id = log[j].after.id => i = j

(* no statement changed a row that a failed one had written                *)
NoDirtyWrite ==
  \A i, j \in DOMAIN log : Supersedes(j, i) => Marked(log[i].txn, "commit")

(* every transaction of the log is committed or rolled back                *)
AllFinished ==
  \A i \in DOMAIN log : Marked(log[i].txn, "commit") \/ Marked(log[i].txn, "rollback")

LiveWith(c, v) == {t \in LiveSlots(c, DOMAIN c) : RowAt(c, t).val = v}

(* the rows of the table are those the committed statements left           *)
RowsAsCommitted ==
  \A v \in Vals : Cardinality(LiveWith(get_table_data, v))
                    = Cardinality({i \in CommittedRows : log[i].after.val = v})

(* Exactly the committed statements count: between statements, and after   *)
(* any crashes (also inside recovery), restarts and failed statements, the *)
(* pages hold each committed row once and nothing else, as long as row ids *)
(* were not reused, nobody built on a failed statement's rows, and no      *)
(* push_back in the loop of update_row moved the rows so that a flag was   *)
(* lost (insert_row, update_row, delete_rows, flush_dirty, redo, undo).    *)
TableMatchesLog ==
  /\ phase = "idle" /\ AllFinished
  /\ RowIdsDistinct /\ NoDirtyWrite /\ lost_flags = 0
  => RowsAsCommitted

(* The REDO pass recovers the committed statements: after every recovery   *)
(* the pages hold exactly their rows (README.md, "REDO pass for            *)
(* committed/eligible records").  Row ids used twice break it.             *)
CommittedRecovered == phase = "undo" /\ active = {} /\ NoDirtyWrite =>
  \A v \in Vals : Cardinality(LiveWith(disk, v))
                    = Cardinality({i \in CommittedRows : log[i].after.val = v})

(* A transaction is undone once, however often recovery is interrupted: no *)
(* record is compensated twice, no transaction gets two rollback markers,  *)
(* and a committed one gets none of this (undo, make_clr, get_active_txns).*)
UndoneOnce ==
  LET clrs == {i \in DOMAIN log : log[i].kind = "clr"}
      ends == {i \in DOMAIN log : log[i].kind = "rollback"}
  IN  /\ \A i, j \in clrs : log[i].of = log[j].of => i = j
      /\ \A i, j \in ends : log[i].txn = log[j].txn => i = j
      /\ \A i \in clrs \union ends : ~Marked(log[i].txn, "commit")

(* The table's metadata keeps up with its pages: until an undo restores an *)
(* older copy, last_rid is not below any row id in the pages, so that an   *)
(* UPDATE's new id is fresh (update_row, UpdateTableRecord, hydrate).      *)
LastRidCovers ==
  phase = "idle" /\ (\A i \in DOMAIN log : log[i].kind # "clr") =>
    LET c == get_table_data
    IN  \A p \in DOMAIN c : \A i \in DOMAIN c[p].rows : c[p].rows[i].id <= mt.last_rid

(* live_rows, an unsigned counter, is the number of live rows of the table *)
(* in its width when no statement failed, no flag was lost in update_row   *)
(* and row ids were not reused, also after crashes and undone statements   *)
(* (make_row, delete_rows, UpdateTableRecord and its compensation).        *)
LiveRowsCounted ==
  phase = "idle" /\ throws = 0 /\ lost_flags = 0 /\ RowIdsDistinct =>
    mt.live_rows = Cardinality(LiveSlots(get_table_data, DOMAIN get_table_data)) % Counter

(* A SELECT after recovery reaches every committed row: seq_scan follows   *)
(* `next` from one page, and a new page is linked by a change that is in   *)
(* no log record.  (README.md, "Recovery replays WAL on startup.")         *)
ScanReachesRows ==
  phase = "idle" /\ AllFinished =>
    LET c == get_table_data IN LiveSlots(c, DOMAIN c) = LiveSlots(c, ScanPages(c))

(* Recovery ends, whatever crashes interrupted it (recover, undo), as long *)
(* as no crash left a page file half written: write_page truncates first,  *)
(* and read_data_page throws on such a file at every start.  Here a page   *)
(* file is written at once.                                                *)
RecoveryEnds == phase = "down" ~> phase = "idle"
====
