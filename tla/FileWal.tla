------------------------------ MODULE FileWal ------------------------------
(***************************************************************************)
(* FileWalManager (wal/file_wal_manager.cpp) under the transactions that   *)
(* drive it (transactions/transaction.cpp): LSN assignment, the dirty and  *)
(* the flushed buffer, flush() writing one record at a time into segment   *)
(* files, wait_for_durable(), failed writes, crashes, and hydrate_cache()  *)
(* at the next start.                                                      *)
(*                                                                         *)
(* A vector of records is the set of its records: each record carries its  *)
(* LSN and the vectors are kept in LSN order (see LsnUnique).  A transaction is   *)
(* also the thread that runs it: begin(), append_log(), commit().          *)
(***************************************************************************)
EXTENDS Naturals, FiniteSets

CONSTANTS
  Txns,         \* transactions, each begun at most once (their ids are UUIDs)
  NoTxn,        \* nobody
  MaxLsn,       \* bound on the LSNs handed out
  SegSize,      \* MAX_RECORDS_PER_LOGFILE, 1000 in the code
  MaxCrashes,   \* bound on crashes
  MaxFaults,    \* bound on failing open()/write() calls
  PowerLoss,    \* a crash may lose what was not fsync'ed
  TornWrites    \* an interrupted or failing write may leave part of a record

ASSUME ConstantsAssumption ==
  /\ NoTxn \notin Txns
  /\ MaxLsn \in Nat /\ MaxCrashes \in Nat /\ MaxFaults \in Nat
  /\ SegSize \in Nat \ {0}
  /\ PowerLoss \in BOOLEAN /\ TornWrites \in BOOLEAN

VARIABLES
  up,                \* "up", "down" (crashed), "broken" (start-up threw)
  next_lsn,          \* next_lsn_
  flushed_lsn,       \* flushed_lsn_
  dirty,             \* dirty_
  flushed,           \* flushed_
  flush_in_progress, \* flush_in_progress_
  db_mutex,          \* owner of the recursive db-scoped mutex
  to_flush,          \* flush(): the swapped-out batch
  unwritten,         \* the part of it write_logs has not written yet
  disk,              \* records in the segment files
  synced,            \* those an fsync covered
  torn,              \* segments that hold a partial record
  hidden,            \* records on disk behind a partial one
  pc,                \* where each transaction is
  last_lsn,          \* Transaction::last_lsn_
  acked,             \* transactions whose commit() saw its LSN durable
  crashes, faults    \* counters for the bounds

memory == <<next_lsn, flushed_lsn, dirty, flushed, flush_in_progress, db_mutex,
            to_flush, unwritten>>
files == <<disk, synced, torn, hidden>>
vars == <<up, memory, files, pc, last_lsn, acked, crashes, faults>>

Kinds == {"begin", "op", "commit"}
Record == [lsn : 1 .. MaxLsn, prev : 0 .. MaxLsn, txn : Txns, kind : Kinds]

PcValues == {"idle", "active", "waiting", "flushing", "syncing", "done",
             "failed", "gone"}

TypeOK ==
  /\ up \in {"up", "down", "broken"}
  /\ next_lsn \in 1 .. MaxLsn + 1 /\ flushed_lsn \in 0 .. MaxLsn
  /\ dirty \subseteq Record /\ flushed \subseteq Record
  /\ flush_in_progress \in BOOLEAN
  /\ db_mutex \in Txns \union {NoTxn}
  /\ unwritten \subseteq to_flush /\ to_flush \subseteq Record
  /\ synced \subseteq disk /\ disk \subseteq Record
  /\ torn \subseteq Nat /\ hidden \subseteq disk
  /\ pc \in [Txns -> PcValues]
  /\ last_lsn \in [Txns -> 0 .. MaxLsn]
  /\ acked \subseteq Txns
  /\ crashes \in Nat /\ faults \in Nat

-----------------------------------------------------------------------------
(* The segment file an LSN is written to (file_first_lsn of write_logs)    *)
Segment(lsn) == (lsn - 1) \div SegSize

(* read_logs_from_file stops at a partial record: it reads what precedes   *)
Readable == disk \ hidden

(* m is the greatest LSN in D, 0 if D is empty                             *)
IsMaxLsn(m, D) ==
  IF D = {} THEN m = 0
            ELSE /\ \E r \in D : m = r.lsn
                 /\ \A r \in D : r.lsn <= m

(* read_all_logs, and the records read_log searches                        *)
AllLogs == flushed \union dirty

(* the db mutex can be locked by x: it is recursive                        *)
CanLock(x) == db_mutex \in {NoTxn, x}

Init ==
  /\ up = "up"
  /\ next_lsn = 1 /\ flushed_lsn = 0
  /\ dirty = {} /\ flushed = {}
  /\ flush_in_progress = FALSE
  /\ db_mutex = NoTxn
  /\ to_flush = {} /\ unwritten = {}
  /\ disk = {} /\ synced = {} /\ torn = {} /\ hidden = {}
  /\ pc = [x \in Txns |-> "idle"]
  /\ last_lsn = [x \in Txns |-> 0]
  /\ acked = {}
  /\ crashes = 0 /\ faults = 0

-----------------------------------------------------------------------------
(* AppendLog with prev_lsn taken as get_next_lsn() - 1                     *)
AppendLogRacyPrev(x, kind) ==
  /\ up = "up" /\ CanLock(x)
  /\ next_lsn <= MaxLsn
  /\ dirty' = dirty \union
       {[lsn |-> next_lsn, prev |-> IF kind = "begin" THEN 0 ELSE next_lsn - 1,
         txn |-> x, kind |-> kind]}
  /\ last_lsn' = [last_lsn EXCEPT ![x] = next_lsn]
  /\ next_lsn' = next_lsn + 1
  /\ UNCHANGED <<up, flushed_lsn, flushed, flush_in_progress, db_mutex, to_flush,
                 unwritten, files, acked, crashes, faults>>

(* FileWalManager::append_log, called by x with its last_lsn_ as prev_lsn  *)
AppendLog(x, kind) ==
  /\ up = "up" /\ CanLock(x)
  /\ next_lsn <= MaxLsn
  /\ dirty' = dirty \union
       {[lsn |-> next_lsn, prev |-> last_lsn[x], txn |-> x, kind |-> kind]}
  /\ last_lsn' = [last_lsn EXCEPT ![x] = next_lsn]
  /\ next_lsn' = next_lsn + 1
  /\ UNCHANGED <<up, flushed_lsn, flushed, flush_in_progress, db_mutex, to_flush,
                 unwritten, files, acked, crashes, faults>>

Begin(x) ==
  /\ pc[x] = "idle"
  /\ AppendLog(x, "begin")
  /\ pc' = [pc EXCEPT ![x] = "active"]

AppendOp(x) ==
  /\ pc[x] = "active"
  /\ AppendLog(x, "op")
  /\ UNCHANGED pc

(* Transaction::commit up to the call of wait_for_durable                  *)
Commit(x) ==
  /\ pc[x] = "active"
  /\ AppendLog(x, "commit")
  /\ pc' = [pc EXCEPT ![x] = "waiting"]

(* wait_for_durable finds flushed_lsn_ at or past the commit's LSN         *)
WaitReturns(x) ==
  /\ up = "up" /\ pc[x] = "waiting" /\ CanLock(x)
  /\ flushed_lsn >= last_lsn[x]
  /\ db_mutex' = NoTxn
  /\ pc' = [pc EXCEPT ![x] = "done"]
  /\ acked' = acked \union {x}
  /\ UNCHANGED <<up, next_lsn, flushed_lsn, dirty, flushed, flush_in_progress,
                 to_flush, unwritten, files, last_lsn, crashes, faults>>

(* flush() up to write_logs: the dirty buffer is swapped out               *)
SwapDirty(x) ==
  /\ dirty # {}
  /\ db_mutex' = x
  /\ to_flush' = dirty /\ unwritten' = dirty /\ dirty' = {}

(* wait_for_durable starts a flush                                         *)
WaitFlushes(x) ==
  /\ up = "up" /\ pc[x] = "waiting" /\ CanLock(x)
  /\ flushed_lsn < last_lsn[x] /\ ~flush_in_progress
  /\ SwapDirty(x)
  /\ flush_in_progress' = TRUE
  /\ pc' = [pc EXCEPT ![x] = "flushing"]
  /\ UNCHANGED <<up, next_lsn, flushed_lsn, flushed, files, last_lsn, acked,
                 crashes, faults>>

(* wait_for_durable with nothing to flush: flush() returns at once and the *)
(* loop runs again, the db mutex still locked                              *)
WaitSpins(x) ==
  /\ up = "up" /\ pc[x] = "waiting" /\ CanLock(x)
  /\ flushed_lsn < last_lsn[x] /\ ~flush_in_progress
  /\ dirty = {}
  /\ db_mutex' = x
  /\ UNCHANGED <<up, next_lsn, flushed_lsn, dirty, flushed, flush_in_progress,
                 to_flush, unwritten, files, pc, last_lsn, acked, crashes, faults>>

(* flush() or sync() called on its own; with nothing dirty it returns      *)
Flush(x) ==
  /\ up = "up" /\ pc[x] = "active" /\ CanLock(x)
  /\ SwapDirty(x)
  /\ pc' = [pc EXCEPT ![x] = "syncing"]
  /\ UNCHANGED <<up, next_lsn, flushed_lsn, flushed, flush_in_progress, files,
                 last_lsn, acked, crashes, faults>>

(* FsyncSegments that misses the last record of a segment                  *)
FsyncSegmentsShort(S) ==
  synced \union {r \in disk : /\ Segment(r.lsn) \in S
                             /\ \E q \in disk : Segment(q.lsn) = Segment(r.lsn)
                                                /\ q.lsn > r.lsn}

(* fsync of the segments in S                                              *)
FsyncSegments(S) == synced \union {r \in disk : Segment(r.lsn) \in S}

(* WriteRecord that takes the batch in no particular order                 *)
WriteRecordAnyOrder(x) ==
  /\ up = "up" /\ pc[x] \in {"flushing", "syncing"}
  /\ \E r \in unwritten :
       /\ disk' = disk \union {r}
       /\ unwritten' = unwritten \ {r}
       /\ hidden' = IF Segment(r.lsn) \in torn THEN hidden \union {r} ELSE hidden
       /\ synced' = FsyncSegments({Segment(q.lsn) : q \in to_flush \ unwritten}
                                    \ {Segment(r.lsn)})
  /\ UNCHANGED <<up, next_lsn, flushed_lsn, dirty, flushed, flush_in_progress,
                 db_mutex, to_flush, torn, pc, last_lsn, acked, crashes, faults>>

(* one iteration of write_logs: the next record goes to its segment; when  *)
(* that is another segment than the open one, the open one is fsync'ed     *)
WriteRecord(x) ==
  /\ up = "up" /\ pc[x] \in {"flushing", "syncing"}
  /\ \E r \in unwritten :
       /\ \A q \in unwritten : r.lsn <= q.lsn
       /\ disk' = disk \union {r}
       /\ unwritten' = unwritten \ {r}
       /\ hidden' = IF Segment(r.lsn) \in torn THEN hidden \union {r} ELSE hidden
       /\ synced' = FsyncSegments({Segment(q.lsn) : q \in to_flush \ unwritten}
                                    \ {Segment(r.lsn)})
  /\ UNCHANGED <<up, next_lsn, flushed_lsn, dirty, flushed, flush_in_progress,
                 db_mutex, to_flush, torn, pc, last_lsn, acked, crashes, faults>>

(* FinishFlush that does not advance flushed_lsn_                          *)
FinishFlushStaleLsn(x) ==
  /\ up = "up" /\ pc[x] \in {"flushing", "syncing"}
  /\ unwritten = {}
  /\ synced' = FsyncSegments({Segment(q.lsn) : q \in to_flush})
  /\ flushed' = flushed \union to_flush
  /\ to_flush' = {}
  /\ IF pc[x] = "flushing"
       THEN /\ flush_in_progress' = FALSE
            /\ pc' = [pc EXCEPT ![x] = "waiting"]
            /\ UNCHANGED db_mutex
       ELSE /\ db_mutex' = NoTxn
            /\ pc' = [pc EXCEPT ![x] = "active"]
            /\ UNCHANGED flush_in_progress
  /\ UNCHANGED <<up, next_lsn, flushed_lsn, dirty, unwritten, disk, torn, hidden, last_lsn,
                 acked, crashes, faults>>

(* the end of write_logs (fsync of the open segment) and of flush(); the   *)
(* caller is back in its loop, or is done with its own flush()             *)
FinishFlush(x) ==
  /\ up = "up" /\ pc[x] \in {"flushing", "syncing"}
  /\ unwritten = {}
  /\ synced' = FsyncSegments({Segment(q.lsn) : q \in to_flush})
  /\ flushed' = flushed \union to_flush
  /\ \E m \in 0 .. MaxLsn :
       /\ IsMaxLsn(m, to_flush)
       /\ flushed_lsn' = IF m > flushed_lsn THEN m ELSE flushed_lsn
  /\ to_flush' = {}
  /\ IF pc[x] = "flushing"
       THEN /\ flush_in_progress' = FALSE
            /\ pc' = [pc EXCEPT ![x] = "waiting"]
            /\ UNCHANGED db_mutex
       ELSE /\ db_mutex' = NoTxn
            /\ pc' = [pc EXCEPT ![x] = "active"]
            /\ UNCHANGED flush_in_progress
  /\ UNCHANGED <<up, next_lsn, dirty, unwritten, disk, torn, hidden, last_lsn, acked,
                 crashes, faults>>

(* where a partial record may stay: the segment of the first record of S   *)
TornAt(S) ==
  {Segment(r.lsn) : r \in {s \in S : TornWrites /\ \A q \in S : s.lsn <= q.lsn}}

(* WriteFails without the catch block of wait_for_durable                  *)
WriteFailsUncaught(x) ==
  /\ up = "up" /\ pc[x] \in {"flushing", "syncing"}
  /\ unwritten # {} /\ faults < MaxFaults
  /\ torn' \in {torn, torn \union TornAt(unwritten)}
  /\ to_flush' = {} /\ unwritten' = {}
  /\ UNCHANGED flush_in_progress
  /\ db_mutex' = NoTxn
  /\ pc' = [pc EXCEPT ![x] = "failed"]
  /\ faults' = faults + 1
  /\ UNCHANGED <<up, next_lsn, flushed_lsn, dirty, flushed, disk, synced, hidden,
                 last_lsn, acked, crashes>>

(* open() or write() fails in write_logs: the exception leaves flush() and *)
(* wait_for_durable; the batch is in neither buffer any more               *)
WriteFails(x) ==
  /\ up = "up" /\ pc[x] \in {"flushing", "syncing"}
  /\ unwritten # {} /\ faults < MaxFaults
  /\ torn' \in {torn, torn \union TornAt(unwritten)}
  /\ to_flush' = {} /\ unwritten' = {}
  /\ flush_in_progress' = IF pc[x] = "flushing" THEN FALSE ELSE flush_in_progress
  /\ db_mutex' = NoTxn
  /\ pc' = [pc EXCEPT ![x] = "failed"]
  /\ faults' = faults + 1
  /\ UNCHANGED <<up, next_lsn, flushed_lsn, dirty, flushed, disk, synced, hidden,
                 last_lsn, acked, crashes>>

(* the process dies, possibly with the machine: each segment keeps what    *)
(* was fsync'ed and some initial part of the rest, the last of it possibly *)
(* a partial record                                                        *)
Crash ==
  /\ up = "up" /\ crashes < MaxCrashes
  /\ \E keep \in SUBSET disk :
       LET lost == disk \ keep
           rest == {g \in torn : ~\E q \in lost \ hidden : Segment(q.lsn) = g}
       IN  /\ synced \subseteq keep
           /\ ~PowerLoss => keep = disk
           /\ \A r \in keep, q \in Readable :
                Segment(q.lsn) = Segment(r.lsn) /\ (q.lsn < r.lsn \/ r \in hidden)
                  => q \in keep
           /\ disk' = keep
           /\ hidden' = hidden \intersect keep
           /\ torn' \in {rest, rest \union TornAt(lost \union unwritten)}
  /\ up' = "down"
  /\ next_lsn' = 1 /\ flushed_lsn' = 0
  /\ dirty' = {} /\ flushed' = {}
  /\ flush_in_progress' = FALSE /\ db_mutex' = NoTxn
  /\ to_flush' = {} /\ unwritten' = {}
  /\ pc' = [x \in Txns |-> IF pc[x] \in {"idle", "done", "failed"} THEN pc[x] ELSE "gone"]
  /\ crashes' = crashes + 1
  /\ UNCHANGED <<synced, last_lsn, acked, faults>>

(* HydrateCache that resumes at the last LSN it read                       *)
HydrateCacheReusesLsn ==
  /\ up = "down"
  /\ up' = "up"
  /\ flushed' = Readable
  /\ \E m \in 0 .. MaxLsn :
       /\ IsMaxLsn(m, Readable)
       /\ next_lsn' = IF m = 0 THEN 1 ELSE m
       /\ flushed_lsn' = m
  /\ UNCHANGED <<dirty, flush_in_progress, db_mutex, to_flush, unwritten, files,
                 pc, last_lsn, acked, crashes, faults>>

(* HydrateCache that counts segments rather than records                   *)
HydrateCacheSkipsLsns ==
  /\ up = "down"
  /\ up' = "up"
  /\ flushed' = Readable
  /\ \E m \in 0 .. MaxLsn :
       /\ IsMaxLsn(m, Readable)
       /\ next_lsn' = (Segment(m + SegSize) + 1) * SegSize + 1
       /\ flushed_lsn' = m
  /\ UNCHANGED <<dirty, flush_in_progress, db_mutex, to_flush, unwritten, files,
                 pc, last_lsn, acked, crashes, faults>>

(* the constructor: hydrate_cache reads every segment                      *)
HydrateCache ==
  /\ up = "down"
  /\ up' = "up"
  /\ flushed' = Readable
  /\ \E m \in 0 .. MaxLsn :
       /\ IsMaxLsn(m, Readable)
       /\ next_lsn' = m + 1 /\ flushed_lsn' = m
  /\ UNCHANGED <<dirty, flush_in_progress, db_mutex, to_flush, unwritten, files,
                 pc, last_lsn, acked, crashes, faults>>

(* bytes after a partial record do not parse: read_logs_from_file throws   *)
HydrateThrows ==
  /\ up = "down"
  /\ hidden # {}
  /\ up' = "broken"
  /\ UNCHANGED <<memory, files, pc, last_lsn, acked, crashes, faults>>

Step(x) ==
  \/ Begin(x) \/ AppendOp(x) \/ Commit(x)
  \/ WaitReturns(x) \/ WaitFlushes(x) \/ WaitSpins(x)
  \/ Flush(x) \/ WriteRecord(x) \/ FinishFlush(x) \/ WriteFails(x)

Next == (\E x \in Txns : Step(x)) \/ Crash \/ HydrateCache \/ HydrateThrows

Spec == Init /\ [][Next]_vars

(* A thread inside wait_for_durable or flush keeps running, and a crashed  *)
(* server is started again.  Nothing obliges a client to begin or commit.  *)
Fairness ==
  /\ \A x \in Txns : WF_vars(WaitReturns(x) \/ WaitFlushes(x) \/ WaitSpins(x))
  /\ \A x \in Txns : WF_vars(WriteRecord(x) \/ FinishFlush(x))
  /\ WF_vars(HydrateCache)

FairSpec == Spec /\ Fairness

-----------------------------------------------------------------------------
(* The log of x in D is whole: its commit record is there and every record *)
(* leads back to the begin record through prev_lsn, skipping none of x's.  *)
ChainClosed(x, D) ==
  \A r \in D : r.txn = x =>
    IF r.kind = "begin" THEN r.prev = 0
    ELSE \E q \in D : /\ q.txn = x /\ q.lsn = r.prev /\ q.lsn < r.lsn
                      /\ ~\E s \in D : s.txn = x /\ q.lsn < s.lsn /\ s.lsn < r.lsn

(* LSNs identify records: of everything the manager can read or is about   *)
(* to write, no two records share an LSN, and next_lsn_ is above them all, *)
(* after any crash, failed write and restart (append_log, hydrate_cache).  *)
LsnUnique ==
  up = "up" =>
    \A r \in AllLogs \union to_flush :
      /\ r.lsn < next_lsn
      /\ \A q \in AllLogs \union to_flush : q.lsn = r.lsn => q = r

(* What commit() waited for is durable: as long as no write has failed and *)
(* none was torn, the whole log of an acknowledged transaction, its commit *)
(* record and its unbroken prev_lsn chain, is readable and in fsync'ed     *)
(* parts of segment files, also when it spans segments                     *)
(* (wait_for_durable, write_logs).                                         *)
AckedDurable ==
  faults = 0 /\ torn = {} =>
    \A x \in acked :
      LET kept == synced \ hidden
      IN  /\ \E c \in kept : c.txn = x /\ c.kind = "commit"
          /\ ChainClosed(x, kept)

(* The commit LSN is durable once commit() has returned, whatever happens  *)
(* afterwards: its record can be read back from the segment files          *)
(* (doc/THREAD_SAFETY_CHANGES.md, section 2).  Torn tails break it.        *)
CommitLsnDurable ==
  \A x \in acked : \E c \in Readable : c.txn = x /\ c.kind = "commit"

(* prev_lsn continuity: the records of every transaction form one chain,   *)
(* whatever other transactions append in between, and recovery finds it    *)
(* unbroken after every restart (Transaction::append_log).                 *)
PrevChain ==
  up = "up" /\ faults = 0 /\ torn = {} =>
    \A x \in Txns : ChainClosed(x, AllLogs \union to_flush)

(* A flush in progress owns the db mutex, so wait_for_durable's branch     *)
(* that sleeps on cv_ (with the db mutex locked, which the flusher would   *)
(* need) is never entered (wait_for_durable, the catch block included).    *)
FlushHoldsDbMutex ==
  flush_in_progress => \E x \in Txns : db_mutex = x /\ pc[x] = "flushing"

(* With no failed write the log has no holes: whenever nobody is inside    *)
(* the manager, read_log finds every LSN ever handed out (or kept by the   *)
(* crash), also across restarts and segment boundaries.                    *)
LogDense ==
  up = "up" /\ db_mutex = NoTxn => {r.lsn : r \in AllLogs} = 1 .. next_lsn - 1

(* commit() returns: a transaction in wait_for_durable is acknowledged or  *)
(* dies in a crash; it does not wait for ever (wait_for_durable, flush).   *)
CommitReturns == \A x \in Txns : pc[x] = "waiting" ~> pc[x] \in {"done", "gone"}

(* The file-backed manager implements the abstract log when a crash loses  *)
(* memory only: written records are the stable part.                       *)
A == INSTANCE AbstractLog WITH
       log <- disk \union unwritten \union dirty, stable <- disk

ImplementsAbstractLog == A!Spec
=============================================================================
