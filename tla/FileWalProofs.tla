--------------------------- MODULE FileWalProofs ---------------------------
(* Proofs about FileWal, for any number of transactions, segments, crashes  *)
(* and failed writes.                                                       *)
EXTENDS FileWal, TLAPS

(* An LSN lies in a segment numbered by a natural number.                   *)
LEMMA SegmentType == \A n \in Nat \ {0} : Segment(n) \in Nat
  BY ConstantsAssumption DEF Segment

-----------------------------------------------------------------------------
(* Type correctness: every operation of FileWalManager, every crash and     *)
(* every restart keeps the buffers, the segment files and the transactions' *)
(* fields well formed (file_wal_manager.cpp, transaction.cpp).              *)
THEOREM TypeCorrect == Spec => []TypeOK
<1>1. Init => TypeOK
  <2> SUFFICES ASSUME Init PROVE TypeOK
    OBVIOUS
  <2>1. flush_in_progress \in BOOLEAN
    BY DEF Init
  <2>2. pc \in [Txns -> PcValues]
    BY DEF Init, PcValues
  <2>. QED BY <2>1, <2>2, ConstantsAssumption DEF Init, TypeOK
<1>2. TypeOK /\ [Next]_vars => TypeOK'
  <2> SUFFICES ASSUME TypeOK, [Next]_vars PROVE TypeOK'
    OBVIOUS
  <2> USE DEF TypeOK, files, memory
  <2>1. ASSUME NEW x \in Txns, NEW kind \in Kinds, AppendLog(x, kind),
               pc' \in [Txns -> PcValues]
        PROVE  TypeOK'
    <3>1. flush_in_progress' \in BOOLEAN
      BY <2>1 DEF AppendLog
    <3>. QED BY <2>1, <3>1, ConstantsAssumption DEF AppendLog, Record
  <2>2. ASSUME NEW x \in Txns, Begin(x) \/ AppendOp(x) \/ Commit(x)
        PROVE  TypeOK'
    <3>1. pc' \in [Txns -> PcValues]
      BY <2>2 DEF Begin, AppendOp, Commit, PcValues
    <3>. QED BY <2>1, <2>2, <3>1 DEF Begin, AppendOp, Commit, Kinds
  <2>3. ASSUME NEW x \in Txns, WaitReturns(x) \/ WaitFlushes(x) \/ WaitSpins(x)
        PROVE  TypeOK'
    <3>1. pc' \in [Txns -> PcValues]
      BY <2>3 DEF WaitReturns, WaitFlushes, WaitSpins, PcValues
    <3>2. flush_in_progress' \in BOOLEAN
      BY <2>3 DEF WaitReturns, WaitFlushes, WaitSpins
    <3>. QED BY <2>3, <3>1, <3>2 DEF WaitReturns, WaitFlushes, WaitSpins, SwapDirty
  <2>4. ASSUME NEW x \in Txns, Flush(x)
        PROVE  TypeOK'
    <3>1. pc' \in [Txns -> PcValues]
      BY <2>4 DEF Flush, PcValues
    <3>2. flush_in_progress' \in BOOLEAN
      BY <2>4 DEF Flush
    <3>. QED BY <2>4, <3>1, <3>2 DEF Flush, SwapDirty
  <2>5. ASSUME NEW x \in Txns, WriteRecord(x)
        PROVE  TypeOK'
    <3>1. flush_in_progress' \in BOOLEAN
      BY <2>5 DEF WriteRecord
    <3>. QED BY <2>5, <3>1 DEF WriteRecord, FsyncSegments
  <2>6. ASSUME NEW x \in Txns, FinishFlush(x)
        PROVE  TypeOK'
    <3>1. pc' \in [Txns -> PcValues]
      BY <2>6 DEF FinishFlush, PcValues
    <3>2. flush_in_progress' \in BOOLEAN
      BY <2>6 DEF FinishFlush
    <3>3. flushed_lsn' \in 0 .. MaxLsn
      BY <2>6, ConstantsAssumption DEF FinishFlush
    <3>. QED BY <2>6, <3>1, <3>2, <3>3 DEF FinishFlush, FsyncSegments
  <2>7. \A S : S \subseteq Record => TornAt(S) \subseteq Nat
    BY SegmentType, ConstantsAssumption DEF TornAt, Record
  <2>8. ASSUME NEW x \in Txns, WriteFails(x)
        PROVE  TypeOK'
    <3>1. pc' \in [Txns -> PcValues]
      BY <2>8 DEF WriteFails, PcValues
    <3>2. flush_in_progress' \in BOOLEAN
      BY <2>8, Zenon DEF WriteFails
    <3>3. TornAt(unwritten) \subseteq Nat
      BY <2>7
    <3>4. torn' \subseteq Nat
      BY <2>8, <3>3 DEF WriteFails
    <3>5. faults' \in Nat
      BY <2>8 DEF WriteFails
    <3>6. /\ UNCHANGED <<up, next_lsn, flushed_lsn, dirty, flushed, disk, synced,
                        hidden, last_lsn, acked, crashes>>
          /\ to_flush' = {} /\ unwritten' = {} /\ db_mutex' = NoTxn
      BY <2>8 DEF WriteFails
    <3>. QED BY <3>1, <3>2, <3>4, <3>5, <3>6
  <2>9. CASE Crash
    <3>1. pc' \in [Txns -> PcValues]
      BY <2>9 DEF Crash, PcValues
    <3>2. flush_in_progress' \in BOOLEAN
      BY <2>9 DEF Crash
    <3>3. torn' \subseteq Nat
      <4>1. PICK keep \in SUBSET disk :
              LET lost == disk \ keep
                  rest == {g \in torn : ~\E q \in lost \ hidden : Segment(q.lsn) = g}
              IN  torn' \in {rest, rest \union TornAt(lost \union unwritten)}
        BY <2>9 DEF Crash
      <4>2. TornAt((disk \ keep) \union unwritten) \subseteq Nat
        BY <2>7
      <4>. QED BY <4>1, <4>2
    <3>4. synced' \subseteq disk' /\ disk' \subseteq disk /\ hidden' \subseteq disk'
      BY <2>9 DEF Crash
    <3>. QED BY <2>9, <3>1, <3>2, <3>3, <3>4, ConstantsAssumption DEF Crash
  <2>10. CASE HydrateCache
    <3>1. flush_in_progress' \in BOOLEAN
      BY <2>10 DEF HydrateCache
    <3>2. flushed_lsn' \in 0 .. MaxLsn /\ next_lsn' \in 1 .. MaxLsn + 1
      BY <2>10, ConstantsAssumption DEF HydrateCache
    <3>. QED BY <2>10, <3>1, <3>2 DEF HydrateCache, Readable
  <2>11. CASE HydrateThrows
    <3>1. flush_in_progress' \in BOOLEAN
      BY <2>11 DEF HydrateThrows
    <3>. QED BY <2>11, <3>1 DEF HydrateThrows
  <2>12. CASE UNCHANGED vars
    <3>1. flush_in_progress' \in BOOLEAN
      BY <2>12 DEF vars
    <3>. QED BY <2>12, <3>1 DEF vars
  <2>. QED BY <2>2, <2>3, <2>4, <2>5, <2>6, <2>8, <2>9, <2>10, <2>11, <2>12
           DEF Next, Step
<1>3. QED BY <1>1, <1>2, PTL DEF Spec

-----------------------------------------------------------------------------
(* Whoever flushes owns the db mutex, and a batch belongs to its flusher.   *)
LockInv ==
  /\ \A x \in Txns : pc[x] \in {"flushing", "syncing"} => db_mutex = x /\ up = "up"
  /\ flush_in_progress => \E x \in Txns : pc[x] = "flushing"
  /\ to_flush # {} => \E x \in Txns : pc[x] \in {"flushing", "syncing"}

(* Every operation keeps LockInv: whoever is inside a flush owns the db      *)
(* mutex (wait_for_durable, flush).                                          *)
LEMMA LockCorrect == Spec => []LockInv
<1>1. Init => LockInv
  BY DEF Init, LockInv
<1>2. TypeOK /\ LockInv /\ [Next]_vars => LockInv'
  <2> SUFFICES ASSUME TypeOK, LockInv, [Next]_vars PROVE LockInv'
    OBVIOUS
  <2>0. NoTxn \notin Txns /\ pc \in [Txns -> PcValues]
    BY ConstantsAssumption DEF TypeOK
  <2> USE DEF LockInv, CanLock
  <2>1. ASSUME NEW x \in Txns, Begin(x) \/ AppendOp(x) \/ Commit(x)
        PROVE  LockInv'
    BY <2>0, <2>1 DEF Begin, AppendOp, Commit, AppendLog
  <2>2. ASSUME NEW x \in Txns, WaitReturns(x) \/ WaitFlushes(x) \/ WaitSpins(x)
        PROVE  LockInv'
    BY <2>0, <2>2 DEF WaitReturns, WaitFlushes, WaitSpins, SwapDirty
  <2>3. ASSUME NEW x \in Txns, Flush(x) PROVE LockInv'
    BY <2>0, <2>3 DEF Flush, SwapDirty
  <2>4. ASSUME NEW x \in Txns, WriteRecord(x) PROVE LockInv'
    BY <2>4 DEF WriteRecord
  <2>5. ASSUME NEW x \in Txns, FinishFlush(x) PROVE LockInv'
    BY <2>0, <2>5 DEF FinishFlush
  <2>6. ASSUME NEW x \in Txns, WriteFails(x) PROVE LockInv'
    BY <2>0, <2>6 DEF WriteFails
  <2>7. CASE Crash
    BY <2>7 DEF Crash
  <2>8. CASE HydrateCache \/ HydrateThrows \/ UNCHANGED vars
    BY <2>8 DEF HydrateCache, HydrateThrows, vars, memory, files
  <2>. QED BY <2>1, <2>2, <2>3, <2>4, <2>5, <2>6, <2>7, <2>8 DEF Next, Step
<1>3. QED BY <1>1, <1>2, TypeCorrect, PTL DEF Spec

(* The branch of wait_for_durable that sleeps on cv_ is never taken: while   *)
(* flush_in_progress_ is set its setter owns the db mutex, and the flag is   *)
(* reset on every way out, the exception included.                           *)
THEOREM FlushHoldsMutex == Spec => []FlushHoldsDbMutex
<1>1. LockInv => FlushHoldsDbMutex
  BY DEF LockInv, FlushHoldsDbMutex
<1>2. QED BY <1>1, LockCorrect, PTL

-----------------------------------------------------------------------------
(* Everything with an LSN that is visible now or after the next restart.     *)
Known == Readable \union flushed \union dirty \union to_flush

LsnInv ==
  /\ \A r \in Known : \A q \in Known : r.lsn = q.lsn => r = q
  /\ up = "up" => flushed_lsn < next_lsn /\ \A r \in Known : r.lsn < next_lsn
  /\ up # "up" => dirty = {} /\ flushed = {} /\ to_flush = {}

(* Every operation, crash and restart keeps LsnInv (append_log,              *)
(* write_logs, hydrate_cache).                                               *)
LEMMA LsnCorrect == Spec => []LsnInv
<1>1. Init => LsnInv
  BY DEF Init, LsnInv, Known, Readable
<1>2. TypeOK /\ LsnInv /\ [Next]_vars => LsnInv'
  <2> SUFFICES ASSUME TypeOK, LsnInv, [Next]_vars PROVE LsnInv'
    OBVIOUS
  <2>0. \A r \in Known : r.lsn \in Nat
    BY ConstantsAssumption DEF Known, Readable, TypeOK, Record
  <2>00. next_lsn \in Nat /\ flushed_lsn \in Nat
    BY ConstantsAssumption DEF TypeOK
  <2>K. ASSUME Known' \subseteq Known, up = "up", up' = "up", next_lsn' = next_lsn,
               flushed_lsn' < next_lsn
        PROVE  LsnInv'
    BY <2>K DEF LsnInv
  <2>1. ASSUME NEW x \in Txns, NEW kind \in Kinds, AppendLog(x, kind)
        PROVE  LsnInv'
    <3> DEFINE new == [lsn |-> next_lsn, prev |-> last_lsn[x], txn |-> x, kind |-> kind]
    <3>1. Known' = Known \union {new} /\ new.lsn = next_lsn
      BY <2>1 DEF AppendLog, Known, Readable, files
    <3>2. up = "up" /\ up' = "up" /\ next_lsn' = next_lsn + 1 /\ flushed_lsn' = flushed_lsn
      BY <2>1 DEF AppendLog
    <3> HIDE DEF new
    <3>3. \A r \in Known' : r.lsn < next_lsn'
      BY <2>0, <2>00, <3>1, <3>2 DEF LsnInv
    <3>4. \A r \in Known : r.lsn # next_lsn
      BY <2>0, <2>00, <3>2 DEF LsnInv
    <3>. QED BY <2>00, <3>1, <3>2, <3>3, <3>4 DEF LsnInv
  <2>2. ASSUME NEW x \in Txns, WaitReturns(x) \/ WaitFlushes(x) \/ WaitSpins(x) \/ Flush(x)
        PROVE  LsnInv'
    <3>1. Known' \subseteq Known
      BY <2>2 DEF WaitReturns, WaitFlushes, WaitSpins, Flush, SwapDirty, Known, Readable,
                  files
    <3>. QED BY <2>2, <2>K, <3>1 DEF WaitReturns, WaitFlushes, WaitSpins, Flush, LsnInv
  <2>3. ASSUME NEW x \in Txns, WriteRecord(x) PROVE LsnInv'
    <3>1. Known' \subseteq Known
      BY <2>3 DEF WriteRecord, Known, Readable, TypeOK
    <3>. QED BY <2>3, <2>K, <3>1 DEF WriteRecord, LsnInv
  <2>4. ASSUME NEW x \in Txns, FinishFlush(x) PROVE LsnInv'
    <3>1. Known' \subseteq Known
      BY <2>4 DEF FinishFlush, Known, Readable
    <3>2. flushed_lsn' < next_lsn
      <4>1. PICK m \in 0 .. MaxLsn :
              /\ IsMaxLsn(m, to_flush)
              /\ flushed_lsn' = IF m > flushed_lsn THEN m ELSE flushed_lsn
        BY <2>4 DEF FinishFlush
      <4>2. m < next_lsn
        <5>1. CASE to_flush = {}
          BY <4>1, <5>1 DEF IsMaxLsn, TypeOK
        <5>2. CASE to_flush # {}
          BY <2>4, <4>1, <5>2 DEF IsMaxLsn, LsnInv, Known, FinishFlush
        <5>. QED BY <5>1, <5>2
      <4>. QED BY <2>4, <4>1, <4>2 DEF LsnInv, FinishFlush
    <3>. QED BY <2>4, <2>K, <3>1, <3>2 DEF FinishFlush
  <2>5. ASSUME NEW x \in Txns, WriteFails(x) PROVE LsnInv'
    <3>1. Known' \subseteq Known
      BY <2>5 DEF WriteFails, Known, Readable
    <3>2. up = "up" /\ UNCHANGED <<up, next_lsn, flushed_lsn>>
      BY <2>5 DEF WriteFails
    <3>. QED BY <2>K, <3>1, <3>2 DEF LsnInv
  <2>6. CASE Crash
    <3>1. Known' \subseteq Known /\ up' = "down"
      BY <2>6 DEF Crash, Known, Readable
    <3>2. dirty' = {} /\ flushed' = {} /\ to_flush' = {}
      BY <2>6 DEF Crash
    <3>. QED BY <3>1, <3>2 DEF LsnInv
  <2>7. CASE HydrateCache
    <3>1. Known = Readable /\ Known' = Readable
      BY <2>7 DEF HydrateCache, Known, Readable, LsnInv, files
    <3>2. PICK m \in 0 .. MaxLsn :
            IsMaxLsn(m, Readable) /\ next_lsn' = m + 1 /\ flushed_lsn' = m
      BY <2>7 DEF HydrateCache
    <3>3. \A r \in Readable : r.lsn < m + 1
      BY <2>0, <3>1, <3>2 DEF IsMaxLsn
    <3>. QED BY <2>7, <3>1, <3>2, <3>3 DEF LsnInv, HydrateCache
  <2>8. CASE HydrateThrows \/ UNCHANGED vars
    <3>1. Known' = Known /\ UNCHANGED <<next_lsn, flushed_lsn, dirty, flushed, to_flush>>
      BY <2>8 DEF HydrateThrows, Known, Readable, vars, files, memory
    <3>2. up' = up \/ (up = "down" /\ up' = "broken")
      BY <2>8 DEF HydrateThrows, vars
    <3>. QED BY <3>1, <3>2 DEF LsnInv
  <2>. QED BY <2>1, <2>2, <2>3, <2>4, <2>5, <2>6, <2>7, <2>8
           DEF Next, Step, Begin, AppendOp, Commit, Kinds
<1>3. QED BY <1>1, <1>2, TypeCorrect, PTL DEF Spec

(* An LSN names at most one record among those the manager holds or is      *)
(* writing, and next_lsn_ is beyond them all, over any crashes, failed or   *)
(* torn writes and restarts (append_log, hydrate_cache).                    *)
THEOREM LsnsUnique == Spec => []LsnUnique
<1>1. LsnInv => LsnUnique
  BY DEF LsnInv, LsnUnique, Known, AllLogs
<1>2. QED BY <1>1, LsnCorrect, PTL

-----------------------------------------------------------------------------
All == disk \union unwritten \union dirty

Live(x) == pc[x] \in {"active", "waiting", "flushing", "syncing"}

(* The batch being written and the dirty buffer lie beyond flushed_lsn_.     *)
OrderInv ==
  /\ to_flush \ unwritten \subseteq disk
  /\ \A r \in to_flush : r.lsn > flushed_lsn
  /\ \A r \in dirty : r.lsn > flushed_lsn /\ \A q \in to_flush : q.lsn < r.lsn

(* A running transaction's records are fsync'ed, in the batch or dirty; they *)
(* form a chain that ends at last_lsn_.                                      *)
LiveInv ==
  \A x \in Txns : Live(x) =>
    /\ up = "up" /\ last_lsn[x] < next_lsn
    /\ \A r \in All : r.txn = x =>
         r \in synced \union to_flush \union dirty /\ r.lsn <= last_lsn[x]
    /\ \E r \in All : /\ r.txn = x /\ r.lsn = last_lsn[x]
                      /\ pc[x] \in {"waiting", "flushing"} => r.kind = "commit"
    /\ ChainClosed(x, All)

(* A transaction that has not begun has no records.                          *)
IdleInv ==
  \A x \in Txns : pc[x] = "idle" => last_lsn[x] = 0 /\ \A r \in All : r.txn # x

(* An acknowledged transaction's records are all fsync'ed.                   *)
DoneInv ==
  \A x \in acked :
    /\ pc[x] = "done"
    /\ \A r \in All : r.txn = x => r \in synced
    /\ \E c \in synced : c.txn = x /\ c.kind = "commit"
    /\ ChainClosed(x, synced)

(* Records behind a partial record are in a torn segment.                    *)
HiddenInv == \A r \in hidden : Segment(r.lsn) \in torn

DurInv == HiddenInv /\ (faults = 0 => OrderInv /\ LiveInv /\ IdleInv /\ DoneInv)

(* ChainClosed looks at the records of one transaction only.                 *)
LEMMA ChainLocal ==
  ASSUME NEW x, NEW D, NEW E, ChainClosed(x, D),
         \A r : r.txn = x => (r \in D <=> r \in E)
  PROVE  ChainClosed(x, E)
  BY DEF ChainClosed

(* A step that leaves the set of all records alone and only adds to synced  *)
(* what is on disk keeps acknowledged transactions durable.                 *)
LEMMA DoneKept ==
  ASSUME DoneInv, All' \subseteq All, acked' = acked, synced \subseteq synced',
         synced' \subseteq All',
         \A x \in Txns : pc[x] = "done" => pc'[x] = "done", acked \subseteq Txns
  PROVE  DoneInv'
<1> SUFFICES ASSUME NEW x \in acked
             PROVE  /\ pc'[x] = "done"
                    /\ \A r \in All' : r.txn = x => r \in synced'
                    /\ \E c \in synced' : c.txn = x /\ c.kind = "commit"
                    /\ ChainClosed(x, synced')
  BY DEF DoneInv, ChainClosed
<1>1. \A r : r.txn = x => (r \in synced <=> r \in synced')
  BY DEF DoneInv
<1>2. ChainClosed(x, synced')
  <2>1. ChainClosed(x, synced)
    BY DEF DoneInv
  <2> HIDE DEF All
  <2>. QED BY <1>1, <2>1, ChainLocal
<1>. QED BY <1>1, <1>2 DEF DoneInv

(* Every step keeps DurInv: the heart of the durability argument, one case   *)
(* per operation of FileWalManager and Transaction.                          *)
LEMMA DurStep == TypeOK /\ LockInv /\ LsnInv /\ DurInv /\ [Next]_vars => DurInv'
<1> SUFFICES ASSUME TypeOK, LockInv, LsnInv, DurInv, [Next]_vars PROVE DurInv'
  OBVIOUS
<1>n. /\ next_lsn \in Nat /\ flushed_lsn \in Nat
      /\ \A x \in Txns : last_lsn[x] \in Nat
      /\ \A r \in All \union to_flush : r.lsn \in Nat
  BY ConstantsAssumption DEF TypeOK, All, Record
<1>p. pc \in [Txns -> PcValues] /\ acked \subseteq Txns
  BY DEF TypeOK
<1>1. ASSUME NEW x \in Txns, NEW kind \in Kinds, AppendLog(x, kind),
             \/ pc[x] = "idle" /\ kind = "begin" /\ pc' = [pc EXCEPT ![x] = "active"]
             \/ pc[x] = "active" /\ kind = "op" /\ pc' = pc
             \/ pc[x] = "active" /\ kind = "commit" /\ pc' = [pc EXCEPT ![x] = "waiting"]
      PROVE  DurInv'
  <2> DEFINE new == [lsn |-> next_lsn, prev |-> last_lsn[x], txn |-> x, kind |-> kind]
  <2>1. /\ All' = All \union {new} /\ dirty' = dirty \union {new}
        /\ last_lsn' = [last_lsn EXCEPT ![x] = next_lsn]
        /\ next_lsn' = next_lsn + 1 /\ up = "up"
        /\ UNCHANGED <<up, to_flush, unwritten, disk, synced, hidden, torn, flushed_lsn,
                       acked, faults>>
    BY <1>1 DEF AppendLog, All, files
  <2>2. new.lsn = next_lsn /\ new.prev = last_lsn[x] /\ new.txn = x /\ new.kind = kind
    OBVIOUS
  <2>3. last_lsn'[x] = next_lsn /\ \A y \in Txns : y # x => last_lsn'[y] = last_lsn[y]
    BY <2>1 DEF TypeOK
  <2> HIDE DEF new
  <2>4. HiddenInv'
    BY <2>1 DEF DurInv, HiddenInv
  <2> SUFFICES ASSUME faults = 0 PROVE OrderInv' /\ LiveInv' /\ IdleInv' /\ DoneInv'
    BY <2>1, <2>4 DEF DurInv
  <2>5. OrderInv /\ LiveInv /\ IdleInv /\ DoneInv
    BY DEF DurInv
  <2>6. OrderInv'
    BY <1>n, <2>1, <2>2, <2>5 DEF OrderInv, LsnInv, Known
  <2>7. LiveInv'
    <3> SUFFICES ASSUME NEW y \in Txns, Live(y)'
                 PROVE  /\ up' = "up" /\ last_lsn'[y] < next_lsn'
                        /\ \A r \in All' : r.txn = y =>
                             /\ r \in synced' \union to_flush' \union dirty'
                             /\ r.lsn <= last_lsn'[y]
                        /\ \E r \in All' : /\ r.txn = y /\ r.lsn = last_lsn'[y]
                                           /\ pc'[y] \in {"waiting", "flushing"}
                                                => r.kind = "commit"
                        /\ ChainClosed(y, All')
      BY DEF LiveInv, ChainClosed
    <3>1. CASE y # x
      <4>1. Live(y) /\ pc'[y] = pc[y]
        BY <1>1, <1>p, <3>1 DEF Live
      <4>2. \A r : r.txn = y => (r \in All <=> r \in All')
        BY <2>1, <2>2, <3>1
      <4>3. ChainClosed(y, All')
        <5>1. ChainClosed(y, All)
          BY <2>5, <4>1 DEF LiveInv
        <5> HIDE DEF All
        <5>. QED BY <4>2, <5>1, ChainLocal
      <4>. QED BY <1>n, <2>1, <2>3, <2>5, <3>1, <4>1, <4>2, <4>3 DEF LiveInv
    <3>2. CASE y = x
      <4>1. \A r \in All : r.txn = x => /\ r.lsn <= last_lsn[x] /\ r.lsn < next_lsn
                                        /\ r \in synced \union to_flush \union dirty
        BY <1>1, <1>n, <2>5 DEF LiveInv, IdleInv, Live
      <4>2. ChainClosed(x, All')
        <5> SUFFICES ASSUME NEW r \in All', r.txn = x
                     PROVE  IF r.kind = "begin" THEN r.prev = 0
                            ELSE \E q \in All' :
                                   /\ q.txn = x /\ q.lsn = r.prev /\ q.lsn < r.lsn
                                   /\ ~\E t \in All' : t.txn = x /\ q.lsn < t.lsn
                                                       /\ t.lsn < r.lsn
          BY DEF ChainClosed
        <5>1. CASE r = new /\ kind = "begin"
          BY <1>1, <2>2, <2>5, <5>1 DEF IdleInv
        <5>2. CASE r = new /\ kind # "begin"
          <6>1. PICK q \in All : q.txn = x /\ q.lsn = last_lsn[x]
            BY <1>1, <2>5, <5>2 DEF LiveInv, Live
          <6>2. q.lsn < next_lsn
            BY <4>1, <6>1
          <6>. QED BY <1>n, <2>1, <2>2, <4>1, <5>2, <6>1, <6>2
        <5>3. CASE r \in All
          <6>1. pc[x] = "active"
            BY <1>1, <2>5, <5>3 DEF IdleInv
          <6>2. ChainClosed(x, All)
            BY <2>5, <6>1 DEF LiveInv, Live
          <6>. QED BY <1>n, <2>1, <2>2, <4>1, <5>3, <6>2 DEF ChainClosed
        <5>. QED BY <2>1, <5>1, <5>2, <5>3
      <4>3. pc'[x] \in {"waiting", "flushing"} => new.kind = "commit"
        BY <1>1, <1>p, <2>2
      <4>. QED BY <1>n, <2>1, <2>2, <2>3, <3>2, <4>1, <4>2, <4>3
    <3>. QED BY <3>1, <3>2
  <2>8. IdleInv'
    BY <1>1, <1>p, <2>1, <2>2, <2>3, <2>5 DEF IdleInv
  <2>9. DoneInv'
    <3> SUFFICES ASSUME NEW y \in acked
                 PROVE  /\ pc'[y] = "done"
                        /\ \A r \in All' : r.txn = y => r \in synced'
                        /\ \E c \in synced' : c.txn = y /\ c.kind = "commit"
                        /\ ChainClosed(y, synced')
      BY <2>1 DEF DoneInv, ChainClosed
    <3>1. y # x /\ pc'[y] = "done" /\ y \in Txns
      BY <1>1, <1>p, <2>5 DEF DoneInv
    <3>. QED BY <2>1, <2>2, <2>5, <3>1 DEF DoneInv
  <2>. QED BY <2>6, <2>7, <2>8, <2>9
(* a step that moves records between the buffers only                        *)
<1>2. ASSUME All' = All, synced \subseteq synced', synced' \subseteq All',
             UNCHANGED <<up, acked, last_lsn, next_lsn, torn, faults>>,
             \A r \in hidden' : r \in hidden \/ Segment(r.lsn) \in torn,
             faults = 0 => OrderInv',
             \A y \in Txns : \/ pc'[y] = pc[y]
                             \/ pc[y] = "active" /\ pc'[y] = "syncing"
                             \/ pc[y] = "syncing" /\ pc'[y] = "active"
                             \/ pc[y] = "waiting" /\ pc'[y] = "flushing"
                             \/ pc[y] = "flushing" /\ pc'[y] = "waiting",
             synced \union to_flush \union dirty
               \subseteq synced' \union to_flush' \union dirty'
      PROVE  DurInv'
  <2>1. HiddenInv'
    BY <1>2 DEF DurInv, HiddenInv
  <2> SUFFICES ASSUME faults = 0 PROVE LiveInv' /\ IdleInv' /\ DoneInv'
    BY <1>2, <2>1 DEF DurInv
  <2>2. LiveInv /\ IdleInv /\ DoneInv
    BY DEF DurInv
  <2>3. LiveInv'
    <3> SUFFICES ASSUME NEW y \in Txns, Live(y)'
                 PROVE  /\ up' = "up" /\ last_lsn'[y] < next_lsn'
                        /\ \A r \in All' : r.txn = y =>
                             /\ r \in synced' \union to_flush' \union dirty'
                             /\ r.lsn <= last_lsn'[y]
                        /\ \E r \in All' : /\ r.txn = y /\ r.lsn = last_lsn'[y]
                                           /\ pc'[y] \in {"waiting", "flushing"}
                                                => r.kind = "commit"
                        /\ ChainClosed(y, All')
      BY DEF LiveInv, ChainClosed
    <3>1. /\ Live(y)
          /\ pc'[y] \in {"waiting", "flushing"} => pc[y] \in {"waiting", "flushing"}
      BY <1>2 DEF Live
    <3>. QED BY <1>2, <2>2, <3>1 DEF LiveInv
  <2>4. IdleInv'
    BY <1>2, <2>2 DEF IdleInv
  <2>5. DoneInv'
    <3>1. \A y \in Txns : pc[y] = "done" => pc'[y] = "done"
      BY <1>2
    <3>. QED BY <1>2, <1>p, <2>2, <3>1, DoneKept
  <2>. QED BY <2>3, <2>4, <2>5
<1>3. ASSUME NEW x \in Txns, WaitReturns(x)
      PROVE  DurInv'
  <2>1. /\ All' = All /\ pc' = [pc EXCEPT ![x] = "done"] /\ acked' = acked \union {x}
        /\ UNCHANGED <<up, to_flush, unwritten, dirty, disk, synced, hidden, torn,
                       flushed_lsn, next_lsn, last_lsn, faults>>
        /\ pc[x] = "waiting" /\ flushed_lsn >= last_lsn[x]
    BY <1>3 DEF WaitReturns, All, files
  <2>2. HiddenInv'
    BY <2>1 DEF DurInv, HiddenInv
  <2> SUFFICES ASSUME faults = 0 PROVE OrderInv' /\ LiveInv' /\ IdleInv' /\ DoneInv'
    BY <2>1, <2>2 DEF DurInv
  <2>3. OrderInv /\ LiveInv /\ IdleInv /\ DoneInv
    BY DEF DurInv
  <2>4. OrderInv'
    BY <2>1, <2>3 DEF OrderInv
  <2>5. LiveInv'
    BY <1>p, <2>1, <2>3 DEF LiveInv, Live, ChainClosed
  <2>6. IdleInv'
    BY <1>p, <2>1, <2>3 DEF IdleInv
  <2>7. \A r \in All : r.txn = x => r \in synced
    BY <1>n, <2>1, <2>3 DEF LiveInv, Live, OrderInv
  <2>8. synced \subseteq All
    BY DEF TypeOK, All
  <2>9. ChainClosed(x, synced)
    <3>1. \A r : r.txn = x => (r \in All <=> r \in synced)
      BY <2>7, <2>8
    <3>2. ChainClosed(x, All)
      BY <2>1, <2>3 DEF LiveInv, Live
    <3> HIDE DEF All
    <3>. QED BY <3>1, <3>2, ChainLocal
  <2>10. \E c \in synced : c.txn = x /\ c.kind = "commit"
    BY <2>1, <2>3, <2>7 DEF LiveInv, Live
  <2>11. DoneInv'
    BY <1>p, <2>1, <2>3, <2>7, <2>9, <2>10 DEF DoneInv, ChainClosed
  <2>. QED BY <2>4, <2>5, <2>6, <2>11
<1>4. ASSUME NEW x \in Txns, WaitSpins(x) PROVE DurInv'
  <2>1. All' = All /\ UNCHANGED <<to_flush, unwritten, dirty, disk, flushed_lsn, pc, hidden,
                                  synced, up, acked, last_lsn, next_lsn, torn, faults>>
    BY <1>4 DEF WaitSpins, All, files
  <2>2. faults = 0 => OrderInv'
    BY <2>1 DEF DurInv, OrderInv
  <2>3. synced' \subseteq All'
    BY <2>1 DEF TypeOK, All
  <2>. QED BY <1>2, <2>1, <2>2, <2>3
<1>5. ASSUME NEW x \in Txns, WaitFlushes(x) \/ Flush(x) PROVE DurInv'
  <2>1. to_flush = {}
    BY <1>5, <1>p, ConstantsAssumption DEF WaitFlushes, Flush, LockInv, CanLock
  <2>2. /\ to_flush' = dirty /\ unwritten' = dirty /\ dirty' = {}
        /\ UNCHANGED <<disk, flushed_lsn, hidden, synced, up, acked, last_lsn, next_lsn,
                       torn, faults>>
    BY <1>5 DEF WaitFlushes, Flush, SwapDirty, files
  <2>3. All' = All
    BY <2>1, <2>2 DEF All, TypeOK
  <2>4. faults = 0 => OrderInv'
    BY <2>2 DEF DurInv, OrderInv
  <2>5. synced' \subseteq All'
    BY <2>2 DEF TypeOK, All
  <2>6. \A y \in Txns : \/ pc'[y] = pc[y]
                        \/ pc[y] = "active" /\ pc'[y] = "syncing"
                        \/ pc[y] = "waiting" /\ pc'[y] = "flushing"
    BY <1>5, <1>p DEF WaitFlushes, Flush
  <2>. QED BY <1>2, <2>1, <2>2, <2>3, <2>4, <2>5, <2>6
<1>6. ASSUME NEW x \in Txns, WriteRecord(x) PROVE DurInv'
  <2>1. PICK r \in unwritten :
          /\ disk' = disk \union {r} /\ unwritten' = unwritten \ {r}
          /\ hidden' = IF Segment(r.lsn) \in torn THEN hidden \union {r} ELSE hidden
          /\ synced \subseteq synced' /\ synced' \subseteq synced \union disk
    BY <1>6 DEF WriteRecord, FsyncSegments
  <2>2. UNCHANGED <<to_flush, dirty, flushed_lsn, pc, up, acked, last_lsn, next_lsn, torn,
                    faults>>
    BY <1>6 DEF WriteRecord
  <2>3. All' = All /\ synced' \subseteq All'
    BY <2>1, <2>2 DEF All, TypeOK
  <2>4. faults = 0 => OrderInv'
    BY <2>1, <2>2 DEF DurInv, OrderInv
  <2>5. \A q \in hidden' : q \in hidden \/ Segment(q.lsn) \in torn
    BY <2>1
  <2>. QED BY <1>2, <2>1, <2>2, <2>3, <2>4, <2>5
<1>7. ASSUME NEW x \in Txns, FinishFlush(x) PROVE DurInv'
  <2>1. /\ unwritten = {} /\ to_flush' = {}
        /\ synced' = FsyncSegments({Segment(q.lsn) : q \in to_flush})
        /\ UNCHANGED <<unwritten, dirty, disk, hidden, up, acked, last_lsn, next_lsn, torn,
                       faults>>
    BY <1>7 DEF FinishFlush
  <2>2. PICK m \in 0 .. MaxLsn :
          /\ IsMaxLsn(m, to_flush)
          /\ flushed_lsn' = IF m > flushed_lsn THEN m ELSE flushed_lsn
    BY <1>7 DEF FinishFlush
  <2>3. All' = All /\ synced \subseteq synced' /\ synced' \subseteq All'
    BY <2>1 DEF All, TypeOK, FsyncSegments
  <2>4. ASSUME faults = 0
        PROVE  OrderInv' /\ \A r \in to_flush : r \in synced'
    <3>1. OrderInv
      BY <2>4 DEF DurInv
    <3>2. \A r \in dirty : m < r.lsn
      BY <1>n, <2>2, <3>1 DEF OrderInv, IsMaxLsn, All
    <3>. QED BY <2>1, <2>2, <3>1, <3>2 DEF OrderInv, FsyncSegments
  <2>5. \A y \in Txns : \/ pc'[y] = pc[y]
                        \/ pc[y] = "syncing" /\ pc'[y] = "active"
                        \/ pc[y] = "flushing" /\ pc'[y] = "waiting"
    BY <1>7, <1>p DEF FinishFlush
  <2>6. CASE faults = 0
    BY <1>2, <2>1, <2>3, <2>4, <2>5, <2>6
  <2>7. CASE faults # 0
    BY <2>1, <2>7 DEF DurInv, HiddenInv
  <2>. QED BY <2>6, <2>7
<1>8. ASSUME NEW x \in Txns, WriteFails(x) PROVE DurInv'
  <2>1. hidden' = hidden /\ torn \subseteq torn' /\ faults' = faults + 1
    BY <1>8 DEF WriteFails
  <2>2. faults' # 0
    BY <2>1 DEF TypeOK
  <2>. QED BY <2>1, <2>2 DEF DurInv, HiddenInv
<1>9. CASE Crash
  <2>1. PICK keep \in SUBSET disk :
          LET rest == {g \in torn : ~\E q \in (disk \ keep) \ hidden : Segment(q.lsn) = g}
          IN  /\ synced \subseteq keep
              /\ \A r \in keep, q \in Readable :
                   Segment(q.lsn) = Segment(r.lsn) /\ (q.lsn < r.lsn \/ r \in hidden)
                     => q \in keep
              /\ disk' = keep /\ hidden' = hidden \intersect keep
              /\ rest \subseteq torn'
    BY <1>9 DEF Crash
  <2>2. HiddenInv'
    BY <2>1 DEF DurInv, HiddenInv, Readable
  <2>3. /\ dirty' = {} /\ to_flush' = {} /\ unwritten' = {}
        /\ UNCHANGED <<synced, last_lsn, acked, faults>>
        /\ pc' = [x \in Txns |-> IF pc[x] \in {"idle", "done", "failed"} THEN pc[x]
                                 ELSE "gone"]
    BY <1>9 DEF Crash
  <2> SUFFICES ASSUME faults = 0 PROVE OrderInv' /\ LiveInv' /\ IdleInv' /\ DoneInv'
    BY <2>2, <2>3 DEF DurInv
  <2>4. All' \subseteq All /\ synced' \subseteq All'
    BY <2>1, <2>3 DEF All
  <2>5. OrderInv'
    BY <2>3 DEF OrderInv
  <2>6. LiveInv'
    <3>1. \A y \in Txns : ~(Live(y)')
      BY <2>3 DEF Live
    <3>. QED BY <3>1 DEF LiveInv
  <2>7. IdleInv'
    BY <2>3, <2>4 DEF DurInv, IdleInv
  <2>8. DoneInv'
    BY <1>p, <2>3, <2>4, DoneKept DEF DurInv
  <2>. QED BY <2>5, <2>6, <2>7, <2>8
<1>10. CASE HydrateCache \/ HydrateThrows
  <2>1. /\ dirty = {} /\ to_flush = {} /\ up # "up"
        /\ UNCHANGED <<dirty, to_flush, unwritten, disk, synced, torn, hidden, pc, last_lsn,
                       acked, faults>>
    BY <1>10 DEF HydrateCache, HydrateThrows, LsnInv, memory, files
  <2>2. All' = All
    BY <2>1 DEF All
  <2>3. faults = 0 => \A y \in Txns : ~Live(y)
    BY <2>1 DEF DurInv, LiveInv
  <2>4. \A y : Live(y)' <=> Live(y)
    BY <2>1 DEF Live
  <2>5. HiddenInv' /\ (faults = 0 => OrderInv' /\ IdleInv')
    BY <2>1, <2>2 DEF DurInv, HiddenInv, OrderInv, IdleInv
  <2>6. faults = 0 => LiveInv'
    BY <2>3, <2>4 DEF LiveInv
  <2>7. faults = 0 => DoneInv'
    BY <2>1, <2>2 DEF DurInv, DoneInv, ChainClosed
  <2>. QED BY <2>1, <2>5, <2>6, <2>7 DEF DurInv
<1>11. CASE UNCHANGED vars
  <2>1. All' = All /\ UNCHANGED <<to_flush, unwritten, dirty, disk, flushed_lsn, pc, hidden,
                                  synced, up, acked, last_lsn, next_lsn, torn, faults>>
    BY <1>11 DEF vars, memory, files, All
  <2>2. faults = 0 => OrderInv'
    BY <2>1 DEF DurInv, OrderInv
  <2>3. synced' \subseteq All'
    BY <2>1 DEF TypeOK, All
  <2>. QED BY <1>2, <2>1, <2>2, <2>3
<1>12. QED
  BY <1>1, <1>3, <1>4, <1>5, <1>6, <1>7, <1>8, <1>9, <1>10, <1>11
     DEF Next, Step, Begin, AppendOp, Commit, Kinds

(* DurInv holds throughout, from TypeCorrect, LockCorrect and LsnCorrect.    *)
LEMMA DurCorrect == Spec => []DurInv
<1>1. Init => DurInv
  BY DEF Init, DurInv, HiddenInv, OrderInv, LiveInv, IdleInv, DoneInv, Live, All
<1>2. QED BY <1>1, TypeCorrect, LockCorrect, LsnCorrect, DurStep, PTL DEF Spec

(* An acknowledged commit is durable: while no write has failed or been     *)
(* torn, its commit record and its whole prev_lsn chain are fsync'ed and    *)
(* readable, for any number of transactions sharing a flush, any segment    *)
(* size and any crashes that lose unsynced data (wait_for_durable, flush,   *)
(* write_logs, hydrate_cache).                                              *)
THEOREM AckedAreDurable == Spec => []AckedDurable
<1>1. DurInv => AckedDurable
  <2> SUFFICES ASSUME DurInv, faults = 0, torn = {}, NEW x \in acked
               PROVE  /\ \E c \in synced \ hidden : c.txn = x /\ c.kind = "commit"
                      /\ ChainClosed(x, synced \ hidden)
    BY DEF AckedDurable
  <2>1. synced \ hidden = synced
    BY DEF DurInv, HiddenInv
  <2>. QED BY <2>1 DEF DurInv, DoneInv
<1>2. QED BY <1>1, DurCorrect, PTL

-----------------------------------------------------------------------------
(* Records that are not on disk belong to running transactions.              *)
OwnerInv == \A r \in to_flush \union dirty : Live(r.txn)

(* A transaction's records reach the files in LSN order ...                  *)
WrittenInOrder ==
  \A r \in disk, q \in unwritten \union dirty : r.txn = q.txn => r.lsn < q.lsn

(* ... and fsync covers them in LSN order, except within a segment ...       *)
SyncedInOrder ==
  \A r, q \in disk : r.txn = q.txn /\ q.lsn < r.lsn =>
    q \in synced \/ (r \notin synced /\ Segment(q.lsn) = Segment(r.lsn))

(* ... in which nothing is readable behind a partial record.                 *)
HiddenInOrder ==
  \A r \in disk, q \in hidden :
    r.txn = q.txn /\ q.lsn < r.lsn /\ Segment(q.lsn) = Segment(r.lsn) => r \in hidden

(* q is the record of D before r in the chain of r's transaction             *)
Precedes(q, r, D) ==
  /\ q.txn = r.txn /\ q.lsn = r.prev /\ q.lsn < r.lsn
  /\ ~\E s \in D : s.txn = r.txn /\ q.lsn < s.lsn /\ s.lsn < r.lsn

(* What can be read leads to the begin record of its transaction.            *)
ReadableLeads ==
  \A r \in Readable : IF r.kind = "begin" THEN r.prev = 0
                      ELSE \E q \in disk : Precedes(q, r, disk)

(* The buffers hold what is in the files and what is on its way there.       *)
MemoryInv == up = "up" /\ torn = {} => disk \union unwritten = flushed \union to_flush

PrevInv ==
  faults = 0 => /\ OwnerInv /\ WrittenInOrder /\ SyncedInOrder /\ HiddenInOrder
                /\ ReadableLeads /\ MemoryInv

(* Every step keeps PrevInv.  A crash that loses what was not fsync'ed       *)
(* keeps, of each transaction, an initial part of its chain, because         *)
(* write_logs fsyncs a segment before it opens the next one.                 *)
LEMMA PrevStep ==
  TypeOK /\ LockInv /\ LsnInv /\ DurInv /\ PrevInv /\ [Next]_vars => PrevInv'
<1> SUFFICES ASSUME TypeOK, LockInv, LsnInv, DurInv, PrevInv, [Next]_vars, faults' = 0
             PROVE  /\ OwnerInv' /\ WrittenInOrder' /\ SyncedInOrder' /\ HiddenInOrder'
                    /\ ReadableLeads' /\ MemoryInv'
  BY DEF PrevInv
<1>n. /\ next_lsn \in Nat /\ flushed_lsn \in Nat
      /\ \A x \in Txns : last_lsn[x] \in Nat
      /\ \A r \in All \union to_flush : r.lsn \in Nat /\ r.txn \in Txns
  BY ConstantsAssumption DEF TypeOK, All, Record
<1>p. pc \in [Txns -> PcValues] /\ disk \subseteq All /\ unwritten \subseteq All
      /\ unwritten \subseteq to_flush /\ dirty \subseteq All /\ hidden \subseteq disk
  BY DEF TypeOK, All
<1>f. faults = 0
  <2>1. faults' = faults \/ faults' = faults + 1
    BY DEF Next, Step, Begin, AppendOp, Commit, AppendLog, WaitReturns, WaitFlushes, WaitSpins,
           Flush, WriteRecord, FinishFlush, WriteFails, Crash, HydrateCache, HydrateThrows, vars
  <2>. QED BY <2>1 DEF TypeOK
<1>i. /\ OwnerInv /\ WrittenInOrder /\ SyncedInOrder /\ HiddenInOrder
      /\ ReadableLeads /\ MemoryInv /\ OrderInv /\ LiveInv /\ IdleInv /\ DoneInv /\ HiddenInv
  BY <1>f DEF PrevInv, DurInv
<1>1. ASSUME NEW x \in Txns, NEW kind \in Kinds, AppendLog(x, kind),
             \/ pc[x] = "idle" /\ pc' = [pc EXCEPT ![x] = "active"]
             \/ pc[x] = "active" /\ pc' = pc
             \/ pc[x] = "active" /\ pc' = [pc EXCEPT ![x] = "waiting"]
      PROVE  /\ OwnerInv' /\ WrittenInOrder' /\ SyncedInOrder' /\ HiddenInOrder'
             /\ ReadableLeads' /\ MemoryInv'
  <2> DEFINE new == [lsn |-> next_lsn, prev |-> last_lsn[x], txn |-> x, kind |-> kind]
  <2>1. /\ dirty' = dirty \union {new} /\ new.lsn = next_lsn /\ new.txn = x
        /\ UNCHANGED <<up, to_flush, unwritten, disk, flushed, synced, hidden, torn>>
    BY <1>1 DEF AppendLog, files
  <2> HIDE DEF new
  <2>2. Live(x)' /\ \A y \in Txns : Live(y) => Live(y)'
    BY <1>1, <1>p DEF Live
  <2>3. OwnerInv'
    BY <1>n, <1>i, <2>1, <2>2 DEF OwnerInv, All
  <2>4. \A r \in disk : r.txn = x => r.lsn < next_lsn
    BY <1>1, <1>n, <1>p, <1>i DEF LiveInv, IdleInv, Live
  <2>5. WrittenInOrder'
    BY <1>i, <2>1, <2>4 DEF WrittenInOrder
  <2>. QED BY <1>i, <2>1, <2>3, <2>5
           DEF SyncedInOrder, HiddenInOrder, ReadableLeads, Readable, Precedes, MemoryInv
<1>2. ASSUME NEW x \in Txns, WaitReturns(x) \/ WaitSpins(x)
      PROVE  /\ OwnerInv' /\ WrittenInOrder' /\ SyncedInOrder' /\ HiddenInOrder'
             /\ ReadableLeads' /\ MemoryInv'
  <2>1. UNCHANGED <<up, to_flush, unwritten, dirty, disk, flushed, synced, hidden, torn>>
    BY <1>2 DEF WaitReturns, WaitSpins, files
  <2>2. OwnerInv'
    <3>1. CASE WaitSpins(x)
      BY <1>i, <2>1, <3>1 DEF OwnerInv, Live, WaitSpins
    <3>2. CASE WaitReturns(x)
      <4>1. \A r \in to_flush \union dirty : r.txn # x
        <5>1. Live(x) /\ flushed_lsn >= last_lsn[x]
          BY <3>2 DEF WaitReturns, Live
        <5>2. \A r \in to_flush \union dirty : r.lsn > flushed_lsn /\ r \in All
          BY <1>i, <1>p DEF OrderInv, All
        <5>. QED BY <1>n, <1>i, <5>1, <5>2 DEF LiveInv
      <4>2. \A y \in Txns : y # x /\ Live(y) => Live(y)'
        BY <1>p, <3>2 DEF WaitReturns, Live
      <4>. QED BY <1>n, <1>i, <2>1, <4>1, <4>2 DEF OwnerInv, All
    <3>. QED BY <1>2, <3>1, <3>2
  <2>. QED BY <1>i, <2>1, <2>2
           DEF WrittenInOrder, SyncedInOrder, HiddenInOrder, ReadableLeads, Readable, Precedes,
               MemoryInv
<1>3. ASSUME NEW x \in Txns, WaitFlushes(x) \/ Flush(x)
      PROVE  /\ OwnerInv' /\ WrittenInOrder' /\ SyncedInOrder' /\ HiddenInOrder'
             /\ ReadableLeads' /\ MemoryInv'
  <2>1. to_flush = {} /\ unwritten = {}
    BY <1>3, <1>p, ConstantsAssumption DEF WaitFlushes, Flush, LockInv, CanLock
  <2>2. /\ to_flush' = dirty /\ unwritten' = dirty /\ dirty' = {}
        /\ UNCHANGED <<up, disk, flushed, synced, hidden, torn>>
    BY <1>3 DEF WaitFlushes, Flush, SwapDirty, files
  <2>3. \A y \in Txns : Live(y) => Live(y)'
    BY <1>3, <1>p DEF WaitFlushes, Flush, Live
  <2>4. OwnerInv'
    BY <1>n, <1>i, <2>2, <2>3 DEF OwnerInv, All
  <2>5. MemoryInv'
    BY <1>i, <2>1, <2>2 DEF MemoryInv
  <2>. QED BY <1>i, <2>1, <2>2, <2>4, <2>5
           DEF WrittenInOrder, SyncedInOrder, HiddenInOrder, ReadableLeads, Readable, Precedes
<1>4. ASSUME NEW S, synced' = FsyncSegments(S)
      PROVE  \A r, q \in disk : r.txn = q.txn /\ q.lsn < r.lsn =>
               q \in synced' \/ (r \notin synced' /\ Segment(q.lsn) = Segment(r.lsn))
  BY <1>4, <1>i DEF FsyncSegments, SyncedInOrder
<1>5. ASSUME NEW x \in Txns, WriteRecord(x)
      PROVE  /\ OwnerInv' /\ WrittenInOrder' /\ SyncedInOrder' /\ HiddenInOrder'
             /\ ReadableLeads' /\ MemoryInv'
  <2> DEFINE S(r) == {Segment(q.lsn) : q \in to_flush \ unwritten} \ {Segment(r.lsn)}
  <2>1. PICK w \in unwritten :
          /\ \A q \in unwritten : w.lsn <= q.lsn
          /\ disk' = disk \union {w} /\ unwritten' = unwritten \ {w}
          /\ hidden' = IF Segment(w.lsn) \in torn THEN hidden \union {w} ELSE hidden
          /\ synced' = FsyncSegments(S(w))
    BY <1>5 DEF WriteRecord
  <2>2. UNCHANGED <<up, to_flush, dirty, flushed, torn, pc>>
    BY <1>5 DEF WriteRecord
  <2>3. Live(w.txn) /\ w \in to_flush /\ w \in All /\ w.txn \in Txns /\ w.lsn \in Nat
    BY <1>n, <1>p, <1>i DEF OwnerInv
  <2>4. w \notin disk
    BY <1>n, <1>i DEF WrittenInOrder, All
  <2>5. \A q \in disk : q.txn = w.txn => q.lsn < w.lsn
    BY <1>i DEF WrittenInOrder
  <2>6. \A q \in dirty : w.lsn < q.lsn
    BY <1>i, <2>3 DEF OrderInv
  <2>7. \A q \in unwritten' : q.txn = w.txn => w.lsn < q.lsn
    <3> SUFFICES ASSUME NEW q \in unwritten, q # w PROVE w.lsn < q.lsn
      BY <2>1
    <3>1. w.lsn # q.lsn
      BY <1>p, <2>3 DEF LsnInv, Known
    <3>. QED BY <1>n, <1>p, <2>1, <2>3, <3>1
  <2>8. OwnerInv'
    BY <1>i, <2>2 DEF OwnerInv, Live
  <2>9. WrittenInOrder'
    BY <1>i, <2>1, <2>2, <2>6, <2>7 DEF WrittenInOrder
  <2>10. w \notin synced'
    BY <2>1, <2>4 DEF FsyncSegments, TypeOK
  <2>11. \A q \in disk : q.txn = w.txn => q \in synced' \/ Segment(q.lsn) = Segment(w.lsn)
    <3> SUFFICES ASSUME NEW q \in disk, q.txn = w.txn, Segment(q.lsn) # Segment(w.lsn)
                 PROVE  q \in synced'
      OBVIOUS
    <3>1. q.lsn < w.lsn
      BY <2>5
    <3>2. q \notin unwritten /\ q \notin dirty
      BY <1>n, <1>p, <2>1, <2>3, <2>6, <3>1
    <3>3. q \in synced \/ q \in to_flush
      BY <1>i, <1>p, <2>3, <3>2 DEF LiveInv
    <3>. QED BY <2>1, <3>2, <3>3 DEF FsyncSegments
  <2>12. SyncedInOrder'
    <3> SUFFICES ASSUME NEW r \in disk', NEW q \in disk', r.txn = q.txn, q.lsn < r.lsn
                 PROVE  q \in synced' \/ (r \notin synced' /\ Segment(q.lsn) = Segment(r.lsn))
      BY DEF SyncedInOrder
    <3>1. CASE r = w /\ q = w
      BY <2>3, <3>1
    <3>2. CASE r = w /\ q \in disk
      BY <2>10, <2>11, <3>2
    <3>3. CASE r \in disk /\ q = w
      BY <1>n, <1>p, <2>3, <2>5, <3>3
    <3>4. CASE r \in disk /\ q \in disk
      BY <1>4, <2>1, <3>4
    <3>. QED BY <2>1, <3>1, <3>2, <3>3, <3>4
  <2>13. HiddenInOrder'
    <3> SUFFICES ASSUME NEW r \in disk', NEW q \in hidden', r.txn = q.txn, q.lsn < r.lsn,
                        Segment(q.lsn) = Segment(r.lsn)
                 PROVE  r \in hidden'
      BY DEF HiddenInOrder
    <3>1. CASE r = w
      <4>1. Segment(w.lsn) \in torn
        BY <1>i, <2>1, <2>3, <3>1 DEF HiddenInv
      <4>. QED BY <2>1, <3>1, <4>1
    <3>2. CASE r \in disk /\ q = w
      BY <1>n, <1>p, <2>3, <2>5, <3>2
    <3>3. CASE r \in disk /\ q \in hidden
      BY <1>i, <2>1, <3>3 DEF HiddenInOrder
    <3>. QED BY <2>1, <3>1, <3>2, <3>3
  <2>14. ReadableLeads'
    <3> SUFFICES ASSUME NEW r \in Readable'
                 PROVE  IF r.kind = "begin" THEN r.prev = 0
                        ELSE \E q \in disk' : Precedes(q, r, disk')
      BY DEF ReadableLeads, Precedes
    <3>1. CASE r = w
      <4>1. ChainClosed(w.txn, All)
        BY <1>i, <2>3 DEF LiveInv
      <4>2. CASE w.kind = "begin"
        BY <2>3, <3>1, <4>1, <4>2 DEF ChainClosed
      <4>3. CASE w.kind # "begin"
        <5>1. PICK q \in All : Precedes(q, w, All)
          BY <2>3, <4>1, <4>3 DEF ChainClosed, Precedes
        <5>2. q \notin unwritten /\ q \notin dirty
          BY <1>n, <2>1, <2>3, <2>6, <5>1 DEF Precedes
        <5>3. q \in disk /\ disk' \subseteq All
          BY <2>1, <2>3, <5>2 DEF All
        <5>. QED BY <2>1, <3>1, <4>3, <5>1, <5>3 DEF Precedes
      <4>. QED BY <4>2, <4>3
    <3>2. CASE r \in Readable
      <4>1. r \in disk
        BY <3>2 DEF Readable
      <4>2. r.txn = w.txn => ~(w.lsn < r.lsn)
        BY <1>n, <1>p, <2>3, <2>5, <4>1
      <4>. QED BY <1>i, <2>1, <3>2, <4>2 DEF ReadableLeads, Precedes
    <3>. QED BY <2>1, <3>1, <3>2 DEF Readable
  <2>15. MemoryInv'
    BY <1>i, <2>1, <2>2 DEF MemoryInv
  <2>. QED BY <2>8, <2>9, <2>12, <2>13, <2>14, <2>15
<1>6. ASSUME NEW x \in Txns, FinishFlush(x)
      PROVE  /\ OwnerInv' /\ WrittenInOrder' /\ SyncedInOrder' /\ HiddenInOrder'
             /\ ReadableLeads' /\ MemoryInv'
  <2>1. /\ unwritten = {} /\ to_flush' = {} /\ flushed' = flushed \union to_flush
        /\ synced' = FsyncSegments({Segment(q.lsn) : q \in to_flush})
        /\ UNCHANGED <<unwritten, dirty, disk, hidden, up, torn>>
    BY <1>6 DEF FinishFlush
  <2>2. \A y \in Txns : Live(y) => Live(y)'
    BY <1>6, <1>p DEF FinishFlush, Live
  <2>3. OwnerInv'
    BY <1>n, <1>i, <2>1, <2>2 DEF OwnerInv, All
  <2>4. SyncedInOrder'
    BY <1>4, <2>1 DEF SyncedInOrder
  <2>5. MemoryInv'
    BY <1>i, <2>1 DEF MemoryInv
  <2>. QED BY <1>i, <2>1, <2>3, <2>4, <2>5
           DEF WrittenInOrder, HiddenInOrder, ReadableLeads, Readable, Precedes
<1>7. ASSUME NEW x \in Txns, WriteFails(x)
      PROVE  FALSE
  BY <1>7, <1>f DEF WriteFails
<1>8. CASE Crash
  <2>1. PICK keep \in SUBSET disk :
          /\ synced \subseteq keep
          /\ \A r \in keep, q \in Readable :
               Segment(q.lsn) = Segment(r.lsn) /\ (q.lsn < r.lsn \/ r \in hidden) => q \in keep
          /\ disk' = keep /\ hidden' = hidden \intersect keep
    BY <1>8 DEF Crash
  <2>2. dirty' = {} /\ to_flush' = {} /\ unwritten' = {} /\ synced' = synced /\ up' = "down"
    BY <1>8 DEF Crash
  <2>3. ReadableLeads'
    <3> SUFFICES ASSUME NEW r \in Readable', r.kind # "begin"
                 PROVE  \E q \in disk' : Precedes(q, r, disk')
      BY <1>i, <2>1 DEF ReadableLeads, Precedes, Readable
    <3>1. r \in keep /\ r \in Readable /\ r \in disk /\ r \notin hidden
      BY <2>1 DEF Readable
    <3>2. PICK q \in disk : Precedes(q, r, disk)
      BY <1>i, <3>1 DEF ReadableLeads
    <3>3. q \in keep
      <4>1. CASE q \in synced
        BY <2>1, <4>1
      <4>2. CASE q \notin synced
        <5>1. Segment(q.lsn) = Segment(r.lsn) /\ q.lsn < r.lsn /\ r.txn = q.txn
          BY <1>i, <3>1, <3>2, <4>2 DEF SyncedInOrder, Precedes
        <5>2. q \notin hidden
          BY <1>i, <3>1, <5>1 DEF HiddenInOrder
        <5>. QED BY <2>1, <3>1, <5>1, <5>2 DEF Readable
      <4>. QED BY <4>1, <4>2
    <3>. QED BY <2>1, <3>2, <3>3 DEF Precedes
  <2>. QED BY <1>i, <2>1, <2>2, <2>3
           DEF OwnerInv, WrittenInOrder, SyncedInOrder, HiddenInOrder, MemoryInv
<1>9. CASE HydrateCache
  <2>1. /\ dirty = {} /\ to_flush = {} /\ unwritten = {} /\ flushed' = disk \ hidden
        /\ UNCHANGED <<dirty, to_flush, unwritten, disk, synced, torn, hidden>>
    BY <1>9, <1>p DEF HydrateCache, LsnInv, files, Readable
  <2>2. MemoryInv'
    BY <1>i, <2>1 DEF MemoryInv, HiddenInv
  <2>. QED BY <1>i, <2>1, <2>2
           DEF OwnerInv, WrittenInOrder, SyncedInOrder, HiddenInOrder, ReadableLeads, Readable,
               Precedes
<1>10. CASE HydrateThrows \/ UNCHANGED vars
  <2>1. /\ UNCHANGED <<dirty, to_flush, unwritten, flushed, disk, synced, torn, hidden, pc>>
        /\ up' = "up" => up = "up"
    BY <1>10 DEF HydrateThrows, vars, memory, files
  <2>. QED BY <1>i, <2>1
           DEF OwnerInv, Live, WrittenInOrder, SyncedInOrder, HiddenInOrder, ReadableLeads,
               Readable, Precedes, MemoryInv
<1>11. QED
  BY <1>1, <1>2, <1>3, <1>5, <1>6, <1>7, <1>8, <1>9, <1>10
     DEF Next, Step, Begin, AppendOp, Commit, Kinds

(* prev_lsn continuity: whatever the transactions append in between, and     *)
(* after any crashes, the records that the manager holds lead back from each *)
(* record of a transaction to its begin record and skip none, as long as no  *)
(* write failed and no segment ends in a partial record                      *)
(* (Transaction::append_log, write_logs, hydrate_cache).                     *)
THEOREM ChainsUnbroken == Spec => []PrevChain
<1>1. Init => PrevInv
  BY DEF Init, PrevInv, OwnerInv, WrittenInOrder, SyncedInOrder, HiddenInOrder, ReadableLeads,
         Readable, MemoryInv
<1>2. Spec => []PrevInv
  BY <1>1, TypeCorrect, LockCorrect, LsnCorrect, DurCorrect, PrevStep, PTL DEF Spec
<1>3. TypeOK /\ DurInv /\ PrevInv => PrevChain
  <2> SUFFICES ASSUME TypeOK, DurInv, PrevInv, up = "up", faults = 0, torn = {}, NEW x \in Txns
               PROVE  ChainClosed(x, AllLogs \union to_flush)
    BY DEF PrevChain
  <2>1. /\ OwnerInv /\ ReadableLeads /\ LiveInv /\ hidden = {}
        /\ AllLogs \union to_flush = All
    BY DEF PrevInv, DurInv, HiddenInv, MemoryInv, AllLogs, All
  <2>2. CASE Live(x)
    BY <2>1, <2>2 DEF LiveInv
  <2>3. CASE ~Live(x)
    <3>1. \A r : r.txn = x => (r \in disk <=> r \in All)
      BY <2>1, <2>3 DEF OwnerInv, All, TypeOK
    <3>2. ChainClosed(x, disk)
      BY <2>1 DEF ReadableLeads, Readable, Precedes, ChainClosed
    <3>. QED BY <2>1, <3>1, <3>2, ChainLocal
  <2>. QED BY <2>2, <2>3
<1>4. QED BY <1>2, <1>3, TypeCorrect, DurCorrect, PTL

-----------------------------------------------------------------------------
(* When a crash loses memory only and writes neither fail nor tear, the log *)
(* on disk is an initial part of the whole log, which has no holes.         *)
KillInv ==
  /\ torn = {} /\ hidden = {}
  /\ up = "up" => disk \union unwritten = flushed \union to_flush
  /\ \A r \in disk : \A q \in unwritten \union dirty : r.lsn < q.lsn
  /\ \A r \in unwritten : \A q \in dirty : r.lsn < q.lsn
  /\ \A r \in disk : \A n \in 1 .. r.lsn : \E q \in disk : q.lsn = n
  /\ up = "up" => \A n \in 1 .. next_lsn - 1 : \E q \in All : q.lsn = n

(* Every step keeps KillInv when a crash only kills the process: the log     *)
(* has no hole (append_log, write_logs, hydrate_cache).                      *)
LEMMA KillStep ==
  ASSUME ~PowerLoss, MaxFaults = 0, ~TornWrites,
         TypeOK, LockInv, LsnInv, KillInv, [Next]_vars
  PROVE  KillInv'
<1>n. /\ next_lsn \in Nat \ {0} /\ flushed_lsn \in Nat
      /\ \A r \in All \union to_flush : r.lsn \in Nat \ {0}
  BY ConstantsAssumption DEF TypeOK, All, Record
<1>k. /\ All \subseteq Known
      /\ \A r \in All, q \in All : r.lsn = q.lsn => r = q
      /\ up = "up" => \A r \in All \union to_flush : r.lsn < next_lsn
  BY DEF All, Known, Readable, KillInv, LsnInv, TypeOK
<1>1. ASSUME NEW x \in Txns, NEW kind \in Kinds, AppendLog(x, kind)
      PROVE  KillInv'
  <2> DEFINE new == [lsn |-> next_lsn, prev |-> last_lsn[x], txn |-> x, kind |-> kind]
  <2>1. /\ dirty' = dirty \union {new} /\ All' = All \union {new} /\ new.lsn = next_lsn
        /\ next_lsn' = next_lsn + 1 /\ up = "up"
        /\ UNCHANGED <<up, to_flush, unwritten, disk, flushed, hidden, torn>>
    BY <1>1 DEF AppendLog, All, files
  <2> HIDE DEF new
  <2>2. \A r \in disk \union unwritten : r.lsn < next_lsn
    BY <1>k, <2>1 DEF All
  <2>3. \A n \in 1 .. next_lsn' - 1 : \E q \in All' : q.lsn = n
    BY <1>n, <2>1 DEF KillInv
  <2>. QED BY <2>1, <2>2, <2>3 DEF KillInv
<1>2. ASSUME NEW x \in Txns, WaitReturns(x) \/ WaitSpins(x) PROVE KillInv'
  BY <1>2 DEF WaitReturns, WaitSpins, KillInv, All, files
<1>3. ASSUME NEW x \in Txns, WaitFlushes(x) \/ Flush(x) PROVE KillInv'
  <2>1. to_flush = {} /\ unwritten = {}
    BY <1>3, ConstantsAssumption DEF WaitFlushes, Flush, LockInv, CanLock, TypeOK
  <2>2. /\ to_flush' = dirty /\ unwritten' = dirty /\ dirty' = {}
        /\ UNCHANGED <<up, disk, flushed, hidden, torn, next_lsn>>
    BY <1>3 DEF WaitFlushes, Flush, SwapDirty, files
  <2>. QED BY <2>1, <2>2 DEF KillInv, All
<1>4. ASSUME NEW x \in Txns, WriteRecord(x) PROVE KillInv'
  <2>1. PICK r \in unwritten :
          /\ \A q \in unwritten : r.lsn <= q.lsn
          /\ disk' = disk \union {r} /\ unwritten' = unwritten \ {r}
          /\ hidden' = IF Segment(r.lsn) \in torn THEN hidden \union {r} ELSE hidden
    BY <1>4 DEF WriteRecord
  <2>2. /\ up = "up"
        /\ UNCHANGED <<up, to_flush, dirty, flushed, torn, next_lsn>>
    BY <1>4 DEF WriteRecord
  <2>3. hidden' = {} /\ torn' = {}
    BY <2>1, <2>2 DEF KillInv
  <2>4. All' = All /\ disk' \union unwritten' = disk \union unwritten
    BY <2>1, <2>2 DEF All
  <2>5. \A q \in unwritten' \union dirty : r.lsn < q.lsn
    <3>1. \A q \in unwritten' : r.lsn # q.lsn /\ r.lsn <= q.lsn
      BY <1>k, <2>1 DEF All
    <3>2. \A q \in unwritten' : r.lsn \in Nat /\ q.lsn \in Nat
      BY <1>n, <2>1 DEF All
    <3>. QED BY <3>1, <3>2 DEF KillInv
  <2>6. \A n \in 1 .. r.lsn : \E q \in disk' : q.lsn = n
    <3> SUFFICES ASSUME NEW n \in 1 .. r.lsn PROVE \E q \in disk' : q.lsn = n
      OBVIOUS
    <3>1. CASE n = r.lsn
      BY <2>1, <3>1
    <3>2. CASE n # r.lsn
      <4>0. r.lsn \in Nat /\ r.lsn < next_lsn
        BY <1>n, <1>k, <2>2 DEF All
      <4>1. PICK q \in All : q.lsn = n
        BY <1>n, <2>2, <3>2, <4>0 DEF KillInv
      <4>2. q \notin unwritten /\ q \notin dirty
        BY <2>1, <2>5, <3>2, <4>0, <4>1
      <4>. QED BY <2>1, <4>1, <4>2 DEF All
    <3>. QED BY <3>1, <3>2
  <2>. QED BY <2>1, <2>2, <2>3, <2>4, <2>5, <2>6 DEF KillInv
<1>5. ASSUME NEW x \in Txns, FinishFlush(x) PROVE KillInv'
  BY <1>5 DEF FinishFlush, KillInv, All
<1>6. ASSUME NEW x \in Txns, WriteFails(x) PROVE KillInv'
  BY <1>6 DEF WriteFails, TypeOK
<1>7. CASE Crash
  <2>1. /\ disk' = disk /\ hidden' = {} /\ torn' = {}
        /\ dirty' = {} /\ unwritten' = {} /\ up' = "down"
    BY <1>7 DEF Crash, KillInv, TornAt
  <2>. QED BY <2>1 DEF KillInv
<1>8. CASE HydrateCache
  <2>1. /\ dirty = {} /\ to_flush = {} /\ unwritten = {}
        /\ flushed' = disk
        /\ UNCHANGED <<dirty, to_flush, unwritten, disk, torn, hidden>>
    BY <1>8 DEF HydrateCache, LsnInv, TypeOK, Readable, KillInv, files
  <2>2. PICK m \in 0 .. MaxLsn : IsMaxLsn(m, disk) /\ next_lsn' = m + 1
    BY <1>8 DEF HydrateCache, Readable, KillInv
  <2>3. \A n \in 1 .. m : \E q \in disk : q.lsn = n
    BY <2>2 DEF KillInv, IsMaxLsn
  <2>4. All' = disk /\ \A n \in 1 .. next_lsn' - 1 : \E q \in disk : q.lsn = n
    BY <2>1, <2>2, <2>3 DEF All
  <2>. QED BY <2>1, <2>4 DEF KillInv
<1>9. CASE HydrateThrows \/ UNCHANGED vars
  BY <1>9 DEF HydrateThrows, vars, memory, files, KillInv, All
<1>10. QED
  BY <1>1, <1>2, <1>3, <1>4, <1>5, <1>6, <1>7, <1>8, <1>9
     DEF Next, Step, Begin, AppendOp, Commit, Kinds

(* KillInv holds throughout, from TypeCorrect, LockCorrect and LsnCorrect.   *)
LEMMA KillCorrect ==
  ASSUME ~PowerLoss, MaxFaults = 0, ~TornWrites
  PROVE  Spec => []KillInv
<1>1. Init => KillInv
  BY DEF Init, KillInv, All
<1>2. TypeOK /\ LockInv /\ LsnInv /\ KillInv /\ [Next]_vars => KillInv'
  BY KillStep
<1>3. QED BY <1>1, <1>2, TypeCorrect, LockCorrect, LsnCorrect, PTL DEF Spec

(* With the process killed at any point and nothing else going wrong, the    *)
(* log never has a hole: read_log finds every LSN below next_lsn_ whenever   *)
(* nobody is inside the manager (append_log, flush, hydrate_cache).          *)
THEOREM LogIsDense ==
  ASSUME ~PowerLoss, MaxFaults = 0, ~TornWrites
  PROVE  Spec => []LogDense
<1>1. TypeOK /\ LockInv /\ LsnInv /\ KillInv => LogDense
  <2> SUFFICES ASSUME TypeOK, LockInv, LsnInv, KillInv, up = "up", db_mutex = NoTxn
               PROVE  {r.lsn : r \in AllLogs} = 1 .. next_lsn - 1
    BY DEF LogDense
  <2>1. to_flush = {} /\ unwritten = {}
    BY ConstantsAssumption DEF LockInv, TypeOK
  <2>2. AllLogs = All
    BY <2>1 DEF AllLogs, All, KillInv
  <2>3. \A r \in AllLogs : r.lsn \in 1 .. next_lsn - 1
    <3>1. \A r \in AllLogs : r.lsn \in Nat \ {0} /\ r.lsn < next_lsn /\ next_lsn \in Nat
      BY ConstantsAssumption DEF AllLogs, LsnInv, Known, TypeOK, Record
    <3>. QED BY <3>1
  <2>. QED BY <2>2, <2>3 DEF KillInv
<1>2. QED BY <1>1, TypeCorrect, LockCorrect, LsnCorrect, KillCorrect, PTL

(* Under the same conditions the file-backed manager implements the abstract *)
(* log: append_log appends, write_logs makes a longer prefix stable, a crash *)
(* cuts off an unstable tail, everything else is invisible.                  *)
THEOREM RefinesAbstractLog ==
  ASSUME ~PowerLoss, MaxFaults = 0, ~TornWrites
  PROVE  Spec => ImplementsAbstractLog
<1>1. Init => A!Init
  BY DEF Init, A!Init
<1>2. TypeOK /\ LockInv /\ LsnInv /\ KillInv /\ [Next]_vars => [A!Next]_(A!vars)
  <2> SUFFICES ASSUME TypeOK, LockInv, LsnInv, KillInv, [Next]_vars
               PROVE  [A!Next]_(A!vars)
    OBVIOUS
  <2> USE DEF A!vars
  <2>k. up = "up" => \A r \in All : r.lsn < next_lsn
    BY DEF All, Known, Readable, KillInv, LsnInv, TypeOK
  <2>1. ASSUME NEW x \in Txns, NEW kind \in Kinds, AppendLog(x, kind)
        PROVE  A!AppendRecord
    <3> DEFINE new == [lsn |-> next_lsn, prev |-> last_lsn[x], txn |-> x, kind |-> kind]
    <3>1. new \in Record /\ new.lsn = next_lsn
      BY <2>1, ConstantsAssumption DEF AppendLog, TypeOK, Record
    <3>2. dirty' = dirty \union {new} /\ UNCHANGED <<disk, unwritten>> /\ up = "up"
      BY <2>1 DEF AppendLog, files
    <3> HIDE DEF new
    <3>. QED BY <2>k, <3>1, <3>2 DEF A!AppendRecord, All
  <2>2. ASSUME NEW x \in Txns, WaitReturns(x) \/ WaitSpins(x)
        PROVE  UNCHANGED A!vars
    BY <2>2 DEF WaitReturns, WaitSpins, files
  <2>3. ASSUME NEW x \in Txns, WaitFlushes(x) \/ Flush(x)
        PROVE  UNCHANGED A!vars
    <3>1. to_flush = {} /\ unwritten = {}
      BY <2>3, ConstantsAssumption DEF WaitFlushes, Flush, LockInv, CanLock, TypeOK
    <3>. QED BY <2>3, <3>1 DEF WaitFlushes, Flush, SwapDirty, files
  <2>4. ASSUME NEW x \in Txns, WriteRecord(x)
        PROVE  A!Stabilize
    <3>0. KillInv'
      BY KillStep
    <3>1. PICK r \in unwritten : disk' = disk \union {r} /\ unwritten' = unwritten \ {r}
      BY <2>4 DEF WriteRecord
    <3>2. dirty' = dirty
      BY <2>4 DEF WriteRecord
    <3>3. disk' \union unwritten' \union dirty' = disk \union unwritten \union dirty
      BY <3>1, <3>2
    <3>4. \A s \in disk', q \in All : q.lsn < s.lsn => q \in disk'
      <4>1. \A s \in disk' : \A q \in unwritten' \union dirty' : s.lsn < q.lsn
        BY <3>0 DEF KillInv
      <4>2. \A q \in All : q \in disk' \/ q \in unwritten' \union dirty'
        BY <3>3 DEF All
      <4>3. \A s \in All : s.lsn \in Nat
        BY ConstantsAssumption DEF TypeOK, All, Record
      <4>. QED BY <3>1, <4>1, <4>2, <4>3 DEF All
    <3>. QED BY <3>1, <3>3, <3>4 DEF A!Stabilize, A!IsPrefix, All
  <2>5. ASSUME NEW x \in Txns, FinishFlush(x)
        PROVE  UNCHANGED A!vars
    BY <2>5 DEF FinishFlush
  <2>6. ASSUME NEW x \in Txns, WriteFails(x)
        PROVE  FALSE
    BY <2>6 DEF WriteFails, TypeOK
  <2>7. CASE Crash
    <3>1. disk' = disk /\ dirty' = {} /\ unwritten' = {}
      BY <2>7 DEF Crash
    <3>2. \A s \in disk, q \in All : q.lsn < s.lsn => q \in disk
      <4>1. \A s \in All : s.lsn \in Nat
        BY ConstantsAssumption DEF TypeOK, All, Record
      <4>. QED BY <4>1 DEF KillInv, All
    <3>3. A!Lose
      BY <3>1, <3>2 DEF A!Lose, A!IsPrefix, All
    <3>. QED BY <3>3 DEF A!Next
  <2>8. CASE HydrateCache \/ HydrateThrows \/ UNCHANGED vars
    BY <2>8 DEF HydrateCache, HydrateThrows, vars, memory, files
  <2>. QED
    BY <2>1, <2>2, <2>3, <2>4, <2>5, <2>6, <2>7, <2>8
       DEF Next, Step, Begin, AppendOp, Commit, Kinds, A!Next
<1>3. QED
  BY <1>1, <1>2, TypeCorrect, LockCorrect, LsnCorrect, KillCorrect, PTL
     DEF Spec, ImplementsAbstractLog, A!Spec
=============================================================================
