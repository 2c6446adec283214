----------------------------- MODULE UndoProofs -----------------------------
(* Proofs about the log of Storage and the UNDO pass over it: a transaction  *)
(* is undone once, for every number of transactions, crashes (also inside    *)
(* recovery), restarts and failing statements.                               *)
EXTENDS StorageProofs

(* The records of a transaction's own work are linked by prev_lsn, none is   *)
(* skipped (Transaction::append_log).                                        *)
Chained(lg, i) ==
  lg[i].kind \notin {"clr", "rollback"} =>
    /\ lg[i].prev # 0 => lg[lg[i].prev].txn = lg[i].txn
    /\ \A j \in 1 .. i - 1 : lg[j].txn = lg[i].txn => j <= lg[i].prev

(* A compensation record belongs to the transaction of the record that it    *)
(* compensates and leads to the one before it (make_clr).                    *)
Compensates(lg, i) ==
  lg[i].kind = "clr" => /\ lg[lg[i].of].txn = lg[i].txn
                        /\ lg[i].undo_next = lg[lg[i].of].prev

(* Record j of a transaction after its record i: a transaction ends once, is *)
(* not continued once its undo has begun, and is undone backwards.           *)
Follows(lg, i, j) ==
  lg[i].txn = lg[j].txn =>
    /\ lg[i].kind \notin {"commit", "rollback"}
    /\ lg[i].kind = "clr" => lg[j].kind \in {"clr", "rollback"}
    /\ lg[i].kind = "clr" /\ lg[j].kind = "clr" => lg[j].of <= lg[i].undo_next

LogInv(lg) ==
  /\ \A i \in 1 .. Len(lg) : Chained(lg, i) /\ Compensates(lg, i)
  /\ \A i, j \in 1 .. Len(lg) : i < j => Follows(lg, i, j)

(* x has neither ended nor been undone in part                               *)
Working(x, lg) ==
  \A i \in 1 .. Len(lg) : lg[i].txn = x => lg[i].kind \notin {"clr", "rollback", "commit"}

(* Where undo() is in the log of its transaction: at its last record, or     *)
(* before everything that has been compensated.                              *)
WalkInv ==
  /\ phase \in InStatement => Working(txn, log)
  /\ phase \in {"down", "redo"} => txn = NoTxn /\ current = 0
  /\ phase \in {"undo", "undo_apply"} =>
       /\ \A i \in 1 .. Len(log) :
            log[i].txn \in active => log[i].kind \notin {"commit", "rollback"}
       /\ txn # NoTxn => txn \in active
       /\ txn = NoTxn => current = 0
       /\ current # 0 => log[current].txn = txn
  /\ phase = "undo" /\ current # 0 =>
       \A i \in 1 .. Len(log) : log[i].txn = txn =>
         IF log[current].kind = "clr" THEN i <= current
         ELSE log[i].kind = "clr" => current <= log[i].undo_next
  /\ phase = "undo_apply" => log[Len(log)].kind = "clr" /\ log[Len(log)].of = current

UndoInv == LogInv(log) /\ WalkInv

-----------------------------------------------------------------------------
(* The log                                                                  *)

(* What LastLsn returns: the greatest LSN of a transaction, 0 if it has none *)
(* (last_lsn_, get_last_lsns).                                               *)
LEMMA LastLsnIs ==
  ASSUME NEW lg \in Seq(Record), NEW x
  PROVE  /\ LastLsn(x, lg) \in 0 .. Len(lg)
         /\ LastLsn(x, lg) # 0 => lg[LastLsn(x, lg)].txn = x
         /\ \A i \in 1 .. Len(lg) : lg[i].txn = x => i <= LastLsn(x, lg)
<1> DEFINE S == {i \in DOMAIN lg : lg[i].txn = x}
<1>0. Len(lg) \in Nat /\ DOMAIN lg = 1 .. Len(lg)
  BY LenProperties
<1>1. CASE S = {}
  BY <1>0, <1>1 DEF LastLsn
<1>2. CASE S # {}
  <2> DEFINE f == [k \in S |-> k]
  <2>1. S \subseteq 1 .. Len(lg)
    BY <1>0
  <2>2. \E m \in S : \A i \in S : f[i] <= f[m]
    <3>1. \A k \in S : f[k] \in Nat
      BY <2>1
    <3>. HIDE DEF f, S
    <3>. QED BY <1>0, <1>2, <2>1, <3>1, ArgMaxExists
  <2>3. \E m \in S : \A i \in S : i <= m
    BY <2>2
  <2> DEFINE l == CHOOSE m \in S : \A i \in S : i <= m
  <2>4. l \in S /\ \A i \in S : i <= l
    BY <2>3
  <2>5. LastLsn(x, lg) = l
    BY <1>2 DEF LastLsn
  <2>. HIDE DEF l
  <2>. QED BY <1>0, <2>1, <2>4, <2>5
<1>. QED BY <1>1, <1>2

(* Fields of the records of a log.                                           *)
LEMMA LogFields ==
  ASSUME NEW lg \in Seq(Record), \A i \in 1 .. Len(lg) : LinksBack(lg, i)
  PROVE  /\ Len(lg) \in Nat
         /\ \A i \in 1 .. Len(lg) :
              /\ lg[i] \in Record /\ lg[i].txn \in Txns
              /\ lg[i].prev \in 0 .. i - 1
              /\ lg[i].kind = "clr" => lg[i].of \in 1 .. i - 1 /\ lg[i].undo_next \in 0 .. i - 1
<1>1. Len(lg) \in Nat /\ \A i \in 1 .. Len(lg) : lg[i] \in Record
  BY LenProperties, ElementOfSeq
<1>2. ASSUME NEW i \in 1 .. Len(lg)
      PROVE  /\ lg[i].txn \in Txns /\ lg[i].prev \in 0 .. i - 1
             /\ lg[i].kind = "clr" => lg[i].of \in 1 .. i - 1 /\ lg[i].undo_next \in 0 .. i - 1
  <2>1. /\ lg[i].txn \in Txns /\ lg[i].prev \in Nat
        /\ lg[i].kind = "clr" => lg[i].of \in Nat /\ lg[i].undo_next \in Nat
    BY <1>1, RecordFields
  <2>. QED BY <1>1, <2>1 DEF LinksBack
<1>. QED BY <1>1, <1>2

(* A record at the end of a well-formed log.                                 *)
LEMMA AppendLogInv ==
  ASSUME NEW lg \in Seq(Record), \A i \in 1 .. Len(lg) : LinksBack(lg, i), LogInv(lg),
         NEW r \in Record, r.prev \in 0 .. Len(lg),
         r.kind \notin {"clr", "rollback"} =>
           /\ r.prev # 0 => lg[r.prev].txn = r.txn
           /\ \A j \in 1 .. Len(lg) : lg[j].txn = r.txn => j <= r.prev,
         r.kind = "clr" => /\ r.of \in 1 .. Len(lg) /\ lg[r.of].txn = r.txn
                           /\ r.undo_next = lg[r.of].prev,
         \A i \in 1 .. Len(lg) : lg[i].txn = r.txn =>
           /\ lg[i].kind \notin {"commit", "rollback"}
           /\ lg[i].kind = "clr" => r.kind \in {"clr", "rollback"}
           /\ lg[i].kind = "clr" /\ r.kind = "clr" => r.of <= lg[i].undo_next
  PROVE  LogInv(Append(lg, r))
<1> DEFINE s == Append(lg, r)
<1>1. /\ Len(s) = Len(lg) + 1 /\ Len(lg) \in Nat
      /\ \A i \in 1 .. Len(lg) : s[i] = lg[i]
      /\ s[Len(lg) + 1] = r
  BY AppendProperties, LenProperties
<1>2. \A i \in 1 .. Len(lg) :
        /\ lg[i].prev \in 0 .. i - 1
        /\ lg[i].kind = "clr" => lg[i].of \in 1 .. i - 1
  BY LogFields
<1>. HIDE DEF s
<1>3. \A i \in 1 .. Len(s) : i \in 1 .. Len(lg) \/ i = Len(lg) + 1
  BY <1>1
<1>4. ASSUME NEW i \in 1 .. Len(lg) PROVE Chained(s, i) /\ Compensates(s, i)
  <2>1. Chained(lg, i) /\ Compensates(lg, i)
    BY DEF LogInv
  <2>2. s[i] = lg[i] /\ \A j \in 1 .. i - 1 : s[j] = lg[j]
    BY <1>1
  <2>3. lg[i].prev \in 0 .. i - 1 /\ (lg[i].kind = "clr" => lg[i].of \in 1 .. i - 1)
    BY <1>2
  <2>4. lg[i].prev # 0 => s[lg[i].prev] = lg[lg[i].prev]
    BY <2>2, <2>3
  <2>5. lg[i].kind = "clr" => s[lg[i].of] = lg[lg[i].of]
    BY <2>2, <2>3
  <2>. QED BY <2>1, <2>2, <2>4, <2>5 DEF Chained, Compensates
<1>5. Chained(s, Len(lg) + 1) /\ Compensates(s, Len(lg) + 1)
  BY <1>1 DEF Chained, Compensates
<1>6. ASSUME NEW i \in 1 .. Len(s), NEW j \in 1 .. Len(s), i < j PROVE Follows(s, i, j)
  <2>1. i \in 1 .. Len(lg) /\ s[i] = lg[i]
    BY <1>1, <1>6
  <2>2. CASE j \in 1 .. Len(lg)
    BY <1>1, <1>6, <2>1, <2>2 DEF LogInv, Follows
  <2>3. CASE j = Len(lg) + 1
    BY <1>1, <2>1, <2>3 DEF Follows
  <2>. QED BY <1>3, <2>2, <2>3
<1>. QED BY <1>3, <1>4, <1>5, <1>6 DEF LogInv, s

(* What a transaction appends while it works (Transaction::append_log).      *)
LEMMA WorkLogInv ==
  ASSUME NEW lg \in Seq(Record), \A i \in 1 .. Len(lg) : LinksBack(lg, i), LogInv(lg),
         NEW r \in Record, r.prev = LastLsn(r.txn, lg), r.kind \notin {"clr", "rollback"},
         Working(r.txn, lg)
  PROVE  /\ LogInv(Append(lg, r))
         /\ r.kind # "commit" => Working(r.txn, Append(lg, r))
<1>1. /\ r.prev \in 0 .. Len(lg)
      /\ r.prev # 0 => lg[r.prev].txn = r.txn
      /\ \A i \in 1 .. Len(lg) : lg[i].txn = r.txn => i <= r.prev
  BY LastLsnIs
<1>2. LogInv(Append(lg, r))
  BY <1>1, AppendLogInv DEF Working
<1>3. /\ Len(Append(lg, r)) = Len(lg) + 1 /\ Len(lg) \in Nat
      /\ \A i \in 1 .. Len(lg) : Append(lg, r)[i] = lg[i]
      /\ Append(lg, r)[Len(lg) + 1] = r
  BY AppendProperties, LenProperties
<1>. QED BY <1>2, <1>3 DEF Working

(* begin and commit.                                                         *)
LEMMA MarkLogInv ==
  ASSUME NEW lg \in Seq(Record), \A i \in 1 .. Len(lg) : LinksBack(lg, i), LogInv(lg),
         NEW x \in Txns, NEW k \in {"begin", "commit"}, Working(x, lg)
  PROVE  LogInv(LogMark(lg, x, k)) /\ (k # "commit" => Working(x, LogMark(lg, x, k)))
<1> DEFINE l == LastLsn(x, lg)
           r == [kind |-> k, txn |-> x, prev |-> l]
<1>1. l \in Nat
  BY LastLsnType, LenProperties
<1>2. l = LastLsn(x, lg) /\ LogMark(lg, x, k) = Append(lg, r)
  BY DEF LogMark
<1>. HIDE DEF l
<1>3. r \in Record /\ r.prev = l /\ r.kind = k /\ r.txn = x
  BY <1>1 DEF Record
<1>. HIDE DEF r
<1>. QED BY <1>2, <1>3, WorkLogInv

(* The pair of records that insert_row, update_row and delete_rows log.      *)
LEMMA PairLogInv ==
  ASSUME NEW lg \in Seq(Record), \A i \in 1 .. Len(lg) : LinksBack(lg, i), LogInv(lg),
         NEW x \in Txns, NEW k \in DataKinds, NEW p \in Pages, NEW b \in Row, NEW a \in Row,
         NEW tb \in MetaTable, NEW ta \in MetaTable, Working(x, lg)
  PROVE  /\ LogInv(LogTable(LogRow(lg, x, k, p, b, a), x, tb, ta))
         /\ Working(x, LogTable(LogRow(lg, x, k, p, b, a), x, tb, ta))
<1> DEFINE m == LogRow(lg, x, k, p, b, a)
<1>1. LogInv(m) /\ Working(x, m) /\ m \in Seq(Record) /\ \A i \in 1 .. Len(m) : LinksBack(m, i)
  <2> DEFINE l == LastLsn(x, lg)
             r == [kind |-> k, txn |-> x, prev |-> l, page |-> p, before |-> b, after |-> a]
  <2>1. l \in Nat
    BY LastLsnType, LenProperties
  <2>2. l = LastLsn(x, lg) /\ m = Append(lg, r)
    BY DEF LogRow
  <2>. HIDE DEF l
  <2>3. r \in Record /\ r.prev = l /\ r.kind \notin {"clr", "rollback", "commit"} /\ r.txn = x
    BY <2>1 DEF Record, DataKinds
  <2>. HIDE DEF r
  <2>4. Extends(lg, m)
    BY LogRowExtends
  <2>. HIDE DEF m
  <2>. QED BY <2>2, <2>3, <2>4, WorkLogInv DEF Extends
<1>. HIDE DEF m
<1> DEFINE l == LastLsn(x, m)
           r == [kind |-> "update_table", txn |-> x, prev |-> l, before |-> tb, after |-> ta]
<1>2. l \in Nat
  BY <1>1, LastLsnType, LenProperties
<1>3. l = LastLsn(x, m) /\ LogTable(m, x, tb, ta) = Append(m, r)
  BY DEF LogTable
<1>. HIDE DEF l
<1>4. r \in Record /\ r.prev = l /\ r.kind \notin {"clr", "rollback", "commit"} /\ r.txn = x
  BY <1>2 DEF Record
<1>. HIDE DEF r
<1>. QED BY <1>1, <1>3, <1>4, WorkLogInv DEF m

(* What a crash keeps of the log.                                            *)
LEMMA PrefixLogInv ==
  ASSUME NEW lg \in Seq(Record), \A i \in 1 .. Len(lg) : LinksBack(lg, i), LogInv(lg),
         NEW k \in 0 .. Len(lg)
  PROVE  LogInv(SubSeq(lg, 1, k))
<1> DEFINE s == SubSeq(lg, 1, k)
<1>1. Len(lg) \in Nat /\ Len(s) = k /\ \A i \in 1 .. k : s[i] = lg[i]
  BY LenProperties, SubSeqProperties
<1>2. \A i \in 1 .. Len(lg) :
        /\ lg[i].prev \in 0 .. i - 1
        /\ lg[i].kind = "clr" => lg[i].of \in 1 .. i - 1
  BY LogFields
<1>. HIDE DEF s
<1>3. ASSUME NEW i \in 1 .. k PROVE Chained(s, i) /\ Compensates(s, i)
  <2>1. Chained(lg, i) /\ Compensates(lg, i) /\ i \in 1 .. Len(lg)
    BY <1>1 DEF LogInv
  <2>2. s[i] = lg[i] /\ \A j \in 1 .. i - 1 : s[j] = lg[j]
    BY <1>1
  <2>3. lg[i].prev # 0 => s[lg[i].prev] = lg[lg[i].prev]
    BY <1>2, <2>1, <2>2
  <2>4. lg[i].kind = "clr" => s[lg[i].of] = lg[lg[i].of]
    BY <1>2, <2>1, <2>2
  <2>. QED BY <2>1, <2>2, <2>3, <2>4 DEF Chained, Compensates
<1>4. ASSUME NEW i \in 1 .. k, NEW j \in 1 .. k, i < j PROVE Follows(s, i, j)
  <2>1. Follows(lg, i, j) /\ s[i] = lg[i] /\ s[j] = lg[j]
    BY <1>1, <1>4 DEF LogInv
  <2>. QED BY <2>1 DEF Follows
<1>. QED BY <1>1, <1>3, <1>4 DEF LogInv, s

-----------------------------------------------------------------------------
(* Steps                                                                    *)

(* insert_row, update_row and delete_rows log a row and the table as they    *)
(* leave it; row ids do not exceed the new last_rid.                         *)
LogsPair ==
  \E k \in DataKinds, p \in Pages, b \in Row, a \in Row, tb \in MetaTable :
    /\ log' = LogTable(LogRow(log, txn, k, p, b, a), txn, tb, mt')
    /\ mt' \in MetaTable /\ mt.last_rid <= mt'.last_rid
    /\ k # "delete" => a.id <= mt'.last_rid

(* One row of an INSERT, UPDATE or DELETE, also one that fails after it was  *)
(* logged.                                                                   *)
RowWork ==
  \/ \E v \in Vals : InsertRow(v)
  \/ \E t \in todo, v \in Vals : UpdateRow(t, v) \/ UpdateThrows(t, v)
  \/ \E t \in todo : DeleteRow(t)

(* Such a step logs a pair of records, and the statement goes on or fails.   *)
LEMMA RowWorkLogs ==
  ASSUME TypeInv, RowWork
  PROVE  /\ LogsPair /\ phase \in InStatement /\ txn \in Txns
         /\ phase' \in {phase, "idle"} /\ (phase' = phase => txn' = txn)
<1>1. ASSUME NEW v \in Vals, InsertRow(v) PROVE LogsPair
  <2> DEFINE row == [id |-> mt.last_rid, val |-> v, obsolete |-> FALSE]
  <2>1. PICK p \in Pages :
          log' = LogTable(LogRow(log, txn, "insert", p, row, row), txn, mt, TableAfterInsert)
    BY <1>1 DEF InsertRow
  <2>2. mt' = TableAfterInsert /\ mt \in MetaTable
    BY <1>1 DEF InsertRow, TypeInv, TypeOK
  <2>3. mt' \in MetaTable
    BY <2>2, CountersType
  <2>4. row \in Row /\ row.id = mt.last_rid /\ mt.last_rid \in Nat
    BY <2>2 DEF MetaTable, Row
  <2>5. mt'.last_rid = mt.last_rid + 1
    BY <2>2 DEF TableAfterInsert, MetaTable
  <2>. HIDE DEF row
  <2>6. "insert" \in DataKinds
    BY DEF DataKinds
  <2>. QED BY <2>1, <2>2, <2>3, <2>4, <2>5, <2>6 DEF LogsPair
<1>2. ASSUME NEW t \in todo, NEW v \in Vals, UpdateRow(t, v) \/ UpdateThrows(t, v)
      PROVE  LogsPair
  <2>1. /\ log' = LogAfterUpdate(t, v) /\ mt' = [mt EXCEPT !.last_rid = @ + 1]
        /\ t[1] \in Pages /\ mt \in MetaTable /\ unchanged_mt \in MetaTable
    BY <1>2 DEF UpdateRow, UpdateThrows, TypeInv, TypeOK
  <2>2. OldVersion(t) \in Row /\ NewVersion(t, v) \in Row
    BY <1>2, PageAfterUpdateType DEF UpdateRow, UpdateThrows
  <2>3. mt' \in MetaTable /\ mt'.last_rid = mt.last_rid + 1 /\ mt.last_rid \in Nat
    BY <2>1, CountersType DEF MetaTable
  <2>4. NewVersion(t, v).id = mt.last_rid + 1
    <3>1. RowAt(cache, t) \in Row
      <4>1. cache[t[1]].rows \in Seq(Row) /\ t[2] \in 1 .. Len(cache[t[1]].rows)
        BY LenProperties DEF TypeInv, TypeOK, Page
      <4>. QED BY <4>1, ElementOfSeq DEF RowAt
    <3>. QED BY <3>1 DEF NewVersion, Row
  <2>5. "update" \in DataKinds
    BY DEF DataKinds
  <2>6. log' = LogTable(LogRow(log, txn, "update", t[1], OldVersion(t), NewVersion(t, v)),
                        txn, unchanged_mt, mt')
    BY <2>1 DEF LogAfterUpdate
  <2>. QED BY <2>1, <2>2, <2>3, <2>4, <2>5, <2>6 DEF LogsPair
<1>3. ASSUME NEW t \in todo, DeleteRow(t) PROVE LogsPair
  <2>1. /\ log' = LogTable(LogRow(log, txn, "delete", t[1], OldVersion(t), OldVersion(t)),
                           txn, unchanged_mt, mt')
        /\ mt' = TableAfterDelete
        /\ t[1] \in Pages /\ mt \in MetaTable /\ unchanged_mt \in MetaTable
    BY <1>3 DEF DeleteRow, TypeInv, TypeOK
  <2>2. OldVersion(t) \in Row
    <3>1. cache[t[1]].rows \in Seq(Row) /\ t[2] \in 1 .. Len(cache[t[1]].rows)
      BY LenProperties DEF TypeInv, TypeOK, Page
    <3>2. RowAt(cache, t) \in Row
      BY <3>1, ElementOfSeq DEF RowAt
    <3>. QED BY <3>2 DEF OldVersion, Row
  <2>3. mt' \in MetaTable /\ mt'.last_rid = mt.last_rid /\ mt.last_rid \in Nat
    BY <2>1, CountersType DEF MetaTable, TableAfterDelete
  <2>4. "delete" \in DataKinds
    BY DEF DataKinds
  <2>. QED BY <2>1, <2>2, <2>3, <2>4 DEF LogsPair
<1>4. LogsPair
  BY <1>1, <1>2, <1>3 DEF RowWork
<1>5. /\ phase \in InStatement /\ phase' \in {phase, "idle"} /\ (phase' = phase => txn' = txn)
  BY DEF RowWork, InsertRow, UpdateRow, UpdateThrows, DeleteRow, InStatement, statement
<1>6. txn \in Txns
  BY <1>5 DEF TypeInv, StmtInv
<1>. QED BY <1>4, <1>5, <1>6

(* Steps that leave the log alone and recovery where it is.                  *)
LEMMA StillUndo ==
  ASSUME UndoInv, UNCHANGED <<log, txn, current, active>>,
         phase' = phase \/ phase' \in {"idle", "waiting", "flushing"}
  PROVE  UndoInv'
BY DEF UndoInv, WalkInv, InStatement

(* A statement begins: its transaction is not in the log.                    *)
LEMMA BeginUndo ==
  ASSUME TypeInv, UndoInv,
         \E x \in Txns : BeginInsert(x) \/ \E kind \in {"update", "delete"} : BeginOnRows(x, kind)
  PROVE  UndoInv'
<1>1. PICK x \in Txns : /\ log' = LogMark(log, x, "begin") /\ txn' = x
                        /\ \A i \in DOMAIN log : log[i].txn # x
                        /\ phase' \in {"insert", "update", "delete"}
  BY DEF BeginInsert, BeginOnRows
<1>2. Working(x, log)
  BY <1>1, LenProperties DEF Working, TypeInv, TypeOK
<1>3. LogInv(log') /\ Working(x, log')
  BY <1>1, <1>2, MarkLogInv DEF UndoInv, TypeInv, TypeOK, LinkInv
<1>. QED BY <1>1, <1>3 DEF UndoInv, WalkInv

(* A statement works on a row.                                               *)
LEMMA RowWorkUndo == ASSUME TypeInv, UndoInv, RowWork PROVE UndoInv'
<1>1. /\ LogsPair /\ phase \in InStatement /\ txn \in Txns
      /\ phase' \in {phase, "idle"} /\ (phase' = phase => txn' = txn)
  BY RowWorkLogs
<1>2. LogInv(log') /\ Working(txn, log')
  <2>1. PICK k \in DataKinds, p \in Pages, b \in Row, a \in Row, tb \in MetaTable :
          log' = LogTable(LogRow(log, txn, k, p, b, a), txn, tb, mt') /\ mt' \in MetaTable
    BY <1>1 DEF LogsPair
  <2>2. /\ log \in Seq(Record) /\ \A i \in 1 .. Len(log) : LinksBack(log, i)
        /\ LogInv(log) /\ Working(txn, log)
    BY <1>1 DEF TypeInv, TypeOK, LinkInv, UndoInv, WalkInv
  <2>. HIDE DEF Working, LogInv
  <2>. QED BY <1>1, <2>1, <2>2, PairLogInv
<1>. QED BY <1>1, <1>2 DEF UndoInv, WalkInv, InStatement

(* The commit record ends the transaction.                                   *)
LEMMA CommitUndo == ASSUME TypeInv, UndoInv, Commit PROVE UndoInv'
<1>1. log' = LogMark(log, txn, "commit") /\ phase' = "waiting" /\ phase \in InStatement
  BY DEF Commit
<1>2. txn \in Txns /\ Working(txn, log)
  BY <1>1 DEF TypeInv, StmtInv, UndoInv, WalkInv
<1>3. LogInv(log')
  BY <1>1, <1>2, MarkLogInv DEF UndoInv, TypeInv, TypeOK, LinkInv
<1>. QED BY <1>1, <1>3 DEF UndoInv, WalkInv, InStatement

(* A crash, wherever it happens.                                             *)
LEMMA DieUndo ==
  ASSUME TypeInv, UndoInv, NEW k \in durable .. Len(log), Die(k) PROVE UndoInv'
<1>1. k \in 0 .. Len(log)
  BY LenProperties DEF TypeInv, TypeOK
<1>2. LogInv(log')
  BY <1>1, PrefixLogInv DEF Die, UndoInv, TypeInv, TypeOK, LinkInv
<1>. QED BY <1>2 DEF Die, UndoInv, WalkInv, InStatement

(* The REDO pass and the choice of the transactions to undo.                 *)
LEMMA RedoUndo == ASSUME TypeInv, UndoInv, Start \/ Redo \/ EndRedo PROVE UndoInv'
<1>1. CASE Start \/ Redo
  BY <1>1 DEF Start, Redo, UndoInv, WalkInv, InStatement, files, statement, recovery
<1>2. CASE EndRedo
  <2>1. DOMAIN log = 1 .. Len(log)
    BY LenProperties DEF TypeInv, TypeOK
  <2>2. \A i \in 1 .. Len(log) :
          log[i].txn \in active' => log[i].kind \notin {"commit", "rollback"}
    BY <1>2, <2>1 DEF EndRedo, Marked
  <2>. QED BY <1>2, <2>2 DEF EndRedo, UndoInv, WalkInv, InStatement, files, statement
<1>. QED BY <1>1, <1>2

(* undo() starts at the last record of a transaction.                        *)
LEMMA UndoTxnUndo == ASSUME TypeInv, UndoInv, NEW x \in Txns, UndoTxn(x) PROVE UndoInv'
<1>1. /\ x \in active /\ txn' = x /\ current' = LastLsn(x, log)
      /\ phase = "undo" /\ UNCHANGED <<phase, log, active>>
  BY DEF UndoTxn, files
<1>2. /\ current' \in 0 .. Len(log) /\ Len(log) \in Nat
      /\ current' # 0 => log[current'].txn = x
      /\ \A i \in 1 .. Len(log) : log[i].txn = x => i <= current'
  BY <1>1, LastLsnIs, LenProperties DEF TypeInv, TypeOK
<1>3. ASSUME current' # 0, log[current'].kind # "clr", NEW i \in 1 .. Len(log), log[i].txn = x
      PROVE  log[i].kind # "clr"
  <2>1. CASE i = current'
    BY <1>3, <2>1
  <2>2. CASE i # current'
    <3>1. i < current' /\ current' \in 1 .. Len(log)
      BY <1>2, <1>3, <2>2
    <3>2. Follows(log, i, current') /\ log[current'].txn = x
      BY <1>2, <1>3, <3>1 DEF UndoInv, LogInv
    <3>3. log[current'].kind # "rollback"
      BY <1>1, <3>1, <3>2 DEF UndoInv, WalkInv
    <3>. QED BY <1>3, <3>2, <3>3 DEF Follows
  <2>. QED BY <2>1, <2>2
<1>4. x # NoTxn
  BY ConstantsAssumption
<1>. QED BY <1>1, <1>2, <1>3, <1>4 DEF UndoInv, WalkInv, InStatement

(* The record before one of a transaction's own records is its own too.      *)
LEMMA PrevIsWork ==
  ASSUME TypeInv, UndoInv, NEW n \in 1 .. Len(log), log[n].kind \notin {"clr", "rollback"},
         log[n].prev # 0
  PROVE  /\ log[n].prev \in 1 .. n - 1 /\ log[log[n].prev].txn = log[n].txn
         /\ log[log[n].prev].kind # "clr"
<1>1. log[n].prev \in 1 .. n - 1 /\ Len(log) \in Nat
  <2>1. log[n].prev \in 0 .. n - 1 /\ Len(log) \in Nat
    BY LogFields DEF TypeInv, TypeOK, LinkInv
  <2>. QED BY <2>1
<1>2. log[log[n].prev].txn = log[n].txn
  BY DEF UndoInv, LogInv, Chained
<1>3. Follows(log, log[n].prev, n)
  BY <1>1 DEF UndoInv, LogInv
<1>. QED BY <1>1, <1>2, <1>3 DEF Follows

(* undo() passes over a record.                                              *)
LEMMA UndoSkipUndo == ASSUME TypeInv, UndoInv, UndoSkip PROVE UndoInv'
<1>1. /\ phase = "undo" /\ current # 0 /\ UNCHANGED <<phase, log, txn, active>>
      /\ current' = IF log[current].kind = "clr" THEN log[current].undo_next
                                                 ELSE log[current].prev
  BY DEF UndoSkip, files, statement
<1>2. current \in 1 .. Len(log) /\ Len(log) \in Nat /\ log[current].txn = txn
  BY <1>1, LenProperties DEF TypeInv, TypeOK, UndoInv, WalkInv
<1>3. txn \in active /\ log[current].kind \notin {"commit", "rollback"}
  BY <1>1, <1>2 DEF UndoInv, WalkInv
<1>4. \A i \in 1 .. Len(log) :
        /\ log[i].prev \in 0 .. i - 1
        /\ log[i].kind = "clr" => log[i].of \in 1 .. i - 1 /\ log[i].undo_next \in 0 .. i - 1
  BY LogFields DEF TypeInv, TypeOK, LinkInv
<1>5. /\ current' # 0 => log[current'].txn = txn /\ log[current'].kind # "clr"
      /\ \A i \in 1 .. Len(log) : log[i].txn = txn /\ log[i].kind = "clr"
                                    => current' <= log[i].undo_next
  <2>1. CASE log[current].kind # "clr"
    <3>1. current' = log[current].prev
      BY <1>1, <2>1
    <3>2. current' # 0 => log[current'].txn = txn /\ log[current'].kind # "clr"
      BY <1>2, <1>3, <2>1, <3>1, PrevIsWork
    <3>3. \A i \in 1 .. Len(log) : log[i].txn = txn /\ log[i].kind = "clr"
                                     => current <= log[i].undo_next
      BY <1>1, <2>1 DEF UndoInv, WalkInv
    <3>. QED BY <1>2, <1>4, <3>1, <3>2, <3>3
  <2>2. CASE log[current].kind = "clr"
    <3> DEFINE of == log[current].of
    <3>1. of \in 1 .. current - 1 /\ of \in 1 .. Len(log)
      BY <1>2, <1>4, <2>2
    <3>2. Compensates(log, current) /\ LinksBack(log, current)
      BY <1>2 DEF UndoInv, LogInv, TypeInv, LinkInv
    <3>3. /\ current' = log[of].prev /\ log[of].txn = txn
          /\ log[of].kind \notin {"clr", "rollback"}
      BY <1>1, <1>2, <2>2, <3>2 DEF Compensates, LinksBack, DataKinds
    <3>. HIDE DEF of
    <3>4. current' # 0 => log[current'].txn = txn /\ log[current'].kind # "clr"
      BY <3>1, <3>3, PrevIsWork
    <3>5. ASSUME NEW i \in 1 .. Len(log), log[i].txn = txn, log[i].kind = "clr"
          PROVE  current' <= log[i].undo_next
      <4>1. CASE i = current
        BY <1>1, <1>2, <1>4, <2>2, <4>1
      <4>2. CASE i # current
        <5>1. i < current
          BY <1>1, <1>2, <2>2, <3>5, <4>2 DEF UndoInv, WalkInv
        <5>2. of <= log[i].undo_next
          BY <1>2, <2>2, <3>5, <5>1 DEF UndoInv, LogInv, Follows, of
        <5>. QED BY <1>4, <3>1, <3>3, <3>5, <5>2
      <4>. QED BY <4>1, <4>2
    <3>. QED BY <3>4, <3>5
  <2>. QED BY <2>1, <2>2
<1>6. txn # NoTxn
  BY <1>3, ConstantsAssumption DEF TypeInv, TypeOK
<1>. QED BY <1>1, <1>2, <1>3, <1>5, <1>6 DEF UndoInv, WalkInv, InStatement

(* undo() appends a compensation record: what it compensates lies before     *)
(* everything that was compensated.                                          *)
LEMMA UndoLogsUndo == ASSUME TypeInv, UndoInv, UndoLogs PROVE UndoInv'
<1>1. /\ phase = "undo" /\ current # 0 /\ Undoable(log[current]) /\ phase' = "undo_apply"
      /\ log' = Append(log, make_clr(current)) /\ UNCHANGED <<txn, active, current>>
  BY DEF UndoLogs, statement, recovery
<1>2. current \in 1 .. Len(log) /\ Len(log) \in Nat /\ log[current].txn = txn
  BY <1>1, LenProperties DEF TypeInv, TypeOK, UndoInv, WalkInv
<1>3. log[current].kind \in DataKinds \union {"update_table"}
  BY <1>1 DEF Undoable
<1>4. /\ txn \in active
      /\ \A i \in 1 .. Len(log) : log[i].txn = txn =>
           /\ log[i].kind \notin {"commit", "rollback"}
           /\ log[i].kind = "clr" => current <= log[i].undo_next
  BY <1>1, <1>2, <1>3 DEF UndoInv, WalkInv, DataKinds
<1>5. log[current].prev \in 0 .. current - 1 /\ txn \in Txns
  BY <1>2, LogFields DEF TypeInv, TypeOK, LinkInv
<1> DEFINE r == make_clr(current)
<1>6. /\ r \in Record /\ r.prev = 0 /\ r.of = current /\ r.undo_next = log[current].prev
      /\ r.txn = txn /\ r.kind = "clr" /\ log' = Append(log, r)
  BY <1>1, <1>2, <1>5 DEF make_clr, Record
<1>. HIDE DEF r
<1>7. LogInv(log')
  <2>1. LogInv(log) /\ log \in Seq(Record) /\ \A i \in 1 .. Len(log) : LinksBack(log, i)
    BY DEF UndoInv, TypeInv, TypeOK, LinkInv
  <2>. QED BY <1>2, <1>4, <1>6, <2>1, AppendLogInv
<1>8. /\ Len(log') = Len(log) + 1 /\ \A i \in 1 .. Len(log) : log'[i] = log[i]
      /\ log'[Len(log) + 1] = r
  BY <1>6, AppendProperties DEF TypeInv, TypeOK
<1>9. \A i \in 1 .. Len(log') :
        log'[i].txn \in active' => log'[i].kind \notin {"commit", "rollback"}
  BY <1>1, <1>2, <1>6, <1>8 DEF UndoInv, WalkInv
<1>10. log'[current] = log[current]
  BY <1>2, <1>8
<1>11. txn # NoTxn
  BY <1>4, ConstantsAssumption DEF TypeInv, TypeOK
<1>. QED BY <1>1, <1>2, <1>4, <1>6, <1>7, <1>8, <1>9, <1>10, <1>11
         DEF UndoInv, WalkInv, InStatement

(* ... and moves on to the record before it.                                 *)
LEMMA UndoAppliesUndo == ASSUME TypeInv, UndoInv, UndoApplies PROVE UndoInv'
<1>1. /\ phase = "undo_apply" /\ phase' = "undo" /\ UNCHANGED <<log, txn, active>>
      /\ current' = log[current].prev
  BY DEF UndoApplies, statement
<1>2. /\ current \in 1 .. Len(log) /\ Len(log) \in Nat /\ log[current].txn = txn
      /\ log[current].kind \in DataKinds \union {"update_table"}
  BY <1>1, LenProperties DEF TypeInv, TypeOK, StmtInv, UndoInv, WalkInv, Undoable
<1>3. /\ log[Len(log)].kind = "clr" /\ log[Len(log)].of = current /\ txn \in active
      /\ txn # NoTxn
  BY <1>1, <1>2, ConstantsAssumption DEF UndoInv, WalkInv, TypeInv, TypeOK
<1>4. /\ Compensates(log, Len(log)) /\ Len(log) \in 1 .. Len(log)
  BY <1>2 DEF UndoInv, LogInv
<1>5. log[Len(log)].txn = txn /\ log[Len(log)].undo_next = current'
  BY <1>1, <1>2, <1>3, <1>4 DEF Compensates
<1>6. current' # 0 => log[current'].txn = txn /\ log[current'].kind # "clr"
  BY <1>1, <1>2, PrevIsWork DEF DataKinds
<1>7. \A i \in 1 .. Len(log) :
        /\ log[i].prev \in 0 .. i - 1
        /\ log[i].kind = "clr" => log[i].undo_next \in 0 .. i - 1
  BY LogFields DEF TypeInv, TypeOK, LinkInv
<1>8. ASSUME NEW i \in 1 .. Len(log), log[i].txn = txn, log[i].kind = "clr"
      PROVE  current' <= log[i].undo_next
  <2>1. CASE i = Len(log)
    BY <1>4, <1>5, <1>7, <1>8, <2>1
  <2>2. CASE i # Len(log)
    <3>1. Follows(log, i, Len(log))
      BY <1>2, <1>4, <2>2 DEF UndoInv, LogInv
    <3>2. current <= log[i].undo_next
      BY <1>3, <1>5, <1>8, <3>1 DEF Follows
    <3>. QED BY <1>1, <1>2, <1>7, <1>8, <3>2
  <2>. QED BY <2>1, <2>2
<1>. QED BY <1>1, <1>3, <1>6, <1>8 DEF UndoInv, WalkInv, InStatement

(* The rollback marker ends the transaction.                                 *)
LEMMA UndoEndUndo == ASSUME TypeInv, UndoInv, UndoEnd PROVE UndoInv'
<1> DEFINE r == [kind |-> "rollback", txn |-> txn, prev |-> 0]
<1>1. /\ phase = "undo" /\ txn # NoTxn /\ current = 0 /\ log' = Append(log, r)
      /\ active' = active \ {txn} /\ txn' = NoTxn /\ UNCHANGED <<phase, current>>
  BY DEF UndoEnd
<1>2. txn \in active /\ txn \in Txns
  BY <1>1 DEF UndoInv, WalkInv, TypeInv, TypeOK
<1>3. r \in Record /\ r.prev = 0 /\ r.kind = "rollback" /\ r.txn = txn
  BY <1>2 DEF Record
<1>. HIDE DEF r
<1>4. \A i \in 1 .. Len(log) : log[i].txn = txn => log[i].kind \notin {"commit", "rollback"}
  BY <1>1, <1>2 DEF UndoInv, WalkInv
<1>5. LogInv(log')
  <2>1. LogInv(log) /\ log \in Seq(Record) /\ \A i \in 1 .. Len(log) : LinksBack(log, i)
    BY DEF UndoInv, TypeInv, TypeOK, LinkInv
  <2>2. 0 \in 0 .. Len(log)
    BY <2>1, LenProperties
  <2>. QED BY <1>1, <1>3, <1>4, <2>1, <2>2, AppendLogInv
<1>6. /\ Len(log') = Len(log) + 1 /\ Len(log) \in Nat
      /\ \A i \in 1 .. Len(log) : log'[i] = log[i]
      /\ log'[Len(log) + 1] = r
  BY <1>1, <1>3, AppendProperties, LenProperties DEF TypeInv, TypeOK
<1>7. \A i \in 1 .. Len(log') :
        log'[i].txn \in active' => log'[i].kind \notin {"commit", "rollback"}
  BY <1>1, <1>3, <1>6 DEF UndoInv, WalkInv
<1>. QED BY <1>1, <1>5, <1>7 DEF UndoInv, WalkInv, InStatement

(* Every step keeps UndoInv.                                                 *)
LEMMA NextUndo == TypeInv /\ UndoInv /\ [Next]_vars => UndoInv'
<1>. SUFFICES ASSUME TypeInv, UndoInv, [Next]_vars PROVE UndoInv'
  OBVIOUS
<1>1. CASE \E x \in Txns : BeginInsert(x) \/ \E kind \in {"update", "delete"} : BeginOnRows(x, kind)
  BY <1>1, BeginUndo
<1>2. CASE RowWork
  BY <1>2, RowWorkUndo
<1>3. CASE InsertThrows
  BY <1>3 DEF InsertThrows, UndoInv, WalkInv, InStatement, files
<1>4. CASE Commit
  BY <1>4, CommitUndo
<1>5. CASE CommitDone
  BY <1>5 DEF CommitDone, UndoInv, WalkInv, InStatement, files
<1>6. CASE WaitForDurable \/ \E p \in Pages : FlushDirty(p) \/ Evict(p)
  BY <1>6, StillUndo DEF WaitForDurable, FlushDirty, Evict, statement, recovery
<1>7. CASE Start \/ Redo \/ EndRedo
  BY <1>7, RedoUndo
<1>8. CASE \/ \E x \in Txns : UndoTxn(x)
           \/ UndoSkip \/ UndoLogs \/ UndoApplies \/ UndoEnd
  BY <1>8, UndoTxnUndo, UndoSkipUndo, UndoLogsUndo, UndoAppliesUndo, UndoEndUndo
<1>9. CASE Recovered
  BY <1>9, StillUndo DEF Recovered, files, statement
<1>10. CASE Crash
  BY <1>10, DieUndo DEF Crash
<1>11. CASE Close
  <2>1. durable \in durable .. Len(log)
    BY LenProperties DEF TypeInv, TypeOK
  <2>. QED BY <1>11, <2>1, DieUndo DEF Close
<1>12. CASE UNCHANGED vars
  BY <1>12, StillUndo DEF vars, files, statement, recovery
<1>. QED BY <1>1, <1>2, <1>3, <1>4, <1>5, <1>6, <1>7, <1>8, <1>9, <1>10, <1>11, <1>12
         DEF Next, Statement, Committing, Recovering, RowWork

(* The initial state.                                                        *)
LEMMA InitUndo == Init => UndoInv
BY DEF Init, UndoInv, LogInv, WalkInv, InStatement

(* UndoInv holds throughout.                                                 *)
LEMMA UndoInvHolds == Spec => [](TypeInv /\ UndoInv)
<1>1. TypeInv /\ UndoInv /\ [Next]_vars => (TypeInv /\ UndoInv)'
  BY NextType, NextUndo
<1>. QED BY <1>1, InitType, InitUndo, PTL DEF Spec

(* A transaction is undone once, however often recovery is interrupted and   *)
(* started again: no record is compensated twice, no transaction gets two    *)
(* rollback markers, and a committed one is not undone (undo, make_clr,      *)
(* get_active_txns, get_last_lsns).                                          *)
THEOREM UndoneAtMostOnce == Spec => []UndoneOnce
<1>1. TypeInv /\ UndoInv => UndoneOnce
  <2> SUFFICES ASSUME TypeInv, UndoInv PROVE UndoneOnce
    OBVIOUS
  <2>1. DOMAIN log = 1 .. Len(log) /\ Len(log) \in Nat
    BY LenProperties DEF TypeInv, TypeOK
  <2>2. \A i, j \in 1 .. Len(log) : i < j => Follows(log, i, j)
    BY DEF UndoInv, LogInv
  <2>3. \A i \in 1 .. Len(log) : log[i].kind = "clr" =>
          /\ log[i].of \in Nat /\ log[i].undo_next \in Nat
          /\ log[i].undo_next < log[i].of /\ log[log[i].of].txn = log[i].txn
    <3> SUFFICES ASSUME NEW i \in 1 .. Len(log), log[i].kind = "clr"
                 PROVE  /\ log[i].of \in Nat /\ log[i].undo_next \in Nat
                        /\ log[i].undo_next < log[i].of /\ log[log[i].of].txn = log[i].txn
      OBVIOUS
    <3>1. log[i].of \in 1 .. i - 1 /\ log[i].undo_next \in 0 .. i - 1
      BY LogFields DEF TypeInv, TypeOK, LinkInv
    <3>2. log[i].of \in 1 .. Len(log)
      BY <2>1, <3>1
    <3>3. log[log[i].of].prev \in 0 .. log[i].of - 1
      BY <3>2, LogFields DEF TypeInv, TypeOK, LinkInv
    <3>. QED BY <3>1, <3>3 DEF UndoInv, LogInv, Compensates
  <2>4. ASSUME NEW i \in 1 .. Len(log), NEW j \in 1 .. Len(log), i < j,
               log[i].kind = "clr", log[j].kind = "clr", log[i].of = log[j].of
        PROVE  FALSE
    BY <2>2, <2>3, <2>4 DEF Follows
  <2>5. ASSUME NEW i \in 1 .. Len(log), NEW j \in 1 .. Len(log), i < j,
               log[i].kind \in {"commit", "rollback"}, log[i].txn = log[j].txn
        PROVE  FALSE
    BY <2>2, <2>5 DEF Follows
  <2>6. ASSUME NEW i \in 1 .. Len(log), NEW j \in 1 .. Len(log), i < j,
               log[i].kind = "clr", log[j].kind = "commit", log[i].txn = log[j].txn
        PROVE  FALSE
    BY <2>2, <2>6 DEF Follows
  <2>7. \A i, j \in 1 .. Len(log) : i < j \/ i = j \/ j < i
    OBVIOUS
  <2>8. \A i, j \in 1 .. Len(log) :
          log[i].kind = "clr" /\ log[j].kind = "clr" /\ log[i].of = log[j].of => i = j
    BY <2>4, <2>7
  <2>9. \A i, j \in 1 .. Len(log) :
          log[i].kind = "rollback" /\ log[j].kind = "rollback" /\ log[i].txn = log[j].txn => i = j
    BY <2>5, <2>7
  <2>10. \A i, j \in 1 .. Len(log) :
           log[i].kind \in {"clr", "rollback"} /\ log[j].kind = "commit" => log[i].txn # log[j].txn
    BY <2>5, <2>6, <2>7
  <2>. QED BY <2>1, <2>8, <2>9, <2>10 DEF UndoneOnce, Marked
<1>. QED BY <1>1, UndoInvHolds, PTL
=============================================================================
