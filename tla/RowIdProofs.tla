---------------------------- MODULE RowIdProofs ----------------------------
(* Proofs about the row ids of Storage: until an undo restores an older copy *)
(* of the table's metadata, last_rid covers every row of the pages, through  *)
(* failing statements, crashes and restarts.                                 *)
EXTENDS UndoProofs

Committed(lg, x) == \E i \in 1 .. Len(lg) : lg[i].kind = "commit" /\ lg[i].txn = x
NoClr(lg) == \A i \in 1 .. Len(lg) : lg[i].kind # "clr"
Tabled(lg, i) == lg[i].kind = "update_table"

(* A record that creates a row is followed by the table as it was then.      *)
Paired(lg, i) ==
  lg[i].kind \in {"insert", "update"} =>
    i < Len(lg) /\ Tabled(lg, i + 1) /\ lg[i].after.id <= lg[i + 1].after.last_rid

(* The table's records as long as nothing was compensated: those of a        *)
(* committed transaction come in pairs, last_rid never falls, and a          *)
(* transaction that was rolled back had none.                                *)
TableLog(lg) ==
  /\ \A i \in 1 .. Len(lg) : Committed(lg, lg[i].txn) => Paired(lg, i)
  /\ \A i, j \in 1 .. Len(lg) : i < j /\ Tabled(lg, i) /\ Tabled(lg, j) =>
       lg[i].after.last_rid <= lg[j].after.last_rid
  /\ \A i, j \in 1 .. Len(lg) : lg[i].kind = "rollback" /\ Tabled(lg, j) => lg[i].txn # lg[j].txn

InRecovery == {"down", "redo", "undo", "undo_apply"}

(* The metadata is up to date with the log: with all of it while statements  *)
(* run, with the committed part of what REDO went through during recovery.   *)
(* What UNDO has yet to compensate lies at or before `current`.              *)
MetaInv ==
  /\ phase \in InStatement => \A i \in 1 .. Len(log) : log[i].txn = txn => Paired(log, i)
  /\ phase \notin InRecovery =>
       \A j \in 1 .. Len(log) : Tabled(log, j) => log[j].after.last_rid <= mt.last_rid
  /\ phase \in InRecovery =>
       \A j \in 1 .. redone : Tabled(log, j) /\ Committed(log, log[j].txn) =>
         log[j].after.last_rid <= mt_file.last_rid
  /\ phase = "undo" =>
       \A j \in 1 .. Len(log) : Tabled(log, j) =>
         /\ j <= redone
         /\ Committed(log, log[j].txn) \/ log[j].txn \in active
         /\ log[j].txn = txn => j <= current

(* One of the first n records of the log has a last_rid that covers id.      *)
Covered(id, lg, n) == \E j \in 1 .. n : Tabled(lg, j) /\ id <= lg[j].after.last_rid
RowsCovered(pg, lg, n) == \A i \in DOMAIN pg.rows : Covered(pg.rows[i].id, lg, n)

(* The rows of the page files are covered by the durable log, those of the   *)
(* cache by the log.                                                         *)
RowInv ==
  /\ \A p \in DOMAIN disk : RowsCovered(disk[p], log, durable)
  /\ \A p \in DOMAIN cache : RowsCovered(cache[p], log, Len(log))

(* Compensation records are flushed as they are appended.                    *)
ClrInv == \A i \in 1 .. Len(log) : log[i].kind = "clr" => i <= durable

RidInv == ClrInv /\ (NoClr(log) => TableLog(log) /\ MetaInv /\ RowInv)

-----------------------------------------------------------------------------
(* The log                                                                   *)

(* Fields that the row ids are about.                                        *)
LEMMA RidFields ==
  ASSUME NEW lg \in Seq(Record)
  PROVE  /\ Len(lg) \in Nat /\ DOMAIN lg = 1 .. Len(lg)
         /\ \A i \in 1 .. Len(lg) :
              /\ Tabled(lg, i) => lg[i].after.last_rid \in Nat
              /\ lg[i].kind \in {"insert", "update"} => lg[i].after.id \in Nat
<1>1. Len(lg) \in Nat /\ DOMAIN lg = 1 .. Len(lg) /\ \A i \in 1 .. Len(lg) : lg[i] \in Record
  BY LenProperties, ElementOfSeq
<1>2. ASSUME NEW i \in 1 .. Len(lg)
      PROVE  /\ Tabled(lg, i) => lg[i].after.last_rid \in Nat
             /\ lg[i].kind \in {"insert", "update"} => lg[i].after.id \in Nat
  <2>1. /\ lg[i].kind = "update_table" => lg[i].after \in MetaTable
        /\ lg[i].kind \in DataKinds => lg[i].after \in Row
    BY <1>1, RecordFields
  <2>. QED BY <2>1 DEF Tabled, DataKinds, MetaTable, Row
<1>. QED BY <1>1, <1>2

(* A marker at the end of the log.                                           *)
LEMMA MarkTableLog ==
  ASSUME NEW lg \in Seq(Record), TableLog(lg),
         NEW r \in Record, r.kind \in {"begin", "commit", "rollback"},
         r.kind = "commit" => \A i \in 1 .. Len(lg) : lg[i].txn = r.txn => Paired(lg, i),
         r.kind = "rollback" => \A j \in 1 .. Len(lg) : Tabled(lg, j) => lg[j].txn # r.txn
  PROVE  TableLog(Append(lg, r))
<1> DEFINE s == Append(lg, r)
<1>1. /\ Len(s) = Len(lg) + 1 /\ Len(lg) \in Nat
      /\ \A i \in 1 .. Len(lg) : s[i] = lg[i]
      /\ s[Len(lg) + 1] = r
  BY AppendProperties, LenProperties
<1>. HIDE DEF s
<1>2. \A i \in 1 .. Len(s) : i \in 1 .. Len(lg) \/ i = Len(lg) + 1
  BY <1>1
<1>3. \A j \in 1 .. Len(s) : Tabled(s, j) => j \in 1 .. Len(lg) /\ Tabled(lg, j)
  BY <1>1, <1>2 DEF Tabled
<1>4. ASSUME NEW i \in 1 .. Len(s), Committed(s, s[i].txn) PROVE Paired(s, i)
  <2>1. CASE i = Len(lg) + 1
    BY <1>1, <2>1 DEF Paired
  <2>2. CASE i \in 1 .. Len(lg)
    <3>1. PICK c \in 1 .. Len(s) : s[c].kind = "commit" /\ s[c].txn = lg[i].txn
      BY <1>1, <1>4, <2>2 DEF Committed
    <3>2. Committed(lg, lg[i].txn) \/ (r.kind = "commit" /\ lg[i].txn = r.txn)
      BY <1>1, <1>2, <3>1 DEF Committed
    <3>3. Paired(lg, i)
      BY <2>2, <3>2 DEF TableLog
    <3>4. i < Len(lg) => i + 1 \in 1 .. Len(lg) /\ i < Len(s)
      BY <1>1, <2>2
    <3>. QED BY <1>1, <2>2, <3>3, <3>4 DEF Paired, Tabled
  <2>. QED BY <1>2, <2>1, <2>2
<1>5. ASSUME NEW i \in 1 .. Len(s), NEW j \in 1 .. Len(s), i < j, Tabled(s, i), Tabled(s, j)
      PROVE  s[i].after.last_rid <= s[j].after.last_rid
  BY <1>1, <1>3, <1>5 DEF TableLog
<1>6. ASSUME NEW i \in 1 .. Len(s), NEW j \in 1 .. Len(s), s[i].kind = "rollback", Tabled(s, j)
      PROVE  s[i].txn # s[j].txn
  <2>1. j \in 1 .. Len(lg) /\ Tabled(lg, j) /\ s[j] = lg[j]
    BY <1>1, <1>3, <1>6
  <2>. QED BY <1>1, <1>2, <1>6, <2>1 DEF TableLog
<1>. QED BY <1>4, <1>5, <1>6 DEF TableLog, s

(* The pair of records of a row, with a last_rid that covers the row and all *)
(* that were logged before.                                                  *)
LEMMA PairTableLog ==
  ASSUME NEW lg \in Seq(Record), \A i \in 1 .. Len(lg) : LinksBack(lg, i), TableLog(lg),
         NEW x \in Txns, NEW k \in DataKinds, NEW p \in Pages, NEW b \in Row, NEW a \in Row,
         NEW tb \in MetaTable, NEW ta \in MetaTable, Working(x, lg),
         \A j \in 1 .. Len(lg) : Tabled(lg, j) => lg[j].after.last_rid <= ta.last_rid,
         k # "delete" => a.id <= ta.last_rid,
         \A i \in 1 .. Len(lg) : lg[i].txn = x => Paired(lg, i),
         NEW s, s = LogTable(LogRow(lg, x, k, p, b, a), x, tb, ta)
  PROVE  /\ TableLog(s) /\ \A i \in 1 .. Len(s) : s[i].txn = x => Paired(s, i)
         /\ Len(s) = Len(lg) + 2 /\ \A i \in 1 .. Len(lg) : s[i] = lg[i]
         /\ s[Len(s)].kind = "update_table" /\ s[Len(s)].after = ta
         /\ \A j \in 1 .. Len(s) : Tabled(s, j) => s[j].after.last_rid <= ta.last_rid
         /\ \A j \in 1 .. Len(s) : s[j].kind # "clr" \/ j \in 1 .. Len(lg)
<1> DEFINE m == LogRow(lg, x, k, p, b, a)
           n == Len(lg)
<1>1. /\ Len(m) = n + 1 /\ n \in Nat /\ m \in Seq(Record)
      /\ \A i \in 1 .. n : m[i] = lg[i]
  BY LogRowExtends, LenProperties DEF Extends
<1>2. m[n + 1].kind = k /\ m[n + 1].txn = x /\ m[n + 1].after = a
  <2> DEFINE r == [kind |-> k, txn |-> x, prev |-> LastLsn(x, lg), page |-> p,
                   before |-> b, after |-> a]
  <2>1. m = Append(lg, r)
    BY DEF LogRow
  <2>2. m[n + 1] = r
    BY <2>1, AppendProperties, LenProperties
  <2>. QED BY <2>2
<1>. HIDE DEF m
<1>3. /\ Len(s) = Len(m) + 1 /\ s[Len(m) + 1].kind = "update_table"
      /\ s[Len(m) + 1].txn = x /\ s[Len(m) + 1].after = ta
      /\ \A i \in 1 .. Len(m) : s[i] = m[i]
  <2> DEFINE r == [kind |-> "update_table", txn |-> x, prev |-> LastLsn(x, m),
                   before |-> tb, after |-> ta]
  <2>1. s = Append(m, r)
    BY DEF LogTable, m
  <2>2. s[Len(m) + 1] = r /\ Len(s) = Len(m) + 1 /\ \A i \in 1 .. Len(m) : s[i] = m[i]
    BY <1>1, <2>1, AppendProperties, LenProperties
  <2>. QED BY <2>2
<1>4. /\ Len(s) = n + 2 /\ \A i \in 1 .. n : s[i] = lg[i]
      /\ s[n + 1].kind = k /\ s[n + 1].txn = x /\ s[n + 1].after = a
      /\ s[n + 2].kind = "update_table" /\ s[n + 2].txn = x /\ s[n + 2].after = ta
  BY <1>1, <1>2, <1>3
<1>5. \A i \in 1 .. Len(s) : i \in 1 .. n \/ i = n + 1 \/ i = n + 2
  BY <1>1, <1>4
<1>6. k \notin {"commit", "rollback", "update_table", "clr"}
  BY DEF DataKinds
<1>7. ASSUME NEW i \in 1 .. n, Paired(lg, i) PROVE Paired(s, i)
  <2>1. i < n => i + 1 \in 1 .. n /\ i < Len(s)
    BY <1>1, <1>4
  <2>. QED BY <1>4, <1>7, <2>1 DEF Paired, Tabled
<1>8. Paired(s, n + 1) /\ Paired(s, n + 2)
  <2>1. n + 1 < Len(s) /\ (n + 1) + 1 = n + 2
    BY <1>1, <1>4
  <2>2. k \in {"insert", "update"} => a.id <= ta.last_rid
    OBVIOUS
  <2>. QED BY <1>4, <2>1, <2>2 DEF Paired, Tabled
<1>9. ASSUME NEW i \in 1 .. Len(s), Committed(s, s[i].txn) PROVE Paired(s, i)
  <2>1. CASE i \in 1 .. n
    <3>1. Committed(lg, lg[i].txn)
      BY <1>4, <1>5, <1>6, <1>9, <2>1 DEF Committed
    <3>. QED BY <1>7, <2>1, <3>1 DEF TableLog
  <2>. QED BY <1>5, <1>8, <2>1
<1>10. \A i \in 1 .. Len(s) : s[i].txn = x => Paired(s, i)
  BY <1>4, <1>5, <1>7, <1>8
<1>11. \A j \in 1 .. Len(s) : Tabled(s, j) => (j \in 1 .. n /\ Tabled(lg, j)) \/ j = n + 2
  BY <1>4, <1>5, <1>6 DEF Tabled
<1>12. ta.last_rid \in Nat
  BY DEF MetaTable
<1>13. \A j \in 1 .. Len(s) : Tabled(s, j) => s[j].after.last_rid <= ta.last_rid
  BY <1>4, <1>11, <1>12
<1>14. ASSUME NEW i \in 1 .. Len(s), NEW j \in 1 .. Len(s), i < j, Tabled(s, i), Tabled(s, j)
       PROVE  s[i].after.last_rid <= s[j].after.last_rid
  <2>1. CASE j = n + 2
    BY <1>4, <1>13, <1>14, <2>1
  <2>2. CASE j \in 1 .. n /\ Tabled(lg, j)
    <3>1. i \in 1 .. n
      BY <1>1, <1>14, <2>2
    <3>. QED BY <1>4, <1>14, <2>2, <3>1 DEF TableLog, Tabled
  <2>. QED BY <1>11, <1>14, <2>1, <2>2
<1>15. ASSUME NEW i \in 1 .. Len(s), NEW j \in 1 .. Len(s), s[i].kind = "rollback", Tabled(s, j)
       PROVE  s[i].txn # s[j].txn
  <2>1. i \in 1 .. n /\ lg[i].kind = "rollback" /\ s[i] = lg[i]
    BY <1>4, <1>5, <1>6, <1>15
  <2>2. CASE j = n + 2
    BY <1>4, <2>1, <2>2 DEF Working
  <2>3. CASE j \in 1 .. n /\ Tabled(lg, j)
    BY <1>4, <2>1, <2>3 DEF TableLog
  <2>. QED BY <1>11, <1>15, <2>2, <2>3
<1>16. \A j \in 1 .. Len(s) : s[j].kind # "clr" \/ j \in 1 .. n
  BY <1>4, <1>5, <1>6
<1>17. TableLog(s)
  BY <1>9, <1>14, <1>15 DEF TableLog
<1>. QED BY <1>1, <1>4, <1>10, <1>13, <1>16, <1>17

(* What a crash keeps of the log: a commit record comes after the pairs of   *)
(* its transaction.                                                          *)
LEMMA PrefixTableLog ==
  ASSUME NEW lg \in Seq(Record), LogInv(lg), TableLog(lg), NEW k \in 0 .. Len(lg)
  PROVE  TableLog(SubSeq(lg, 1, k))
<1> DEFINE s == SubSeq(lg, 1, k)
<1>1. Len(lg) \in Nat /\ Len(s) = k /\ \A i \in 1 .. k : s[i] = lg[i]
  BY LenProperties, SubSeqProperties
<1>. HIDE DEF s
<1>2. \A i \in 1 .. k : i \in 1 .. Len(lg)
  BY <1>1
<1>3. ASSUME NEW i \in 1 .. k, Committed(s, s[i].txn) PROVE Paired(s, i)
  <2>1. PICK c \in 1 .. k : lg[c].kind = "commit" /\ lg[c].txn = lg[i].txn
    BY <1>1, <1>3 DEF Committed
  <2>2. Paired(lg, i)
    BY <1>2, <2>1 DEF TableLog, Committed
  <2>3. CASE c < i
    BY <1>2, <2>1, <2>3 DEF LogInv, Follows
  <2>4. CASE c = i
    BY <1>1, <2>1, <2>4 DEF Paired
  <2>5. CASE i < c
    <3>1. i + 1 \in 1 .. k /\ i < k
      BY <2>5
    <3>. QED BY <1>1, <2>2, <3>1 DEF Paired, Tabled
  <2>. QED BY <2>3, <2>4, <2>5
<1>4. ASSUME NEW i \in 1 .. k, NEW j \in 1 .. k, i < j, Tabled(s, i), Tabled(s, j)
      PROVE  s[i].after.last_rid <= s[j].after.last_rid
  BY <1>1, <1>2, <1>4 DEF TableLog, Tabled
<1>5. ASSUME NEW i \in 1 .. k, NEW j \in 1 .. k, s[i].kind = "rollback", Tabled(s, j)
      PROVE  s[i].txn # s[j].txn
  BY <1>1, <1>2, <1>5 DEF TableLog, Tabled
<1>. QED BY <1>1, <1>3, <1>4, <1>5 DEF TableLog, s

-----------------------------------------------------------------------------
(* Rows of pages                                                             *)

(* The log grows, and with it its durable part.                              *)
Grows ==
  /\ Len(log) <= Len(log') /\ \A i \in 1 .. Len(log) : log'[i] = log[i]
  /\ durable <= durable'

(* Every row of c has an id that a row of the table had, or one that the     *)
(* table's counter has passed.                                               *)
IdsOf(c) == UNION {{c[p].rows[i].id : i \in DOMAIN c[p].rows} : p \in DOMAIN c}
NoNewIds(c) == IdsOf(c) \subseteq IdsOf(get_table_data)
IdsPassed(c) == \A id \in IdsOf(c) : id \in IdsOf(get_table_data) \/ id <= mt'.last_rid

(* Members of IdsOf.                                                         *)
LEMMA IdsIn ==
  ASSUME NEW c, NEW p \in DOMAIN c, NEW i \in DOMAIN c[p].rows
  PROVE  c[p].rows[i].id \in IdsOf(c)
BY DEF IdsOf

(* Rows that are covered stay so.                                            *)
LEMMA CoveredGrows ==
  ASSUME NEW id, NEW n \in Nat, NEW m \in Nat, n <= m, n <= Len(log),
         Len(log) \in Nat, \A i \in 1 .. Len(log) : log'[i] = log[i],
         Covered(id, log, n)
  PROVE  Covered(id, log', m)
<1>1. PICK j \in 1 .. n : Tabled(log, j) /\ id <= log[j].after.last_rid
  BY DEF Covered
<1>2. j \in 1 .. Len(log) /\ j \in 1 .. m
  OBVIOUS
<1>. QED BY <1>1, <1>2 DEF Covered, Tabled

(* The rows of the table are covered by the log.                             *)
LEMMA TableCovered ==
  ASSUME TypeInv, RowInv, NEW id \in IdsOf(get_table_data)
  PROVE  Covered(id, log, Len(log))
<1>1. PICK p \in DOMAIN get_table_data : \E i \in DOMAIN get_table_data[p].rows :
        id = get_table_data[p].rows[i].id
  BY DEF IdsOf
<1>2. \/ p \in DOMAIN cache /\ get_table_data[p] = cache[p]
      \/ p \in DOMAIN disk /\ get_table_data[p] = disk[p]
  BY TableDataType DEF TypeInv, TypeOK, PageMap
<1>3. Covered(id, log, Len(log)) \/ Covered(id, log, durable)
  BY <1>1, <1>2 DEF RowInv, RowsCovered
<1>4. durable \in 0 .. Len(log) /\ Len(log) \in Nat
  BY LenProperties DEF TypeInv, TypeOK
<1>. QED BY <1>3, <1>4 DEF Covered

(* The invariant of the rows when the log grows and no row appears in a file.*)
LEMMA RowsStay ==
  ASSUME TypeInv, TypeInv', RowInv, Grows,
         \A p \in DOMAIN disk' : p \in DOMAIN disk /\ disk'[p].rows = disk[p].rows,
         \A id \in IdsOf(cache') : Covered(id, log, Len(log)) \/ Covered(id, log', Len(log'))
  PROVE  RowInv'
<1>1. /\ durable \in Nat /\ durable' \in Nat /\ durable <= Len(log)
      /\ Len(log) \in Nat /\ Len(log') \in Nat
  BY LenProperties DEF TypeInv, TypeOK
<1>2. ASSUME NEW p \in DOMAIN disk', NEW i \in DOMAIN disk'[p].rows
      PROVE  Covered(disk'[p].rows[i].id, log', durable')
  <2>1. Covered(disk'[p].rows[i].id, log, durable)
    BY <1>2 DEF RowInv, RowsCovered
  <2>. QED BY <1>1, <2>1, CoveredGrows DEF Grows
<1>3. ASSUME NEW p \in DOMAIN cache', NEW i \in DOMAIN cache'[p].rows
      PROVE  Covered(cache'[p].rows[i].id, log', Len(log'))
  <2>1. cache'[p].rows[i].id \in IdsOf(cache')
    BY IdsIn
  <2>. QED BY <1>1, <2>1, CoveredGrows DEF Grows
<1>. QED BY <1>2, <1>3 DEF RowInv, RowsCovered

(* The same for steps that leave the cache alone.                            *)
LEMMA PagesStay ==
  ASSUME TypeInv, TypeInv', RowInv, Grows, UNCHANGED <<disk, cache>> PROVE RowInv'
<1>1. ASSUME NEW id \in IdsOf(cache') PROVE Covered(id, log, Len(log))
  BY <1>1 DEF IdsOf, RowInv, RowsCovered
<1>. QED BY <1>1, RowsStay

(* prepare_dp, and linking a new page, change no rows.                       *)
LEMMA PreparedRows ==
  ASSUME TypeInv, NEW p \in Pages, MayPrepare(p) PROVE NoNewIds(PrepareDp(p).cache)
<1> DEFINE c == get_table_data
           q == pages[TailPos(c)]
<1>1. PageMap(c) /\ pages \in Seq(Pages)
  BY TableDataType DEF TypeInv, TypeOK, PageMap
<1>2. NewPage \in Page /\ NewPage.rows = << >>
  BY DEF NewPage, Page
<1>3. ASSUME NEW e, PageMap(e), DOMAIN e = DOMAIN c, \A s \in DOMAIN c : e[s].rows = c[s].rows
      PROVE  IdsOf(Put(e, p, NewPage)) \subseteq IdsOf(c)
  <2>. HIDE DEF c, q
  <2>1. /\ DOMAIN Put(e, p, NewPage) = DOMAIN e \union {p}
        /\ Put(e, p, NewPage)[p] = NewPage
        /\ \A s \in DOMAIN e \ {p} : Put(e, p, NewPage)[s] = e[s]
    BY DEF Put
  <2>2. \A s \in DOMAIN Put(e, p, NewPage) : \A i \in DOMAIN Put(e, p, NewPage)[s].rows :
          s \in DOMAIN c /\ Put(e, p, NewPage)[s].rows = c[s].rows
    BY <1>2, <1>3, <2>1
  <2>. QED BY <2>2 DEF IdsOf
<1>4. CASE WithRoom(c) # {}
  BY <1>4 DEF PrepareDp, NoNewIds
<1>5. CASE WithRoom(c) = {} /\ Tails(c) = {}
  <2>1. PrepareDp(p).cache = Put(c, p, NewPage)
    BY <1>5 DEF PrepareDp
  <2>. QED BY <1>1, <1>3, <2>1 DEF NoNewIds
<1>6. CASE WithRoom(c) = {} /\ Tails(c) # {}
  <2> DEFINE e == [c EXCEPT ![q].next = p]
  <2>1. PrepareDp(p).cache = Put(e, p, NewPage)
    BY <1>6 DEF PrepareDp
  <2>. HIDE DEF c
  <2>2. q \in DOMAIN c
    BY <1>1, <1>6, TailPosIn DEF Tails, Loaded
  <2>. HIDE DEF q
  <2>3. PageMap(e) /\ DOMAIN e = DOMAIN c /\ \A s \in DOMAIN c : e[s].rows = c[s].rows
    BY <1>1, <2>2 DEF PageMap, Page
  <2>. HIDE DEF e
  <2>. QED BY <1>3, <2>1, <2>3 DEF NoNewIds, c
<1>. QED BY <1>4, <1>5, <1>6

(* The rows of one page change.                                              *)
LEMMA OnePage ==
  ASSUME NEW c, NEW p \in DOMAIN c, NEW pg, NEW J, \A id \in IdsOf(c) : id \in J,
         \A i \in DOMAIN pg.rows : pg.rows[i].id \in J
  PROVE  \A id \in IdsOf([c EXCEPT ![p] = pg]) : id \in J
<1> DEFINE e == [c EXCEPT ![p] = pg]
<1>1. DOMAIN e = DOMAIN c /\ e[p] = pg /\ \A q \in DOMAIN c \ {p} : e[q] = c[q]
  OBVIOUS
<1>. HIDE DEF e
<1>2. ASSUME NEW q \in DOMAIN e, NEW i \in DOMAIN e[q].rows PROVE e[q].rows[i].id \in J
  <2>1. CASE q = p
    BY <1>1, <1>2, <2>1
  <2>2. CASE q # p
    <3>1. q \in DOMAIN c /\ e[q] = c[q]
      BY <1>1, <2>2
    <3>. QED BY <1>2, <3>1, IdsIn
  <2>. QED BY <2>1, <2>2
<1>3. \A id \in IdsOf(e) : id \in J
  BY <1>2 DEF IdsOf
<1>. QED BY <1>3 DEF e

(* update_row and delete_rows leave the ids of a page and add one that the   *)
(* counter has passed.                                                       *)
LEMMA UpdateIds ==
  ASSUME TypeInv, NEW t \in todo, NEW v \in Vals, NEW lost \in BOOLEAN,
         mt'.last_rid = mt.last_rid + 1,
         NEW i \in DOMAIN PageAfterUpdate(t, v, lost).rows
  PROVE  \/ PageAfterUpdate(t, v, lost).rows[i].id \in IdsOf(cache)
         \/ PageAfterUpdate(t, v, lost).rows[i].id <= mt'.last_rid
<1> DEFINE pg == cache[t[1]]
           marked == [pg.rows EXCEPT ![t[2]].obsolete = ~lost]
           row == NewVersion(t, v)
<1>1. /\ t[1] \in DOMAIN cache /\ pg \in Page /\ pg.rows \in Seq(Row)
      /\ t[2] \in DOMAIN pg.rows /\ mt.last_rid \in Nat
  BY DEF TypeInv, TypeOK, Page, MetaTable
<1>2. \A j \in DOMAIN pg.rows : pg.rows[j] \in Row
  BY <1>1, LenProperties, ElementOfSeq
<1>3. PageAfterUpdate(t, v, lost).rows = Append(marked, row)
  <2>1. PageAfterUpdate(t, v, lost)
          = [pg EXCEPT !.rows = RowsAfterUpdate(t, v, lost), !.max_rid = MaxRidAfterUpdate(t)]
    BY DEF PageAfterUpdate
  <2>2. PageAfterUpdate(t, v, lost).rows = RowsAfterUpdate(t, v, lost)
    <3>. HIDE DEF pg
    <3>. QED BY <1>1, <2>1 DEF Page
  <2>. QED BY <2>2 DEF RowsAfterUpdate
<1>4. row.id = mt.last_rid + 1
  <2>1. RowAt(cache, t) \in Row
    BY <1>2, <1>1 DEF RowAt
  <2>. QED BY <2>1 DEF NewVersion, Row
<1>5. marked \in Seq(Row)
  <2>1. [pg.rows[t[2]] EXCEPT !.obsolete = ~lost] \in Row
    BY <1>1, <1>2 DEF Row
  <2>2. marked = [pg.rows EXCEPT ![t[2]] = [pg.rows[t[2]] EXCEPT !.obsolete = ~lost]]
    OBVIOUS
  <2>. QED BY <1>1, <2>1, <2>2, ExceptSeq
<1>6. DOMAIN marked = DOMAIN pg.rows /\ \A j \in DOMAIN pg.rows : marked[j].id = pg.rows[j].id
  BY <1>1, <1>2 DEF Row
<1>7. row \in Row
  BY PageAfterUpdateType
<1>. HIDE DEF pg, marked, row
<1>8. /\ Len(Append(marked, row)) = Len(marked) + 1 /\ Append(marked, row)[Len(marked) + 1] = row
      /\ \A j \in 1 .. Len(marked) : Append(marked, row)[j] = marked[j]
      /\ DOMAIN Append(marked, row) = 1 .. Len(marked) + 1
      /\ DOMAIN marked = 1 .. Len(marked) /\ Len(marked) \in Nat
  BY <1>5, <1>7, AppendProperties, LenProperties
<1>9. CASE i = Len(marked) + 1
  BY <1>1, <1>3, <1>4, <1>8, <1>9
<1>10. CASE i \in 1 .. Len(marked)
  <2>1. i \in DOMAIN pg.rows /\ PageAfterUpdate(t, v, lost).rows[i].id = pg.rows[i].id
    BY <1>3, <1>6, <1>8, <1>10
  <2>. QED BY <1>1, <2>1, IdsIn DEF pg
<1>. QED BY <1>3, <1>8, <1>9, <1>10

(* The ids after a row of an INSERT, UPDATE or DELETE.                       *)
LEMMA RowWorkIds ==
  ASSUME TypeInv, RowWork PROVE IdsPassed(cache') /\ UNCHANGED <<durable, disk>>
<1> DEFINE J == {id \in IdsOf(get_table_data) \union Nat :
                   id \in IdsOf(get_table_data) \/ id <= mt'.last_rid}
<1>1. \A id \in IdsOf(cache) : id \in J
  <2>1. ASSUME NEW p \in DOMAIN cache, NEW i \in DOMAIN cache[p].rows
        PROVE  cache[p].rows[i].id \in IdsOf(get_table_data)
    <3>1. p \in DOMAIN get_table_data /\ get_table_data[p] = cache[p]
      BY TableDataType DEF TypeInv, TypeOK, PageMap
    <3>. QED BY <3>1, IdsIn
  <2>. QED BY <2>1 DEF IdsOf
<1>2. mt \in MetaTable /\ mt.last_rid \in Nat
  BY DEF TypeInv, TypeOK, MetaTable
<1>3. ASSUME NEW v \in Vals, InsertRow(v) PROVE \A id \in IdsOf(cache') : id \in J
  <2> DEFINE row == [id |-> mt.last_rid, val |-> v, obsolete |-> FALSE]
  <2>1. PICK p \in Pages :
          /\ MayPrepare(p)
          /\ cache' = [PrepareDp(p).cache EXCEPT
                         ![p] = WithRows(@, Append(@.rows, row), Len(log'))]
    BY <1>3 DEF InsertRow
  <2> DEFINE d == PrepareDp(p).cache
             new == WithRows(d[p], Append(d[p].rows, row), Len(log'))
  <2>2. p \in DOMAIN d /\ d[p] \in Page /\ d[p].rows \in Seq(Row)
    BY <2>1, PrepareDpType DEF TypeInv, TypeOK, PageMap, Page
  <2>3. \A id \in IdsOf(d) : id \in J
    BY <2>1, PreparedRows DEF NoNewIds
  <2>4. row \in Row /\ row.id = mt.last_rid /\ mt'.last_rid = mt.last_rid + 1
    BY <1>2, <1>3 DEF InsertRow, TableAfterInsert, MetaTable, Row
  <2>5. cache' = [d EXCEPT ![p] = new]
    BY <2>1
  <2>. HIDE DEF row, d
  <2>6. new.rows = Append(d[p].rows, row)
    BY <2>2 DEF WithRows, Page
  <2>. HIDE DEF new
  <2>7. ASSUME NEW i \in DOMAIN new.rows PROVE new.rows[i].id \in J
    <3>1. /\ DOMAIN new.rows = 1 .. Len(d[p].rows) + 1
          /\ new.rows[Len(d[p].rows) + 1] = row
          /\ \A j \in 1 .. Len(d[p].rows) : new.rows[j] = d[p].rows[j]
          /\ DOMAIN d[p].rows = 1 .. Len(d[p].rows) /\ Len(d[p].rows) \in Nat
      BY <2>2, <2>4, <2>6, AppendProperties, LenProperties
    <3>2. CASE i = Len(d[p].rows) + 1
      BY <1>2, <2>4, <3>1, <3>2
    <3>3. CASE i \in 1 .. Len(d[p].rows)
      <4>1. new.rows[i].id \in IdsOf(d)
        BY <2>2, <3>1, <3>3, IdsIn
      <4>. QED BY <2>3, <4>1
    <3>. QED BY <3>1, <3>2, <3>3
  <2>. HIDE DEF J
  <2>. QED BY <2>2, <2>3, <2>5, <2>7, OnePage
<1>4. ASSUME NEW t \in todo, NEW v \in Vals, UpdateRow(t, v) \/ UpdateThrows(t, v)
      PROVE  \A id \in IdsOf(cache') : id \in J
  <2>1. PICK lost \in MayLose(t) : \E n \in Nat :
          LET pg == PageAfterUpdate(t, v, lost)
          IN  \E s \in {pg, [pg EXCEPT !.last_lsn = n]} : cache' = [cache EXCEPT ![t[1]] = s]
    <3>1. Len(log) + 1 \in Nat
      BY LenProperties DEF TypeInv, TypeOK
    <3>. QED BY <1>4, <3>1 DEF UpdateRow, UpdateThrows
  <2> DEFINE pg == PageAfterUpdate(t, v, lost)
  <2>2. PICK n \in Nat : \E s \in {pg, [pg EXCEPT !.last_lsn = n]} :
          cache' = [cache EXCEPT ![t[1]] = s]
    BY <2>1
  <2>3. PICK s \in {pg, [pg EXCEPT !.last_lsn = n]} : cache' = [cache EXCEPT ![t[1]] = s]
    BY <2>2
  <2>4. lost \in BOOLEAN /\ t[1] \in DOMAIN cache
    BY DEF MayLose, TypeInv, TypeOK
  <2>5. pg \in Page
    BY <2>4, PageAfterUpdateType
  <2>6. mt'.last_rid = mt.last_rid + 1
    BY <1>2, <1>4 DEF UpdateRow, UpdateThrows, MetaTable
  <2>7. \A i \in DOMAIN pg.rows : pg.rows[i].id \in IdsOf(cache) \/ pg.rows[i].id <= mt'.last_rid
    BY <2>4, <2>6, UpdateIds
  <2>. HIDE DEF pg
  <2>8. s.rows = pg.rows /\ \A i \in DOMAIN pg.rows : pg.rows[i].id \in Nat
    <3>1. s.rows = pg.rows
      BY <2>3, <2>5, StampType
    <3>2. pg.rows \in Seq(Row)
      BY <2>5 DEF Page
    <3>3. \A i \in DOMAIN pg.rows : pg.rows[i] \in Row
      BY <3>2, LenProperties, ElementOfSeq
    <3>. QED BY <3>1, <3>3 DEF Row
  <2>9. \A i \in DOMAIN s.rows : s.rows[i].id \in J
    BY <1>1, <2>7, <2>8
  <2>. HIDE DEF J
  <2>. QED BY <1>1, <2>3, <2>4, <2>9, OnePage
<1>5. ASSUME NEW t \in todo, DeleteRow(t) PROVE \A id \in IdsOf(cache') : id \in J
  <2> DEFINE row == OldVersion(t)
             rows == [cache[t[1]].rows EXCEPT ![t[2]] = row]
             pg == [cache[t[1]] EXCEPT !.rows[t[2]] = row]
             s == IF PageDone(t) THEN [pg EXCEPT !.last_lsn = Len(log) + 1] ELSE pg
  <2>1. /\ cache[t[1]] \in Page /\ cache[t[1]].rows \in Seq(Row) /\ t[1] \in DOMAIN cache
        /\ t[2] \in DOMAIN cache[t[1]].rows
    BY DEF TypeInv, TypeOK, Page
  <2>2. cache' = [cache EXCEPT ![t[1]] = s]
    BY <1>5 DEF DeleteRow
  <2>3. row.id = cache[t[1]].rows[t[2]].id
    <3>1. cache[t[1]].rows[t[2]] \in Row
      BY <2>1, LenProperties, ElementOfSeq
    <3>. QED BY <3>1 DEF OldVersion, RowAt, Row
  <2>. HIDE DEF row
  <2>4. s.rows = rows
    <3>1. pg = [cache[t[1]] EXCEPT !.rows = rows]
      OBVIOUS
    <3>. HIDE DEF rows, pg
    <3>2. pg.rows = rows /\ DOMAIN pg = DOMAIN cache[t[1]]
      BY <2>1, <3>1 DEF Page
    <3>3. [pg EXCEPT !.last_lsn = Len(log) + 1].rows = pg.rows
      BY <2>1, <3>1 DEF Page
    <3>. QED BY <3>2, <3>3
  <2>5. \A i \in DOMAIN s.rows : i \in DOMAIN cache[t[1]].rows /\ s.rows[i].id = cache[t[1]].rows[i].id
    BY <2>1, <2>3, <2>4
  <2>. HIDE DEF s, J
  <2>6. \A i \in DOMAIN s.rows : s.rows[i].id \in J
    BY <1>1, <2>1, <2>5, IdsIn
  <2>. QED BY <1>1, <2>1, <2>2, <2>6, OnePage
<1>6. \A id \in IdsOf(cache') : id \in J
  BY <1>3, <1>4, <1>5 DEF RowWork
<1>7. UNCHANGED <<durable, disk>>
  BY DEF RowWork, InsertRow, UpdateRow, UpdateThrows, DeleteRow
<1>. QED BY <1>6, <1>7 DEF IdsPassed

-----------------------------------------------------------------------------
(* Steps                                                                     *)

(* Markers that a statement or UNDO appends.                                 *)
Marks(r) == log' = Append(log, r) /\ r \in Record /\ r.kind \in {"begin", "commit", "rollback"}

(* What such a step leaves.                                                  *)
LEMMA MarkStep ==
  ASSUME TypeInv, TypeInv', ClrInv, NEW r, Marks(r), durable <= durable'
  PROVE  /\ Grows /\ Len(log') = Len(log) + 1 /\ log'[Len(log) + 1] = r /\ Len(log) \in Nat
         /\ \A j \in 1 .. Len(log') : Tabled(log', j) => j \in 1 .. Len(log) /\ Tabled(log, j)
         /\ ClrInv' /\ (NoClr(log') => NoClr(log))
<1>1. /\ Len(log') = Len(log) + 1 /\ Len(log) \in Nat /\ durable \in Nat /\ durable' \in Nat
      /\ \A i \in 1 .. Len(log) : log'[i] = log[i]
      /\ log'[Len(log) + 1] = r
  BY AppendProperties, LenProperties DEF Marks, TypeInv, TypeOK
<1>2. \A i \in 1 .. Len(log') : i \in 1 .. Len(log) \/ i = Len(log) + 1
  BY <1>1
<1>3. \A j \in 1 .. Len(log') : Tabled(log', j) => j \in 1 .. Len(log) /\ Tabled(log, j)
  BY <1>1, <1>2 DEF Tabled, Marks
<1>4. ASSUME NEW i \in 1 .. Len(log'), log'[i].kind = "clr" PROVE i <= durable'
  <2>1. i \in 1 .. Len(log) /\ log[i].kind = "clr"
    BY <1>1, <1>2, <1>4 DEF Marks
  <2>2. i <= durable
    BY <2>1 DEF ClrInv
  <2>. QED BY <1>1, <2>1, <2>2
<1>5. NoClr(log') => NoClr(log)
  BY <1>1 DEF NoClr
<1>. QED BY <1>1, <1>3, <1>4, <1>5 DEF Grows, ClrInv

(* Appending a marker commits nobody but the owner of a commit record.       *)
LEMMA MarkCommits ==
  ASSUME TypeInv, TypeInv', ClrInv, NEW r, Marks(r), durable <= durable', NEW x,
         r.kind = "commit" => r.txn # x
  PROVE  Committed(log', x) = Committed(log, x)
<1>1. /\ Grows /\ Len(log') = Len(log) + 1 /\ log'[Len(log) + 1] = r /\ Len(log) \in Nat
  BY MarkStep
<1>2. \A i \in 1 .. Len(log') : i \in 1 .. Len(log) \/ i = Len(log) + 1
  BY <1>1
<1>. QED BY <1>1, <1>2 DEF Committed, Grows

(* A statement begins.                                                       *)
LEMMA BeginRid ==
  ASSUME TypeInv, TypeInv', RidInv,
         \E x \in Txns : BeginInsert(x) \/ \E kind \in {"update", "delete"} : BeginOnRows(x, kind)
  PROVE  RidInv'
<1>1. PICK x \in Txns :
        /\ log' = LogMark(log, x, "begin") /\ txn' = x
        /\ \A i \in DOMAIN log : log[i].txn # x
        /\ phase = "idle" /\ phase' \in InStatement /\ UNCHANGED <<durable, disk, mt>>
        /\ cache' = cache \/ cache' = get_table_data
  BY DEF BeginInsert, BeginOnRows, InStatement, memory
<1> DEFINE r == [kind |-> "begin", txn |-> x, prev |-> LastLsn(x, log)]
<1>2. Marks(r) /\ r.kind = "begin" /\ r.txn = x /\ log \in Seq(Record)
  <2>1. log \in Seq(Record) /\ LastLsn(x, log) \in Nat
    BY LastLsnType, LenProperties DEF TypeInv, TypeOK
  <2>. QED BY <1>1, <2>1 DEF Marks, LogMark, Record
<1>. HIDE DEF r
<1>3. /\ Grows /\ Len(log') = Len(log) + 1 /\ log'[Len(log) + 1] = r /\ Len(log) \in Nat
      /\ \A j \in 1 .. Len(log') : Tabled(log', j) => j \in 1 .. Len(log) /\ Tabled(log, j)
      /\ ClrInv' /\ (NoClr(log') => NoClr(log))
  <2>1. ClrInv /\ durable <= durable'
    BY <1>1, LenProperties DEF RidInv, TypeInv, TypeOK
  <2>. QED BY <1>2, <2>1, MarkStep
<1>4. SUFFICES ASSUME NoClr(log), TableLog(log), MetaInv, RowInv
               PROVE  TableLog(log') /\ MetaInv' /\ RowInv'
  BY <1>3 DEF RidInv
<1>5. TableLog(log')
  BY <1>2, <1>4, MarkTableLog DEF Marks
<1>6. \A i \in 1 .. Len(log') : log'[i].txn = txn' => Paired(log', i)
  <2>1. \A i \in 1 .. Len(log) : log[i].txn # x
    BY <1>1, LenProperties DEF TypeInv, TypeOK
  <2>2. \A i \in 1 .. Len(log') : i \in 1 .. Len(log) \/ i = Len(log) + 1
    BY <1>3
  <2>3. Paired(log', Len(log) + 1)
    BY <1>2, <1>3 DEF Paired
  <2>. QED BY <1>1, <1>3, <2>1, <2>2, <2>3 DEF Grows
<1>7. \A j \in 1 .. Len(log') : Tabled(log', j) => log'[j].after.last_rid <= mt'.last_rid
  BY <1>1, <1>3, <1>4 DEF MetaInv, InRecovery, Grows
<1>8. MetaInv'
  BY <1>1, <1>6, <1>7 DEF MetaInv, InRecovery, InStatement
<1>9. RowInv'
  <2>1. CASE cache' = cache
    BY <1>1, <1>3, <1>4, <2>1, PagesStay
  <2>2. CASE cache' = get_table_data
    BY <1>1, <1>3, <1>4, <2>2, TableCovered, RowsStay
  <2>. QED BY <1>1, <2>1, <2>2
<1>. QED BY <1>5, <1>8, <1>9

(* A row of a statement.                                                     *)
LEMMA RowWorkRid == ASSUME TypeInv, TypeInv', UndoInv, RidInv, RowWork PROVE RidInv'
<1>1. /\ phase \in InStatement /\ txn \in Txns
      /\ phase' \in {phase, "idle"} /\ (phase' = phase => txn' = txn)
  BY RowWorkLogs
<1>2. PICK k \in DataKinds, p \in Pages, b \in Row, a \in Row, tb \in MetaTable :
        /\ log' = LogTable(LogRow(log, txn, k, p, b, a), txn, tb, mt')
        /\ mt' \in MetaTable /\ mt.last_rid <= mt'.last_rid
        /\ k # "delete" => a.id <= mt'.last_rid
  BY RowWorkLogs DEF LogsPair
<1>3. IdsPassed(cache') /\ UNCHANGED <<durable, disk>>
  BY RowWorkIds
<1>4. /\ log \in Seq(Record) /\ \A i \in 1 .. Len(log) : LinksBack(log, i)
      /\ Len(log) \in Nat /\ durable \in Nat /\ mt \in MetaTable /\ Working(txn, log)
  BY <1>1, LenProperties DEF TypeInv, TypeOK, LinkInv, UndoInv, WalkInv
<1>5. /\ Len(log') = Len(log) + 2 /\ \A i \in 1 .. Len(log) : log'[i] = log[i]
      /\ \A i \in 1 .. Len(log') : log'[i].kind = "clr" => i \in 1 .. Len(log)
  <2> DEFINE m == LogRow(log, txn, k, p, b, a)
  <2>1. /\ m = Append(log, m[Len(log) + 1]) /\ Len(m) = Len(log) + 1
        /\ m[Len(log) + 1].kind = k /\ m \in Seq(Record)
        /\ \A i \in 1 .. Len(log) : m[i] = log[i]
    <3> DEFINE r == [kind |-> k, txn |-> txn, prev |-> LastLsn(txn, log), page |-> p,
                     before |-> b, after |-> a]
    <3>1. m = Append(log, r) /\ r.kind = k
      BY DEF LogRow
    <3>2. Len(m) = Len(log) + 1 /\ m \in Seq(Record) /\ \A i \in 1 .. Len(log) : m[i] = log[i]
      BY <1>1, <1>4, LogRowExtends DEF Extends
    <3>. HIDE DEF r
    <3>3. m[Len(log) + 1] = r
      BY <1>4, <3>1, AppendProperties
    <3>. QED BY <3>1, <3>2, <3>3
  <2>. HIDE DEF m
  <2>2. /\ Len(log') = Len(m) + 1 /\ log'[Len(m) + 1].kind = "update_table"
        /\ \A i \in 1 .. Len(m) : log'[i] = m[i]
    <3> DEFINE r == [kind |-> "update_table", txn |-> txn, prev |-> LastLsn(txn, m),
                     before |-> tb, after |-> mt']
    <3>1. log' = Append(m, r) /\ r.kind = "update_table"
      BY <1>2 DEF LogTable, m
    <3>. HIDE DEF r
    <3>. QED BY <2>1, <3>1, AppendProperties, LenProperties
  <2>3. \A i \in 1 .. Len(log') : i \in 1 .. Len(log) \/ i = Len(log) + 1 \/ i = Len(log) + 2
    BY <1>4, <2>1, <2>2
  <2>. QED BY <1>4, <2>1, <2>2, <2>3 DEF DataKinds
<1>6. Grows
  BY <1>3, <1>4, <1>5 DEF Grows
<1>7. ClrInv' /\ (NoClr(log') => NoClr(log))
  BY <1>3, <1>4, <1>5 DEF RidInv, ClrInv, NoClr
<1>8. SUFFICES ASSUME NoClr(log), TableLog(log), MetaInv, RowInv
               PROVE  TableLog(log') /\ MetaInv' /\ RowInv'
  BY <1>7 DEF RidInv
<1>9. /\ \A j \in 1 .. Len(log) : Tabled(log, j) => log[j].after.last_rid <= mt'.last_rid
      /\ \A i \in 1 .. Len(log) : log[i].txn = txn => Paired(log, i)
  <2>1. \A j \in 1 .. Len(log) : Tabled(log, j) => log[j].after.last_rid <= mt.last_rid
    BY <1>1, <1>8 DEF MetaInv, InStatement, InRecovery
  <2>2. \A j \in 1 .. Len(log) : Tabled(log, j) => log[j].after.last_rid \in Nat
    BY <1>4, RidFields
  <2>3. mt.last_rid \in Nat /\ mt'.last_rid \in Nat
    BY <1>2, <1>4 DEF MetaTable
  <2>. QED BY <1>1, <1>2, <1>8, <2>1, <2>2, <2>3 DEF MetaInv
<1>10. /\ TableLog(log') /\ \A i \in 1 .. Len(log') : log'[i].txn = txn => Paired(log', i)
       /\ log'[Len(log')].kind = "update_table" /\ log'[Len(log')].after = mt'
       /\ \A j \in 1 .. Len(log') : Tabled(log', j) => log'[j].after.last_rid <= mt'.last_rid
  BY <1>1, <1>2, <1>4, <1>8, <1>9, PairTableLog
<1>11. MetaInv'
  BY <1>1, <1>10 DEF MetaInv, InStatement, InRecovery
<1>12. RowInv'
  <2>1. ASSUME NEW id \in IdsOf(cache')
        PROVE  Covered(id, log, Len(log)) \/ Covered(id, log', Len(log'))
    <3>1. CASE id \in IdsOf(get_table_data)
      BY <1>8, <3>1, TableCovered
    <3>2. CASE id <= mt'.last_rid
      <4>1. Len(log') \in 1 .. Len(log')
        BY <1>4, <1>5
      <4>. QED BY <1>10, <3>2, <4>1 DEF Covered, Tabled
    <3>. QED BY <1>3, <3>1, <3>2 DEF IdsPassed
  <2>. QED BY <1>3, <1>6, <1>8, <2>1, RowsStay
<1>. QED BY <1>10, <1>11, <1>12

(* An INSERT fails: only the counters and a new page stay.                   *)
LEMMA InsertThrowsRid == ASSUME TypeInv, TypeInv', RidInv, InsertThrows PROVE RidInv'
<1>1. PICK p \in Pages : MayPrepare(p) /\ cache' = PrepareDp(p).cache
  BY DEF InsertThrows
<1>2. /\ UNCHANGED <<log, durable, disk>> /\ phase = "insert" /\ phase' = "idle"
      /\ mt' = TableAfterInsert
  BY DEF InsertThrows, files
<1>3. Grows /\ Len(log) \in Nat
  BY <1>2, LenProperties DEF Grows, TypeInv, TypeOK
<1>4. SUFFICES ASSUME NoClr(log), TableLog(log), MetaInv, RowInv PROVE MetaInv' /\ RowInv'
  BY <1>2 DEF RidInv, ClrInv, NoClr
<1>5. mt.last_rid \in Nat /\ mt'.last_rid = mt.last_rid + 1
  BY <1>2 DEF TypeInv, TypeOK, TableAfterInsert, MetaTable
<1>6. \A j \in 1 .. Len(log) : Tabled(log, j) =>
        log[j].after.last_rid \in Nat /\ log[j].after.last_rid <= mt.last_rid
  BY <1>2, <1>4, RidFields DEF MetaInv, InRecovery, TypeInv, TypeOK
<1>7. MetaInv'
  BY <1>2, <1>5, <1>6 DEF MetaInv, InStatement, InRecovery, Tabled
<1>8. RowInv'
  <2>1. \A id \in IdsOf(cache') : Covered(id, log, Len(log))
    BY <1>1, <1>4, PreparedRows, TableCovered DEF NoNewIds
  <2>. QED BY <1>2, <1>3, <1>4, <2>1, RowsStay
<1>. QED BY <1>7, <1>8

(* The commit record.                                                        *)
LEMMA CommitRid == ASSUME TypeInv, TypeInv', RidInv, Commit PROVE RidInv'
<1>1. /\ log' = LogMark(log, txn, "commit") /\ phase \in InStatement /\ phase' = "waiting"
      /\ UNCHANGED <<durable, disk, mt, cache>> /\ txn \in Txns
  BY DEF Commit, memory, TypeInv, StmtInv
<1> DEFINE r == [kind |-> "commit", txn |-> txn, prev |-> LastLsn(txn, log)]
<1>2. Marks(r) /\ r.kind = "commit" /\ r.txn = txn /\ log \in Seq(Record)
  <2>1. log \in Seq(Record) /\ LastLsn(txn, log) \in Nat
    BY LastLsnType, LenProperties DEF TypeInv, TypeOK
  <2>. QED BY <1>1, <2>1 DEF Marks, LogMark, Record
<1>. HIDE DEF r
<1>3. /\ Grows /\ ClrInv' /\ (NoClr(log') => NoClr(log))
      /\ \A j \in 1 .. Len(log') : Tabled(log', j) => j \in 1 .. Len(log) /\ Tabled(log, j)
  <2>1. ClrInv /\ durable <= durable'
    BY <1>1, LenProperties DEF RidInv, TypeInv, TypeOK
  <2>. QED BY <1>2, <2>1, MarkStep
<1>4. SUFFICES ASSUME NoClr(log), TableLog(log), MetaInv, RowInv
               PROVE  TableLog(log') /\ MetaInv' /\ RowInv'
  BY <1>3 DEF RidInv
<1>5. TableLog(log')
  <2>1. \A i \in 1 .. Len(log) : log[i].txn = txn => Paired(log, i)
    BY <1>1, <1>4 DEF MetaInv
  <2>. QED BY <1>2, <1>4, <2>1, MarkTableLog DEF Marks
<1>6. MetaInv'
  <2>1. \A j \in 1 .. Len(log') : Tabled(log', j) => log'[j].after.last_rid <= mt'.last_rid
    BY <1>1, <1>3, <1>4 DEF MetaInv, InRecovery, InStatement, Grows
  <2>. QED BY <1>1, <2>1 DEF MetaInv, InRecovery, InStatement
<1>7. RowInv'
  BY <1>1, <1>3, <1>4, PagesStay
<1>. QED BY <1>5, <1>6, <1>7

(* write_page leaves a file with the rows of the page.                       *)
LEMMA WriteRows ==
  ASSUME NEW p, NEW pg \in Page
  PROVE  /\ DOMAIN write_page(p, pg) = DOMAIN disk \union {p}
         /\ write_page(p, pg)[p].rows = pg.rows
         /\ \A q \in DOMAIN disk \ {p} : write_page(p, pg)[q] = disk[q]
<1> DEFINE f == [pg EXCEPT !.size = Len(pg.rows)]
<1>1. f.rows = pg.rows
  BY DEF Page
<1>2. write_page(p, pg) = Put(disk, p, f)
  BY DEF write_page
<1>. HIDE DEF f
<1>. QED BY <1>1, <1>2 DEF Put

(* Flagging a row keeps the ids.                                             *)
LEMMA FlagIds ==
  ASSUME NEW rows \in Seq(Row), NEW id, NEW b
  PROVE  /\ DOMAIN FlagFirst(rows, id, b) = DOMAIN rows
         /\ \A i \in DOMAIN rows : FlagFirst(rows, id, b)[i].id = rows[i].id
<1>1. \A i \in DOMAIN rows : rows[i] \in Row
  BY LenProperties, ElementOfSeq
<1>2. DOMAIN FlagFirst(rows, id, b) = DOMAIN rows
  BY DEF FlagFirst
<1>3. ASSUME NEW i \in DOMAIN rows PROVE FlagFirst(rows, id, b)[i].id = rows[i].id
  <2>1. FlagFirst(rows, id, b)[i] \in {rows[i], [rows[i] EXCEPT !.obsolete = b]}
    BY DEF FlagFirst
  <2>2. [rows[i] EXCEPT !.obsolete = b].id = rows[i].id
    BY <1>1 DEF Row
  <2>. QED BY <2>1, <2>2
<1>. QED BY <1>2, <1>3

(* redo(record, page) adds at most the row that the record creates.          *)
LEMMA RedoIds ==
  ASSUME NEW r \in Record, r.kind \in DataKinds, NEW rows \in Seq(Row),
         NEW i \in DOMAIN RedoRows(r, rows)
  PROVE  \/ i \in DOMAIN rows /\ RedoRows(r, rows)[i].id = rows[i].id
         \/ r.kind \in {"insert", "update"} /\ RedoRows(r, rows)[i].id = r.after.id
<1>1. r.before \in Row /\ r.after \in Row /\ r.before.val \in Vals
  BY RecordFields DEF Row
<1>2. ASSUME NEW s \in Seq(Row), NEW j \in DOMAIN Append(s, r.after)
      PROVE  (j \in DOMAIN s /\ Append(s, r.after)[j] = s[j]) \/ Append(s, r.after)[j] = r.after
  <2>1. /\ DOMAIN Append(s, r.after) = 1 .. Len(s) + 1 /\ DOMAIN s = 1 .. Len(s) /\ Len(s) \in Nat
        /\ Append(s, r.after)[Len(s) + 1] = r.after
        /\ \A k \in 1 .. Len(s) : Append(s, r.after)[k] = s[k]
    BY <1>1, AppendProperties, LenProperties
  <2>2. j \in 1 .. Len(s) \/ j = Len(s) + 1
    BY <2>1
  <2>. QED BY <2>1, <2>2
<1>3. CASE r.kind = "insert"
  <2>1. RedoRows(r, rows) = Append(rows, r.after)
    BY <1>3 DEF RedoRows
  <2>. QED BY <1>2, <1>3, <2>1
<1> DEFINE fl == FlagFirst(rows, r.before.id, TRUE)
<1>4. /\ fl \in Seq(Row) /\ DOMAIN fl = DOMAIN rows
      /\ \A j \in DOMAIN rows : fl[j].id = rows[j].id
  <2>1. \A id : \A b \in BOOLEAN : FlagFirst(rows, id, b) \in Seq(Row)
    BY <1>1, RowsType
  <2>2. \A id, b : /\ DOMAIN FlagFirst(rows, id, b) = DOMAIN rows
                   /\ \A j \in DOMAIN rows : FlagFirst(rows, id, b)[j].id = rows[j].id
    BY FlagIds
  <2>. QED BY <2>1, <2>2
<1>5. CASE r.kind = "update"
  <2>1. RedoRows(r, rows) = Append(fl, r.after)
    BY <1>5 DEF RedoRows
  <2>. HIDE DEF fl
  <2>. QED BY <1>2, <1>4, <1>5, <2>1
<1>6. CASE r.kind = "delete"
  <2>1. RedoRows(r, rows) = fl
    BY <1>6 DEF RedoRows
  <2>. HIDE DEF fl
  <2>. QED BY <1>4, <2>1
<1>. QED BY <1>3, <1>5, <1>6 DEF DataKinds

(* REDO of a record: a row that it brings back is one of a committed         *)
(* transaction, hence covered by the record that follows.                    *)
LEMMA RedoRid == ASSUME TypeInv, TypeInv', LsnInv, UndoInv, RidInv, Redo PROVE RidInv'
<1> DEFINE n == redone + 1
           r == log[n]
<1>1. /\ phase = "redo" /\ RedoRecord(n) /\ redone' = n
      /\ UNCHANGED <<phase, log, durable, mt, cache, txn, active, current>>
  BY DEF Redo, memory, statement
<1>2. /\ n \in 1 .. Len(log) /\ Len(log) \in Nat /\ redone \in Nat /\ DOMAIN log = 1 .. Len(log)
      /\ log \in Seq(Record) /\ r \in Record /\ durable = Len(log) /\ PageMap(disk)
      /\ mt_file \in MetaTable
  <2>1. n \in 1 .. Len(log) /\ Len(log) \in Nat /\ redone \in Nat /\ DOMAIN log = 1 .. Len(log)
    BY LenProperties DEF Redo, TypeInv, TypeOK
  <2>. QED BY <1>1, <2>1, ElementOfSeq DEF TypeInv, TypeOK, PageMap, LsnInv
<1>3. SUFFICES ASSUME NoClr(log), TableLog(log), MetaInv, RowInv PROVE MetaInv' /\ RowInv'
  BY <1>1 DEF RidInv, ClrInv, NoClr
<1>4. r.kind # "clr"
  BY <1>2, <1>3 DEF NoClr
<1>5. \A x : Marked(x, "commit") => Committed(log, x)
  BY <1>2 DEF Marked, Committed
<1>. HIDE DEF n
<1>6. \A j \in 1 .. redone' : j \in 1 .. redone \/ j = n
  BY <1>1, <1>2 DEF n
<1>7. \A j \in 1 .. redone : j \in 1 .. Len(log) /\ j < n
  BY <1>2 DEF n
<1>8. \A j \in 1 .. redone : Tabled(log, j) /\ Committed(log, log[j].txn) =>
        log[j].after.last_rid <= mt_file.last_rid
  BY <1>1, <1>3 DEF MetaInv, InRecovery
<1>9. SUFFICES /\ \A j \in 1 .. redone' : Tabled(log, j) /\ Committed(log, log[j].txn) =>
                    log[j].after.last_rid <= mt_file'.last_rid
               /\ \A p \in DOMAIN disk' : RowsCovered(disk'[p], log, Len(log))
  <2>1. ASSUME \A j \in 1 .. redone' : Tabled(log, j) /\ Committed(log, log[j].txn) =>
                 log[j].after.last_rid <= mt_file'.last_rid
        PROVE  MetaInv'
    BY <1>1, <2>1 DEF MetaInv, InStatement, InRecovery, Tabled, Committed
  <2>2. ASSUME \A p \in DOMAIN disk' : RowsCovered(disk'[p], log, Len(log)) PROVE RowInv'
    BY <1>1, <1>2, <1>3, <2>2 DEF RowInv, RowsCovered, Covered, Tabled
  <2>. QED BY <2>1, <2>2
<1>10. CASE UNCHANGED disk /\ r.kind = "update_table" /\ mt_file' = r.after
  <2>1. \A j \in 1 .. redone : Tabled(log, j) => log[j].after.last_rid <= r.after.last_rid
    BY <1>2, <1>3, <1>7, <1>10 DEF TableLog, Tabled
  <2>2. r.after.last_rid \in Nat
    BY <1>2, <1>10, RidFields DEF Tabled
  <2>. QED BY <1>2, <1>3, <1>6, <1>10, <2>1, <2>2 DEF RowInv
<1>11. CASE UNCHANGED <<disk, mt_file>> /\ (r.kind # "update_table" \/ ~Marked(r.txn, "commit"))
  <2>1. ~(Tabled(log, n) /\ Committed(log, r.txn))
    BY <1>2, <1>11 DEF Tabled, Marked, Committed
  <2>. QED BY <1>2, <1>3, <1>6, <1>8, <1>11, <2>1 DEF RowInv
<1>12. CASE /\ r.kind \in DataKinds /\ Marked(r.txn, "commit")
            /\ RedoData(n, r.page, RedoRows(r, ReadOrCreate(r.page).rows))
  <2> DEFINE p == r.page
             pg == ReadOrCreate(p)
             rows == RedoRows(r, pg.rows)
             new == WithRows(pg, rows, n)
  <2>1. p \in Pages
    BY <1>2, <1>12, RecordFields
  <2>2. pg \in Page /\ pg.rows \in Seq(Row)
    BY <1>2, <2>1 DEF ReadOrCreate, PageMap, NewPage, Page
  <2>3. (p \in DOMAIN disk /\ pg = disk[p]) \/ DOMAIN pg.rows = {}
    BY DEF ReadOrCreate, NewPage
  <2>4. UNCHANGED mt_file /\ (disk' = disk \/ disk' = write_page(p, new))
    BY <1>12 DEF RedoData
  <2>5. Paired(log, n)
    BY <1>2, <1>3, <1>5, <1>12 DEF TableLog
  <2>. HIDE DEF p, pg, r
  <2>6. rows \in Seq(Row)
    BY <1>2, <1>12, <2>2, RecoveredRowsType
  <2>7. ASSUME NEW i \in DOMAIN rows PROVE Covered(rows[i].id, log, Len(log))
    <3>1. CASE i \in DOMAIN pg.rows /\ rows[i].id = pg.rows[i].id
      BY <1>2, <1>3, <2>3, <3>1 DEF RowInv, RowsCovered
    <3>2. CASE r.kind \in {"insert", "update"} /\ rows[i].id = r.after.id
      <4>1. n + 1 \in 1 .. Len(log) /\ Tabled(log, n + 1) /\ r.after.id <= log[n + 1].after.last_rid
        BY <1>2, <2>5, <3>2 DEF Paired, r
      <4>. QED BY <3>2, <4>1 DEF Covered
    <3>. QED BY <1>2, <1>12, <2>2, <2>7, <3>1, <3>2, RedoIds
  <2>. HIDE DEF rows
  <2>8. new \in Page /\ new.rows = rows
    BY <1>2, <2>2, <2>6, PageExcept
  <2>. HIDE DEF new
  <2>9. ASSUME NEW q \in DOMAIN disk', disk' = write_page(p, new)
        PROVE  RowsCovered(disk'[q], log, Len(log))
    <3>1. /\ disk'[p].rows = rows /\ DOMAIN disk' = DOMAIN disk \union {p}
          /\ \A s \in DOMAIN disk \ {p} : disk'[s] = disk[s]
      BY <2>8, <2>9, WriteRows
    <3>2. CASE q = p
      BY <2>7, <3>1, <3>2 DEF RowsCovered
    <3>3. CASE q # p
      BY <1>2, <1>3, <3>1, <3>3 DEF RowInv
    <3>. QED BY <3>2, <3>3
  <2>10. \A q \in DOMAIN disk' : RowsCovered(disk'[q], log, Len(log))
    BY <1>2, <1>3, <2>4, <2>9 DEF RowInv
  <2>11. ~Tabled(log, n)
    BY <1>12 DEF Tabled, DataKinds, r
  <2>. QED BY <1>6, <1>8, <2>4, <2>10, <2>11
<1>13. \/ UNCHANGED disk /\ r.kind = "update_table" /\ mt_file' = r.after
       \/ UNCHANGED <<disk, mt_file>> /\ (r.kind # "update_table" \/ ~Marked(r.txn, "commit"))
       \/ /\ r.kind \in DataKinds /\ Marked(r.txn, "commit")
          /\ RedoData(n, r.page, RedoRows(r, ReadOrCreate(r.page).rows))
  BY <1>1, <1>4 DEF RedoRecord
<1>. QED BY <1>10, <1>11, <1>12, <1>13

(* Steps that leave the log and the pages alone.                             *)
LEMMA QuietRid ==
  ASSUME TypeInv, TypeInv', RidInv, UNCHANGED <<log, disk, cache>>, durable <= durable',
         NoClr(log) /\ TableLog(log) /\ MetaInv => MetaInv'
  PROVE  RidInv'
<1>1. Len(log) \in Nat /\ durable \in Nat /\ durable' \in Nat
  BY LenProperties DEF TypeInv, TypeOK
<1>2. Grows
  BY <1>1 DEF Grows
<1>3. ClrInv'
  BY <1>1 DEF RidInv, ClrInv
<1>4. NoClr(log) /\ TableLog(log) /\ MetaInv /\ RowInv => RowInv'
  BY <1>2, PagesStay
<1>. QED BY <1>3, <1>4 DEF RidInv, NoClr

(* flush_dirty writes cached rows while all of the log is durable; a clean   *)
(* page that is dropped is still in its file.                                *)
LEMMA PageRid ==
  ASSUME Evictions # "any", TypeInv, TypeInv', LsnInv, RidInv, NEW p \in Pages,
         FlushDirty(p) \/ Evict(p)
  PROVE  RidInv'
<1>1. UNCHANGED <<phase, log, durable, mt, txn, redone, active, current, mt_file>>
  BY DEF FlushDirty, Evict, statement, recovery
<1>2. SUFFICES ASSUME RowInv PROVE RowInv'
  <2>1. MetaInv => MetaInv'
    BY <1>1 DEF MetaInv, Tabled, Committed, Paired
  <2>. QED BY <1>1, <2>1 DEF RidInv, ClrInv, NoClr
<1>3. CASE FlushDirty(p)
  <2>1. /\ disk' = write_page(p, cache[p]) /\ cache' = cache /\ durable = Len(log)
        /\ p \in DOMAIN cache /\ cache[p] \in Page
    BY <1>3 DEF FlushDirty, Flushable, LsnInv, TypeInv, TypeOK
  <2>2. /\ DOMAIN disk' = DOMAIN disk \union {p} /\ disk'[p].rows = cache[p].rows
        /\ \A q \in DOMAIN disk \ {p} : disk'[q] = disk[q]
    BY <2>1, WriteRows
  <2>3. ASSUME NEW q \in DOMAIN disk' PROVE RowsCovered(disk'[q], log, durable)
    <3>1. CASE q = p
      BY <1>2, <2>1, <2>2, <3>1 DEF RowInv, RowsCovered
    <3>2. CASE q # p
      BY <1>2, <2>2, <3>2 DEF RowInv
    <3>. QED BY <3>1, <3>2
  <2>. QED BY <1>1, <1>2, <2>1, <2>3 DEF RowInv, RowsCovered, Covered, Tabled
<1>4. CASE Evict(p)
  <2>1. disk' = disk
    BY <1>4 DEF Evict
  <2>2. \A q \in DOMAIN cache' : q \in DOMAIN cache /\ cache'[q] = cache[q]
    BY <1>4 DEF Evict
  <2>. QED BY <1>1, <1>2, <2>1, <2>2 DEF RowInv, RowsCovered, Covered, Tabled
<1>. QED BY <1>3, <1>4

(* What a crash leaves: the durable log, with every compensation record, and *)
(* the page files, which it covers.                                          *)
LEMMA DieRid ==
  ASSUME TypeInv, TypeInv', UndoInv, RidInv, NEW k \in durable .. Len(log), Die(k) PROVE RidInv'
<1>1. /\ log' = SubSeq(log, 1, k) /\ durable' = k /\ disk' = disk /\ cache' = << >>
      /\ phase' = "down" /\ redone' = 0
  BY DEF Die
<1>2. k \in 0 .. Len(log) /\ durable \in Nat /\ durable <= k /\ log \in Seq(Record)
      /\ Len(log) \in Nat
  BY LenProperties DEF TypeInv, TypeOK
<1>3. Len(log') = k /\ \A i \in 1 .. k : log'[i] = log[i]
  BY <1>1, <1>2, SubSeqProperties
<1>4. ClrInv'
  BY <1>1, <1>2, <1>3 DEF ClrInv
<1>5. NoClr(log') => NoClr(log)
  BY <1>2, <1>3 DEF NoClr, RidInv, ClrInv
<1>6. SUFFICES ASSUME TableLog(log), RowInv PROVE TableLog(log') /\ MetaInv' /\ RowInv'
  BY <1>4, <1>5 DEF RidInv
<1>7. TableLog(log')
  BY <1>1, <1>2, <1>6, PrefixTableLog DEF UndoInv
<1>8. MetaInv'
  BY <1>1 DEF MetaInv, InStatement, InRecovery
<1>9. ASSUME NEW p \in DOMAIN disk, NEW i \in DOMAIN disk[p].rows
      PROVE  Covered(disk[p].rows[i].id, log', k)
  <2>1. PICK j \in 1 .. durable : Tabled(log, j) /\ disk[p].rows[i].id <= log[j].after.last_rid
    BY <1>6 DEF RowInv, RowsCovered, Covered
  <2>2. j \in 1 .. k
    BY <1>2
  <2>. QED BY <1>3, <2>1, <2>2 DEF Covered, Tabled
<1>10. RowInv'
  BY <1>1, <1>9 DEF RowInv, RowsCovered
<1>. QED BY <1>7, <1>8, <1>10

(* REDO has been through the whole log: a transaction with table records is  *)
(* committed or left to UNDO, since none was rolled back.                    *)
LEMMA EndRedoRid == ASSUME TypeInv, TypeInv', UndoInv, RidInv, EndRedo PROVE RidInv'
<1>1. /\ phase = "redo" /\ redone = Len(log) /\ phase' = "undo" /\ txn = NoTxn
      /\ active' = {x \in {log[i].txn : i \in DOMAIN log} :
                      ~Marked(x, "commit") /\ ~Marked(x, "rollback")}
      /\ UNCHANGED <<log, durable, disk, cache, mt_file, txn, redone, current>>
  BY DEF EndRedo, files, memory, statement, UndoInv, WalkInv
<1>2. DOMAIN log = 1 .. Len(log) /\ Len(log) \in Nat /\ durable \in Nat
  BY LenProperties DEF TypeInv, TypeOK
<1>3. ASSUME TableLog(log), MetaInv PROVE MetaInv'
  <2>1. ASSUME NEW j \in 1 .. Len(log), Tabled(log, j)
        PROVE  Committed(log, log[j].txn) \/ log[j].txn \in active'
    <3>1. ~Marked(log[j].txn, "rollback")
      BY <1>2, <1>3, <2>1 DEF TableLog, Marked
    <3>. QED BY <1>1, <1>2, <3>1 DEF Marked, Committed
  <2>2. \A j \in 1 .. Len(log) : log[j].txn # NoTxn
    BY LogFields, ConstantsAssumption DEF TypeInv, TypeOK, LinkInv
  <2>. QED BY <1>1, <1>2, <1>3, <2>1, <2>2 DEF MetaInv, InStatement, InRecovery, Tabled, Committed
<1>. QED BY <1>1, <1>2, <1>3, QuietRid

(* UNDO of a transaction starts at its last record and passes over records   *)
(* that cannot be compensated, which those of the table always can.          *)
LEMMA WalkRid ==
  ASSUME TypeInv, TypeInv', UndoInv, RidInv, UndoSkip \/ \E x \in Txns : UndoTxn(x)
  PROVE  RidInv'
<1>1. /\ phase = "undo" /\ UNCHANGED <<phase, log, durable, disk, cache, mt_file, redone, active>>
  BY DEF UndoSkip, UndoTxn, files, memory
<1>2. Len(log) \in Nat /\ durable \in Nat /\ log \in Seq(Record)
  BY LenProperties DEF TypeInv, TypeOK
<1>3. ASSUME NoClr(log), MetaInv PROVE MetaInv'
  <2>1. ASSUME NEW j \in 1 .. Len(log), Tabled(log, j), log[j].txn = txn' PROVE j <= current'
    <3>1. CASE \E x \in Txns : UndoTxn(x)
      BY <1>2, <2>1, <3>1, LastLsnIs DEF UndoTxn
    <3>2. CASE UndoSkip
      <4>1. current # 0 /\ ~Undoable(log[current]) /\ txn' = txn
        BY <3>2 DEF UndoSkip, statement
      <4>2. current \in 1 .. Len(log) /\ log[current].txn = txn
        BY <1>1, <4>1 DEF TypeInv, TypeOK, UndoInv, WalkInv
      <4>3. log[current].kind # "clr" /\ current' = log[current].prev
        BY <1>3, <3>2, <4>2 DEF UndoSkip, NoClr
      <4>4. j <= current /\ j # current
        BY <1>1, <1>3, <2>1, <4>1 DEF MetaInv, Undoable, Tabled
      <4>5. log[current].kind # "rollback"
        BY <1>1, <4>1, <4>2, ConstantsAssumption DEF UndoInv, WalkInv
      <4>6. Chained(log, current)
        BY <4>2 DEF UndoInv, LogInv
      <4>. QED BY <1>2, <2>1, <4>1, <4>2, <4>3, <4>4, <4>5, <4>6 DEF Chained
    <3>. QED BY <3>1, <3>2
  <2>. QED BY <1>1, <1>3, <2>1 DEF MetaInv, InStatement, InRecovery, Tabled, Committed
<1>. QED BY <1>1, <1>2, <1>3, QuietRid

(* A compensation record.                                                    *)
LEMMA UndoRid ==
  ASSUME TypeInv, TypeInv', LsnInv, UndoInv, RidInv, UndoLogs \/ UndoApplies PROVE RidInv'
<1>1. Len(log) \in Nat /\ durable \in Nat /\ durable <= Len(log)
  BY LsnNat
<1>2. CASE UndoLogs
  <2>1. /\ log' = Append(log, make_clr(current)) /\ durable' = Len(log) + 1
        /\ Len(log') = Len(log) + 1
    BY <1>2, UndoLogsType DEF UndoLogs
  <2>2. log'[Len(log) + 1] = make_clr(current)
    BY <2>1, AppendProperties DEF TypeInv, TypeOK
  <2>3. ~NoClr(log')
    <3>1. Len(log) + 1 \in 1 .. Len(log')
      BY <1>1, <2>1
    <3>. QED BY <2>2, <3>1 DEF NoClr, make_clr
  <2>4. ClrInv'
    BY <1>1, <2>1 DEF ClrInv
  <2>. QED BY <2>3, <2>4 DEF RidInv
<1>3. CASE UndoApplies
  <2>1. phase = "undo_apply" /\ UNCHANGED <<log, durable>> /\ current # 0
    BY <1>3 DEF UndoApplies, TypeInv, StmtInv
  <2>2. Len(log) \in 1 .. Len(log) /\ log[Len(log)].kind = "clr"
    BY <1>1, <2>1 DEF TypeInv, TypeOK, UndoInv, WalkInv
  <2>. QED BY <2>1, <2>2 DEF RidInv, ClrInv, NoClr
<1>. QED BY <1>2, <1>3

(* The rollback marker: the transaction had no table records.                *)
LEMMA UndoEndRid == ASSUME TypeInv, TypeInv', LsnInv, UndoInv, RidInv, UndoEnd PROVE RidInv'
<1> DEFINE r == [kind |-> "rollback", txn |-> txn, prev |-> 0]
<1>1. /\ phase = "undo" /\ txn # NoTxn /\ current = 0 /\ log' = Append(log, r)
      /\ active' = active \ {txn} /\ txn' = NoTxn /\ durable' = Len(log) + 1
      /\ UNCHANGED <<phase, current, disk, cache, mt_file, redone>>
  BY DEF UndoEnd, memory
<1>2. Marks(r) /\ r.kind = "rollback" /\ r.txn = txn /\ log \in Seq(Record)
  BY <1>1 DEF Marks, Record, TypeInv, TypeOK
<1>. HIDE DEF r
<1>3. durable <= durable' /\ ClrInv
  BY <1>1, LsnNat DEF RidInv
<1>4. /\ Grows /\ Len(log') = Len(log) + 1 /\ log'[Len(log) + 1] = r /\ Len(log) \in Nat
      /\ \A j \in 1 .. Len(log') : Tabled(log', j) => j \in 1 .. Len(log) /\ Tabled(log, j)
      /\ ClrInv' /\ (NoClr(log') => NoClr(log))
  BY <1>2, <1>3, MarkStep
<1>5. \A x : Committed(log', x) = Committed(log, x)
  BY <1>2, <1>3, MarkCommits
<1>6. SUFFICES ASSUME NoClr(log), TableLog(log), MetaInv, RowInv
               PROVE  TableLog(log') /\ MetaInv' /\ RowInv'
  BY <1>4 DEF RidInv
<1>7. \A j \in 1 .. Len(log) : Tabled(log, j) => log[j].txn # txn
  BY <1>1, <1>6 DEF MetaInv
<1>8. TableLog(log')
  BY <1>2, <1>6, <1>7, MarkTableLog DEF Marks
<1>9. MetaInv'
  <2>1. \A j \in 1 .. Len(log') : Tabled(log', j) =>
          /\ j <= redone'
          /\ Committed(log', log'[j].txn) \/ log'[j].txn \in active'
          /\ log'[j].txn # NoTxn
    <3>1. \A j \in 1 .. Len(log) : log[j].txn # NoTxn
      BY LogFields, ConstantsAssumption DEF TypeInv, TypeOK, LinkInv
    <3>. QED BY <1>1, <1>4, <1>5, <1>6, <1>7, <3>1 DEF MetaInv, Grows
  <2>2. \A j \in 1 .. redone' : Tabled(log', j) /\ Committed(log', log'[j].txn) =>
          log'[j].after.last_rid <= mt_file'.last_rid
    <3>1. redone \in 0 .. Len(log)
      BY DEF TypeInv, TypeOK
    <3>2. \A j \in 1 .. redone : j \in 1 .. Len(log) /\ log'[j] = log[j]
      BY <1>4, <3>1 DEF Grows
    <3>. QED BY <1>1, <1>5, <1>6, <3>2 DEF MetaInv, InRecovery, Tabled
  <2>. QED BY <1>1, <2>1, <2>2 DEF MetaInv, InStatement, InRecovery
<1>10. RowInv'
  BY <1>1, <1>4, <1>6, PagesStay
<1>. QED BY <1>8, <1>9, <1>10

(* Recovery is over: what is in the log is committed, and REDO has brought   *)
(* the metadata up to it.                                                    *)
LEMMA RecoveredRid == ASSUME TypeInv, TypeInv', RidInv, Recovered PROVE RidInv'
<1>1. /\ phase = "undo" /\ active = {} /\ phase' = "idle" /\ mt' = mt_file
      /\ UNCHANGED <<log, durable, disk, cache>>
  BY DEF Recovered, files
<1>2. durable \in Nat
  BY LsnNat
<1>3. ASSUME MetaInv PROVE MetaInv'
  <2>1. \A j \in 1 .. Len(log) : Tabled(log, j) => log[j].after.last_rid <= mt_file.last_rid
    <3>1. \A j \in 1 .. Len(log) : Tabled(log, j) => j \in 1 .. redone
      BY <1>1, <1>3 DEF MetaInv, TypeInv, TypeOK
    <3>. QED BY <1>1, <1>3, <3>1 DEF MetaInv, InRecovery
  <2>. QED BY <1>1, <2>1 DEF MetaInv, InStatement, InRecovery, Tabled
<1>. QED BY <1>1, <1>2, <1>3, QuietRid

(* Every step keeps RidInv.                                                  *)
LEMMA NextRid ==
  ASSUME Evictions # "any", TypeInv, LsnInv, UndoInv, RidInv, [Next]_vars PROVE RidInv'
<1>0. TypeInv' /\ durable \in Nat
  BY NextType, LsnNat
<1>1. CASE \E x \in Txns : BeginInsert(x) \/ \E kind \in {"update", "delete"} : BeginOnRows(x, kind)
  BY <1>0, <1>1, BeginRid
<1>2. CASE RowWork
  BY <1>0, <1>2, RowWorkRid
<1>3. CASE InsertThrows
  BY <1>0, <1>3, InsertThrowsRid
<1>4. CASE Commit
  BY <1>0, <1>4, CommitRid
<1>5. CASE WaitForDurable \/ CommitDone \/ Start \/ UNCHANGED vars
  <2>1. /\ UNCHANGED <<log, disk, cache, mt, mt_file, redone, active, current>>
        /\ \/ phase' \in {"flushing", "idle"} /\ phase \notin InRecovery
           \/ phase' = "redo" /\ phase = "down"
           \/ UNCHANGED <<phase, txn>>
    BY <1>5 DEF WaitForDurable, CommitDone, Start, vars, files, memory, statement, recovery,
                InRecovery
  <2>2. durable <= durable'
    BY <1>0, <1>5, LsnNat DEF WaitForDurable, CommitDone, Start, vars, files
  <2>3. MetaInv => MetaInv'
    BY <2>1 DEF MetaInv, InStatement, InRecovery, Tabled, Committed, Paired
  <2>. QED BY <1>0, <2>1, <2>2, <2>3, QuietRid
<1>6. CASE \E p \in Pages : FlushDirty(p) \/ Evict(p)
  BY <1>0, <1>6, PageRid
<1>7. CASE Redo
  BY <1>0, <1>7, RedoRid
<1>8. CASE EndRedo
  BY <1>0, <1>8, EndRedoRid
<1>9. CASE UndoSkip \/ \E x \in Txns : UndoTxn(x)
  BY <1>0, <1>9, WalkRid
<1>10. CASE UndoLogs \/ UndoApplies
  BY <1>0, <1>10, UndoRid
<1>11. CASE UndoEnd
  BY <1>0, <1>11, UndoEndRid
<1>12. CASE Recovered
  BY <1>0, <1>12, RecoveredRid
<1>13. CASE Crash
  BY <1>0, <1>13, DieRid DEF Crash
<1>14. CASE Close
  <2>1. durable \in durable .. Len(log)
    BY LenProperties DEF TypeInv, TypeOK
  <2>. QED BY <1>0, <1>14, <2>1, DieRid DEF Close
<1>. QED BY <1>1, <1>2, <1>3, <1>4, <1>5, <1>6, <1>7, <1>8, <1>9, <1>10, <1>11, <1>12, <1>13, <1>14
         DEF Next, Statement, Committing, Recovering, RowWork

(* The initial state: an empty log and no pages.                             *)
LEMMA InitRid == Init => RidInv
BY DEF Init, RidInv, ClrInv, TableLog, MetaInv, RowInv, InStatement, InRecovery

(* The invariants hold throughout.                                           *)
LEMMA RidInvHolds ==
  ASSUME Evictions # "any" PROVE Spec => [](TypeInv /\ LsnInv /\ UndoInv /\ RidInv)
<1>1. TypeInv /\ LsnInv /\ UndoInv /\ RidInv /\ [Next]_vars
        => (TypeInv /\ LsnInv /\ UndoInv /\ RidInv)'
  BY NextType, NextLsn, NextUndo, NextRid
<1>. QED BY <1>1, InitType, InitLsn, InitUndo, InitRid, PTL DEF Spec

(* As long as a full cache only drops clean pages, the metadata never falls  *)
(* behind the rows of the table: until an undo restores an older copy, the   *)
(* id that update_row or make_row takes from last_rid is not below one that  *)
(* a page holds, after any number of crashes, restarts and failed statements *)
(* (make_row, update_row, UpdateTableRecord, redo_update_table, hydrate).    *)
THEOREM LastRidKeepsUp == ASSUME Evictions # "any" PROVE Spec => []LastRidCovers
<1>1. TypeInv /\ RidInv => LastRidCovers
  <2> SUFFICES ASSUME TypeInv, RidInv, phase = "idle", \A i \in DOMAIN log : log[i].kind # "clr",
                      NEW p \in DOMAIN get_table_data, NEW i \in DOMAIN get_table_data[p].rows
               PROVE  get_table_data[p].rows[i].id <= mt.last_rid
    BY DEF LastRidCovers
  <2>1. NoClr(log) /\ Len(log) \in Nat
    BY LenProperties DEF NoClr, TypeInv, TypeOK
  <2>2. MetaInv /\ RowInv
    BY <2>1 DEF RidInv
  <2>3. get_table_data[p].rows[i].id \in IdsOf(get_table_data)
    BY IdsIn
  <2>4. PICK j \in 1 .. Len(log) :
          Tabled(log, j) /\ get_table_data[p].rows[i].id <= log[j].after.last_rid
    BY <2>2, <2>3, TableCovered DEF Covered
  <2>5. log[j].after.last_rid <= mt.last_rid
    BY <2>2, <2>4 DEF MetaInv, InRecovery
  <2>6. log[j].after.last_rid \in Nat /\ mt.last_rid \in Nat
    BY <2>4, RidFields DEF TypeInv, TypeOK, MetaTable
  <2>7. get_table_data[p].rows[i].id \in Nat
    <3>1. get_table_data[p] \in Page
      BY TableDataType DEF TypeInv, TypeOK, PageMap
    <3>2. get_table_data[p].rows[i] \in Row
      BY <3>1, LenProperties, ElementOfSeq DEF Page
    <3>. QED BY <3>2 DEF Row
  <2>. QED BY <2>4, <2>5, <2>6, <2>7
<1>. QED BY <1>1, RidInvHolds, PTL
=============================================================================
