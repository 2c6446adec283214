--------------------------- MODULE StorageProofs ---------------------------
(* Proofs about Storage: type correctness, and the write-ahead rule for     *)
(* every number of pages, transactions, crashes and failing statements.     *)
EXTENDS Storage, WellFoundedInduction, SequenceTheorems, FiniteSetTheorems, TLAPS

(* A nonempty set of natural numbers has a least element.                   *)
LEMMA MinExists ==
  ASSUME NEW S, S \subseteq Nat, S # {}
  PROVE  \E m \in S : \A k \in S : m <= k
<1> DEFINE R == OpToRel(<, Nat)
<1>1. IsWellFoundedOn(R, Nat)
  BY NatLessThanWellFounded
<1>2. \A x, y \in Nat : x < y => <<x, y>> \in R
  BY DEF OpToRel
<1>. HIDE DEF R
<1>3. PICK m \in S : \A y \in S : ~ (<<y, m>> \in R)
  BY <1>1, WFMin, Zenon
<1>4. ASSUME NEW k \in S PROVE m <= k
  <2>1. ~ (k < m)
    BY <1>2, <1>3
  <2>. QED BY <2>1
<1>. QED BY <1>4

(* A function on a nonempty part of 1 .. n takes a greatest value; the      *)
(* least n for which it did not would be reached from n - 1.                *)
LEMMA ArgMaxExists ==
  ASSUME NEW n \in Nat, NEW S, S \subseteq 1 .. n, S # {}, NEW f,
         \A k \in S : f[k] \in Nat
  PROVE  \E k \in S : \A j \in S : f[j] <= f[k]
<1> DEFINE Upto(m) == {k \in S : k <= m}
           HasMax(m) == \E k \in Upto(m) : \A j \in Upto(m) : f[j] <= f[k]
           Bad == {m \in 0 .. n : Upto(m) # {} /\ ~HasMax(m)}
<1>1. SUFFICES ASSUME ~\E k \in S : \A j \in S : f[j] <= f[k] PROVE FALSE
  OBVIOUS
<1>a. Bad # {} /\ Bad \subseteq Nat
  <2>0. \A k \in S : k <= n
    OBVIOUS
  <2>1. Upto(n) = S
    BY <2>0
  <2>2. n \in Bad
    BY <1>1, <2>1
  <2>. QED BY <2>2
<1>2. PICK m \in Bad : \A k \in Bad : m <= k
  <2>. HIDE DEF Bad
  <2>. QED BY <1>a, MinExists
<1>3. m \in 1 .. n
  <2>1. \A k \in S : ~(k <= 0)
    OBVIOUS
  <2>2. Upto(0) = {}
    BY <2>1
  <2>3. m # 0
    BY <1>2, <2>2
  <2>. QED BY <1>2, <2>3
<1>4. m - 1 \notin Bad /\ m - 1 \in 0 .. n
  BY <1>2, <1>3
<1>5. CASE Upto(m - 1) = {}
  <2>1. \A k \in Upto(m) : k = m
    BY <1>3, <1>5
  <2>2. m \in Upto(m) /\ f[m] \in Nat
    BY <1>2, <2>1
  <2>3. HasMax(m)
    BY <2>1, <2>2
  <2>. QED BY <1>2, <2>3
<1>6. CASE HasMax(m - 1)
  <2>1. PICK k \in Upto(m - 1) : \A j \in Upto(m - 1) : f[j] <= f[k]
    BY <1>6
  <2>2. \A j \in Upto(m) : j = m \/ j \in Upto(m - 1)
    BY <1>3
  <2>3. CASE m \in S /\ f[m] > f[k]
    <3>1. m \in Upto(m) /\ \A j \in Upto(m) : f[j] <= f[m]
      BY <1>3, <2>1, <2>2, <2>3
    <3>. QED BY <1>2, <3>1
  <2>4. CASE ~(m \in S /\ f[m] > f[k])
    <3>1. k \in Upto(m) /\ \A j \in Upto(m) : f[j] <= f[k]
      BY <1>3, <2>1, <2>2, <2>4
    <3>. QED BY <1>2, <3>1
  <2>. QED BY <2>3, <2>4
<1>. QED BY <1>4, <1>5, <1>6

(* First picks a member.                                                    *)
LEMMA FirstIn == ASSUME NEW S, S \subseteq Nat, S # {} PROVE First(S) \in S
BY MinExists DEF First

(* last_lsn_ of a transaction is an LSN of the log, or 0.                   *)
LEMMA LastLsnType ==
  ASSUME NEW lg \in Seq(Record), NEW x
  PROVE  LastLsn(x, lg) \in 0 .. Len(lg)
<1> DEFINE S == {i \in DOMAIN lg : lg[i].txn = x}
<1>1. CASE S = {}
  BY <1>1 DEF LastLsn
<1>2. CASE S # {}
  <2> DEFINE f == [k \in S |-> k]
  <2>1. S \subseteq 1 .. Len(lg) /\ Len(lg) \in Nat
    BY LenProperties
  <2>2. \E m \in S : \A i \in S : f[i] <= f[m]
    <3>1. \A k \in S : f[k] \in Nat
      BY <2>1
    <3>. HIDE DEF f, S
    <3>. QED BY <1>2, <2>1, <3>1, ArgMaxExists
  <2>3. \E m \in S : \A i \in S : i <= m
    BY <2>2
  <2>4. (CHOOSE m \in S : \A i \in S : i <= m) \in S
    BY <2>3
  <2>. QED BY <1>2, <2>1, <2>4 DEF LastLsn
<1>. QED BY <1>1, <1>2

(* Flagging and restoring rows keep a page's rows well formed.              *)
LEMMA RowsType ==
  ASSUME NEW rows \in Seq(Row), NEW id, NEW b \in BOOLEAN, NEW v \in Vals
  PROVE  /\ FlagFirst(rows, id, b) \in Seq(Row)
         /\ Len(FlagFirst(rows, id, b)) = Len(rows)
         /\ RestoreFirst(rows, id, v) \in Seq(Row)
         /\ Len(RestoreFirst(rows, id, v)) = Len(rows)
<1>1. DOMAIN rows = 1 .. Len(rows) /\ Len(rows) \in Nat /\ \A i \in 1 .. Len(rows) : rows[i] \in Row
  BY LenProperties
<1>2. \A i \in 1 .. Len(rows) : [rows[i] EXCEPT !.obsolete = b] \in Row
  BY <1>1 DEF Row
<1>3. \A i \in 1 .. Len(rows) : [rows[i] EXCEPT !.obsolete = FALSE, !.val = v] \in Row
  BY <1>1 DEF Row
<1>4. FlagFirst(rows, id, b) \in [1 .. Len(rows) -> Row]
  BY <1>1, <1>2 DEF FlagFirst
<1>5. RestoreFirst(rows, id, v) \in [1 .. Len(rows) -> Row]
  BY <1>1, <1>3 DEF RestoreFirst
<1>. QED BY <1>1, <1>4, <1>5

(* What the fields of a log record hold, by its kind.                       *)
LEMMA RecordFields ==
  ASSUME NEW r \in Record
  PROVE  /\ r.txn \in Txns /\ r.prev \in Nat
         /\ r.kind \in {"begin", "commit", "rollback", "update_table", "clr"} \union DataKinds
         /\ r.kind \in DataKinds => r.page \in Pages /\ r.before \in Row /\ r.after \in Row
         /\ r.kind = "update_table" => r.before \in MetaTable /\ r.after \in MetaTable
         /\ r.kind = "clr" => r.of \in Nat /\ r.undo_next \in Nat
BY DEF Record, DataKinds

(* Links between log records lead back, and a compensation record refers to *)
(* an earlier record that can be compensated (make_clr, undo).              *)
LinksBack(lg, i) ==
  /\ lg[i].prev < i
  /\ lg[i].kind = "clr" =>
       /\ lg[i].of \in 1 .. i - 1 /\ lg[i].undo_next < i
       /\ lg[lg[i].of].kind \in DataKinds \union {"update_table"}
LinkInv == \A i \in 1 .. Len(log) : LinksBack(log, i)

(* lg is log lg0 with records appended, well formed and well linked.        *)
Extends(lg0, lg) ==
  /\ lg \in Seq(Record) /\ Len(lg) >= Len(lg0)
  /\ \A i \in 1 .. Len(lg0) : lg[i] = lg0[i]
  /\ \A i \in 1 .. Len(lg) : LinksBack(lg, i)

(* Appending one record.                                                    *)
LEMMA AppendExtends ==
  ASSUME NEW lg \in Seq(Record), \A i \in 1 .. Len(lg) : LinksBack(lg, i),
         NEW r \in Record, r.prev \in 0 .. Len(lg),
         r.kind = "clr" => /\ r.of \in 1 .. Len(lg) /\ r.undo_next \in 0 .. Len(lg)
                           /\ lg[r.of].kind \in DataKinds \union {"update_table"}
  PROVE  Extends(lg, Append(lg, r)) /\ Len(Append(lg, r)) = Len(lg) + 1
<1> DEFINE s == Append(lg, r)
<1>1. /\ s \in Seq(Record) /\ Len(s) = Len(lg) + 1 /\ Len(lg) \in Nat
      /\ \A i \in 1 .. Len(lg) : s[i] = lg[i]
      /\ s[Len(lg) + 1] = r
  BY AppendProperties, LenProperties
<1>. HIDE DEF s
<1>2. ASSUME NEW i \in 1 .. Len(lg) PROVE LinksBack(s, i)
  BY <1>1 DEF LinksBack
<1>3. LinksBack(s, Len(lg) + 1)
  BY <1>1 DEF LinksBack
<1>4. \A i \in 1 .. Len(s) : LinksBack(s, i)
  <2>1. \A i \in 1 .. Len(s) : i \in 1 .. Len(lg) \/ i = Len(lg) + 1
    BY <1>1
  <2>. QED BY <1>2, <1>3, <2>1
<1>. QED BY <1>1, <1>4 DEF s, Extends

(* append_log of the three sorts of record a statement writes.              *)
LEMMA LogMarkExtends ==
  ASSUME NEW lg \in Seq(Record), \A i \in 1 .. Len(lg) : LinksBack(lg, i),
         NEW x \in Txns, NEW k \in {"begin", "commit"}
  PROVE  Extends(lg, LogMark(lg, x, k)) /\ Len(LogMark(lg, x, k)) = Len(lg) + 1
<1> DEFINE l == LastLsn(x, lg)
           r == [kind |-> k, txn |-> x, prev |-> l]
<1>1. l \in 0 .. Len(lg) /\ Len(lg) \in Nat
  BY LastLsnType, LenProperties
<1>. HIDE DEF l
<1>2. r \in Record /\ r.prev \in 0 .. Len(lg) /\ r.kind # "clr"
  BY <1>1 DEF Record
<1>. QED BY <1>2, AppendExtends DEF LogMark, l

(* append_log of a row record.                                              *)
LEMMA LogRowExtends ==
  ASSUME NEW lg \in Seq(Record), \A i \in 1 .. Len(lg) : LinksBack(lg, i),
         NEW x \in Txns, NEW k \in DataKinds, NEW p \in Pages, NEW b \in Row, NEW a \in Row
  PROVE  /\ Extends(lg, LogRow(lg, x, k, p, b, a))
         /\ Len(LogRow(lg, x, k, p, b, a)) = Len(lg) + 1
<1> DEFINE l == LastLsn(x, lg)
           r == [kind |-> k, txn |-> x, prev |-> l, page |-> p, before |-> b, after |-> a]
<1>1. l \in 0 .. Len(lg) /\ Len(lg) \in Nat
  BY LastLsnType, LenProperties
<1>. HIDE DEF l
<1>2. r \in Record /\ r.prev \in 0 .. Len(lg) /\ r.kind # "clr"
  BY <1>1 DEF Record, DataKinds
<1>. QED BY <1>2, AppendExtends DEF LogRow, l

(* append_log of an UpdateTableRecord.                                      *)
LEMMA LogTableExtends ==
  ASSUME NEW lg \in Seq(Record), \A i \in 1 .. Len(lg) : LinksBack(lg, i),
         NEW x \in Txns, NEW b \in MetaTable, NEW a \in MetaTable
  PROVE  /\ Extends(lg, LogTable(lg, x, b, a))
         /\ Len(LogTable(lg, x, b, a)) = Len(lg) + 1
<1> DEFINE l == LastLsn(x, lg)
           r == [kind |-> "update_table", txn |-> x, prev |-> l, before |-> b, after |-> a]
<1>1. l \in 0 .. Len(lg) /\ Len(lg) \in Nat
  BY LastLsnType, LenProperties
<1>. HIDE DEF l
<1>2. r \in Record /\ r.prev \in 0 .. Len(lg) /\ r.kind # "clr"
  BY <1>1 DEF Record
<1>. QED BY <1>2, AppendExtends DEF LogTable, l

(* insert_row, update_row and delete_rows log a row and then the table.     *)
LEMMA RowThenTable ==
  ASSUME NEW lg \in Seq(Record), \A i \in 1 .. Len(lg) : LinksBack(lg, i),
         NEW x \in Txns, NEW k \in DataKinds, NEW p \in Pages, NEW b \in Row, NEW a \in Row,
         NEW tb \in MetaTable, NEW ta \in MetaTable
  PROVE  /\ Extends(lg, LogTable(LogRow(lg, x, k, p, b, a), x, tb, ta))
         /\ Len(LogTable(LogRow(lg, x, k, p, b, a), x, tb, ta)) = Len(lg) + 2
<1> DEFINE m == LogRow(lg, x, k, p, b, a)
<1>1. Extends(lg, m) /\ Len(m) = Len(lg) + 1 /\ Len(lg) \in Nat
  BY LogRowExtends, LenProperties
<1>. HIDE DEF m
<1>2. Extends(m, LogTable(m, x, tb, ta)) /\ Len(LogTable(m, x, tb, ta)) = Len(m) + 1
  BY <1>1, LogTableExtends DEF Extends
<1>. QED BY <1>1, <1>2 DEF m, Extends

(* The table's counters stay in range: live_rows wraps.                     *)
LEMMA CountersType ==
  ASSUME mt \in MetaTable
  PROVE  /\ TableAfterInsert \in MetaTable /\ TableAfterDelete \in MetaTable
         /\ [mt EXCEPT !.last_rid = @ + 1] \in MetaTable
<1>1. Counter \in Nat \ {0}
  BY ConstantsAssumption
<1>2. \A n \in Nat : n % Counter \in 0 .. Counter - 1
  BY <1>1
<1>3. (mt.live_rows + 1) % Counter \in 0 .. Counter - 1
  BY <1>1, <1>2 DEF MetaTable
<1>4. (mt.live_rows + Counter - 1) % Counter \in 0 .. Counter - 1
  <2>1. mt.live_rows + Counter - 1 \in Nat
    BY <1>1 DEF MetaTable
  <2>. QED BY <1>2, <2>1
<1>5. ASSUME NEW n \in 0 .. Counter - 1, NEW t \in MetaTable, NEW m \in Nat
      PROVE  /\ [t EXCEPT !.last_rid = m, !.live_rows = n] \in MetaTable
             /\ [t EXCEPT !.live_rows = n] \in MetaTable
  BY <1>1 DEF MetaTable
<1>a. mt.last_rid + 1 \in Nat
  BY DEF MetaTable
<1>6. TableAfterInsert \in MetaTable
  BY <1>3, <1>5, <1>a DEF TableAfterInsert
<1>7. TableAfterDelete \in MetaTable
  BY <1>4, <1>5 DEF TableAfterDelete
<1>8. [mt EXCEPT !.last_rid = @ + 1] \in MetaTable
  BY DEF MetaTable
<1>. QED BY <1>6, <1>7, <1>8

(* A map from pages to page contents, the cache or the page files.          *)
PageMap(c) == DOMAIN c \subseteq Pages /\ \A p \in DOMAIN c : c[p] \in Page

(* Putting a page into such a map.                                          *)
LEMMA PutType ==
  ASSUME NEW c, PageMap(c), NEW p \in Pages, NEW pg \in Page
  PROVE  /\ PageMap(Put(c, p, pg)) /\ DOMAIN Put(c, p, pg) = DOMAIN c \union {p}
         /\ Put(c, p, pg)[p] = pg
         /\ \A q \in DOMAIN c \ {p} : Put(c, p, pg)[q] = c[q]
BY DEF PageMap, Put

(* Changing rows and LSN of a page.                                         *)
LEMMA PageExcept ==
  ASSUME NEW pg \in Page, NEW rows \in Seq(Row), NEW n \in Nat
  PROVE  /\ WithRows(pg, rows, n) \in Page
         /\ WithRows(pg, rows, n).last_lsn = n /\ WithRows(pg, rows, n).rows = rows
<1>1. WithRows(pg, rows, n) \in Page
  BY DEF Page, WithRows
<1>2. WithRows(pg, rows, n).last_lsn = n
  BY DEF Page, WithRows
<1>3. WithRows(pg, rows, n).rows = rows
  BY DEF Page, WithRows
<1>. QED BY <1>1, <1>2, <1>3

(* write_page leaves a page file with the rows and the LSN of the page.     *)
LEMMA WritePage ==
  ASSUME PageMap(disk), NEW p \in Pages, NEW pg \in Page
  PROVE  /\ PageMap(write_page(p, pg)) /\ DOMAIN write_page(p, pg) = DOMAIN disk \union {p}
         /\ write_page(p, pg)[p].last_lsn = pg.last_lsn
         /\ \A q \in DOMAIN disk \ {p} : write_page(p, pg)[q] = disk[q]
<1> DEFINE f == [pg EXCEPT !.size = Len(pg.rows)]
<1>1. Len(pg.rows) \in Nat
  BY LenProperties DEF Page
<1>2. f \in Page /\ f.last_lsn = pg.last_lsn
  BY <1>1 DEF Page
<1>3. write_page(p, pg) = Put(disk, p, f)
  BY DEF write_page
<1>. HIDE DEF f
<1>4. /\ PageMap(Put(disk, p, f)) /\ DOMAIN Put(disk, p, f) = DOMAIN disk \union {p}
      /\ Put(disk, p, f)[p] = f
      /\ \A q \in DOMAIN disk \ {p} : Put(disk, p, f)[q] = disk[q]
  BY <1>2, PutType
<1>. QED BY <1>2, <1>3, <1>4

(* get_table_data adds pages read from their files to the cache.            *)
LEMMA TableDataType ==
  ASSUME PageMap(cache), PageMap(disk)
  PROVE  /\ PageMap(get_table_data)
         /\ DOMAIN cache \subseteq DOMAIN get_table_data
         /\ \A p \in DOMAIN cache : get_table_data[p] = cache[p]
         /\ \A p \in DOMAIN get_table_data \ DOMAIN cache :
              p \in DOMAIN disk /\ get_table_data[p] = disk[p]
BY DEF get_table_data, PageMap

(* insert_row finds a tail page when there is one without successor.        *)
LEMMA TailPosIn ==
  ASSUME NEW c, PageMap(c), pages \in Seq(Pages), Tails(c) # {}
  PROVE  TailPos(c) \in Tails(c)
<1> DEFINE f == [k \in Tails(c) |-> c[pages[k]].max_rid]
           S == {k \in Tails(c) : \A j \in Tails(c) : c[pages[j]].max_rid <= c[pages[k]].max_rid}
<1>1. Tails(c) \subseteq 1 .. Len(pages) /\ Len(pages) \in Nat
  BY LenProperties DEF Tails, Loaded
<1>2. \A k \in Tails(c) : f[k] \in Nat
  BY DEF Tails, Loaded, PageMap, Page
<1>3. \E k \in Tails(c) : \A j \in Tails(c) : f[j] <= f[k]
  <2>. HIDE DEF f
  <2>. QED BY <1>1, <1>2, ArgMaxExists
<1>4. S # {} /\ S \subseteq Nat
  BY <1>1, <1>3
<1>. HIDE DEF S
<1>5. First(S) \in S
  BY <1>4, FirstIn
<1>. QED BY <1>5 DEF TailPos, S

(* prepare_dp returns a page of the table or a new one; the page a new one  *)
(* is linked from keeps its rows and its LSN.                               *)
LEMMA PrepareDpType ==
  ASSUME PageMap(cache), PageMap(disk), pages \in Seq(Pages), dirty \subseteq DOMAIN cache,
         NEW p \in Pages, MayPrepare(p)
  PROVE  LET d == PrepareDp(p)
         IN  /\ PageMap(d.cache) /\ p \in DOMAIN d.cache
             /\ d.pages \in Seq(Pages)
             /\ d.dirty \subseteq DOMAIN d.cache
             /\ \A q \in DOMAIN d.cache :
                  \/ /\ q \in DOMAIN get_table_data
                     /\ d.cache[q].last_lsn = get_table_data[q].last_lsn
                  \/ q \notin DOMAIN disk /\ d.cache[q].last_lsn = 0
<1> DEFINE c == get_table_data
           q == pages[TailPos(c)]
<1>1. PageMap(c) /\ DOMAIN cache \subseteq DOMAIN c
  BY TableDataType
<1>. HIDE DEF c
<1>2. CASE WithRoom(c) # {}
  <2>1. PrepareDp(p) = [cache |-> c, pages |-> pages, dirty |-> dirty]
    BY <1>2 DEF PrepareDp, c
  <2>2. WithRoom(c) \subseteq Nat
    BY LenProperties DEF WithRoom, Loaded
  <2>3. p = pages[First(WithRoom(c))] /\ First(WithRoom(c)) \in WithRoom(c)
    BY <1>2, <2>2, FirstIn DEF MayPrepare, c
  <2>4. p \in DOMAIN c
    BY <2>3 DEF WithRoom, Loaded
  <2>. QED BY <1>1, <2>1, <2>4 DEF c
<1>3. NewPage \in Page /\ NewPage.last_lsn = 0
  BY DEF NewPage, Page
<1>4. Append(pages, p) \in Seq(Pages)
  BY AppendProperties
<1>5. CASE WithRoom(c) = {} /\ Tails(c) = {}
  <2>1. PrepareDp(p) = [cache |-> Put(c, p, NewPage), pages |-> Append(pages, p), dirty |-> dirty]
    BY <1>5 DEF PrepareDp, c
  <2>2. p \notin DOMAIN disk
    BY <1>5 DEF MayPrepare, c
  <2>. HIDE DEF c
  <2>3. /\ PageMap(Put(c, p, NewPage)) /\ DOMAIN Put(c, p, NewPage) = DOMAIN c \union {p}
        /\ Put(c, p, NewPage)[p] = NewPage
        /\ \A s \in DOMAIN c \ {p} : Put(c, p, NewPage)[s] = c[s]
    BY <1>1, <1>3, PutType
  <2>. QED BY <1>1, <1>3, <1>4, <2>1, <2>2, <2>3 DEF c
<1>6. CASE WithRoom(c) = {} /\ Tails(c) # {}
  <2> DEFINE e == [c EXCEPT ![q].next = p]
  <2>1. PrepareDp(p) = [cache |-> Put(e, p, NewPage), pages |-> Append(pages, p),
                        dirty |-> dirty \union {q}]
    BY <1>6 DEF PrepareDp, c
  <2>2. p \notin DOMAIN disk
    BY <1>6 DEF MayPrepare, c
  <2>3. q \in DOMAIN c
    BY <1>1, <1>6, TailPosIn DEF Tails, Loaded
  <2>. HIDE DEF c, q
  <2>4. PageMap(e) /\ DOMAIN e = DOMAIN c /\ \A s \in DOMAIN c : e[s].last_lsn = c[s].last_lsn
    BY <1>1, <2>3 DEF PageMap, Page
  <2>. HIDE DEF e
  <2>5. /\ PageMap(Put(e, p, NewPage)) /\ DOMAIN Put(e, p, NewPage) = DOMAIN e \union {p}
        /\ Put(e, p, NewPage)[p] = NewPage
        /\ \A s \in DOMAIN e \ {p} : Put(e, p, NewPage)[s] = e[s]
    BY <1>3, <2>4, PutType
  <2>. QED BY <1>1, <1>3, <1>4, <2>1, <2>2, <2>3, <2>4, <2>5 DEF c
<1>. QED BY <1>2, <1>5, <1>6

-----------------------------------------------------------------------------
(* Type correctness                                                        *)

(* What a statement or a recovery in progress has established.              *)
StmtInv ==
  /\ phase \in InStatement \union {"waiting", "flushing"} => txn \in Txns
  /\ phase \notin {"update", "delete"} => todo = {}
  /\ phase = "undo_apply" => current # 0 /\ Undoable(log[current])

(* The inductive invariant: types, links between log records, statements.   *)
TypeInv == TypeOK /\ LinkInv /\ StmtInv

(* A statement's step only appends to the log: what it must establish.      *)
LEMMA LogGrows ==
  ASSUME TypeInv, Extends(log, log')
  PROVE  /\ log' \in Seq(Record) /\ LinkInv' /\ Len(log) \in Nat /\ Len(log') \in Nat
         /\ durable \in 0 .. Len(log') /\ redone \in 0 .. Len(log')
         /\ current \in 0 .. Len(log')
<1>1. log \in Seq(Record) /\ log' \in Seq(Record)
  BY DEF TypeInv, TypeOK, Extends
<1>2. Len(log) \in Nat /\ Len(log') \in Nat /\ Len(log') >= Len(log)
  BY <1>1, LenProperties DEF Extends
<1>. QED BY <1>1, <1>2 DEF TypeInv, TypeOK, Extends, LinkInv

(* The initial state.                                                       *)
LEMMA InitType == Init => TypeInv
<1>. SUFFICES ASSUME Init PROVE TypeInv
  OBVIOUS
<1>1. NewTable \in MetaTable
  BY ConstantsAssumption DEF NewTable, MetaTable
<1>2. Len(log) = 0 /\ log \in Seq(Record) /\ pages \in Seq(Pages)
      /\ DOMAIN disk = {} /\ DOMAIN cache = {}
  BY DEF Init
<1>. QED BY <1>1, <1>2 DEF Init, TypeInv, TypeOK, LinkInv, StmtInv, InStatement, Phases

(* Statements.                                                              *)
LEMMA BeginInsertType ==
  ASSUME TypeInv, NEW x \in Txns, BeginInsert(x) PROVE TypeInv'
<1>1. Extends(log, log')
  BY LogMarkExtends DEF BeginInsert, TypeInv, TypeOK, LinkInv
<1>2. /\ log' \in Seq(Record) /\ LinkInv'
      /\ durable \in 0 .. Len(log') /\ redone \in 0 .. Len(log') /\ current \in 0 .. Len(log')
  BY <1>1, LogGrows
<1>3. TypeOK'
  BY <1>2 DEF BeginInsert, TypeInv, TypeOK, memory, recovery, history, Phases
<1>4. StmtInv'
  BY DEF BeginInsert, TypeInv, StmtInv, InStatement
<1>. QED BY <1>2, <1>3, <1>4 DEF TypeInv

(* insert_row: the page it returns to is of the table or new.               *)
LEMMA InsertRowType ==
  ASSUME TypeInv, NEW v \in Vals, InsertRow(v) PROVE TypeInv'
<1> DEFINE row == [id |-> mt.last_rid, val |-> v, obsolete |-> FALSE]
<1>1. PICK p \in Pages :
        /\ MayPrepare(p)
        /\ log' = LogTable(LogRow(log, txn, "insert", p, row, row), txn, mt, TableAfterInsert)
        /\ cache' = [PrepareDp(p).cache EXCEPT
                       ![p] = WithRows(@, Append(@.rows, row), Len(log'))]
        /\ dirty' = PrepareDp(p).dirty \union {p}
        /\ pages' = PrepareDp(p).pages
  BY DEF InsertRow
<1>2. row \in Row /\ txn \in Txns /\ TableAfterInsert \in MetaTable
  BY CountersType DEF InsertRow, TypeInv, TypeOK, StmtInv, InStatement, MetaTable, Row
<1>. HIDE DEF row
<1>3. Extends(log, log')
  BY <1>1, <1>2, RowThenTable DEF TypeInv, TypeOK, LinkInv, DataKinds
<1>4. /\ log' \in Seq(Record) /\ LinkInv' /\ Len(log') \in Nat
      /\ durable \in 0 .. Len(log') /\ redone \in 0 .. Len(log') /\ current \in 0 .. Len(log')
  BY <1>3, LogGrows
<1> DEFINE d == PrepareDp(p)
<1>5. PageMap(d.cache) /\ p \in DOMAIN d.cache /\ d.pages \in Seq(Pages)
      /\ d.dirty \subseteq DOMAIN d.cache
  BY <1>1, PrepareDpType DEF TypeInv, TypeOK, PageMap
<1>. HIDE DEF d
<1>6. PageMap(cache') /\ DOMAIN cache' = DOMAIN d.cache
  <2> DEFINE pg == d.cache[p]
  <2>1. pg \in Page /\ Append(pg.rows, row) \in Seq(Row)
    BY <1>2, <1>5, AppendProperties DEF PageMap, Page
  <2>2. cache' = [d.cache EXCEPT ![p] = WithRows(pg, Append(pg.rows, row), Len(log'))]
    BY <1>1 DEF d
  <2>. HIDE DEF pg
  <2>3. WithRows(pg, Append(pg.rows, row), Len(log')) \in Page
    BY <1>4, <2>1, PageExcept
  <2>. QED BY <1>5, <2>2, <2>3 DEF PageMap
<1>7. TypeOK'
  <2>1. dirty' \subseteq DOMAIN cache' /\ pages' \in Seq(Pages)
    BY <1>1, <1>5, <1>6 DEF d
  <2>2. mt' \in MetaTable
    BY <1>2 DEF InsertRow
  <2>3. DOMAIN cache' \subseteq Pages /\ \A q \in DOMAIN cache' : cache'[q] \in Page
    BY <1>6 DEF PageMap
  <2>. QED BY <1>4, <2>1, <2>2, <2>3
          DEF InsertRow, TypeInv, TypeOK, StmtInv, statement, recovery, history, Phases
<1>8. StmtInv'
  BY DEF InsertRow, TypeInv, StmtInv, InStatement, statement
<1>. QED BY <1>4, <1>7, <1>8 DEF TypeInv

(* insert_row that throws keeps what prepare_dp left.                       *)
LEMMA InsertThrowsType == ASSUME TypeInv, InsertThrows PROVE TypeInv'
<1>1. PICK p \in Pages :
        /\ MayPrepare(p)
        /\ cache' = PrepareDp(p).cache /\ dirty' = PrepareDp(p).dirty
        /\ pages' = PrepareDp(p).pages
  BY DEF InsertThrows
<1>2. PageMap(cache') /\ dirty' \subseteq DOMAIN cache' /\ pages' \in Seq(Pages)
  BY <1>1, PrepareDpType DEF TypeInv, TypeOK, PageMap
<1>3. TableAfterInsert \in MetaTable
  BY CountersType DEF TypeInv, TypeOK
<1>4. TypeOK'
  BY <1>2, <1>3 DEF InsertThrows, TypeInv, TypeOK, StmtInv, PageMap, files, recovery, Phases
<1>. QED BY <1>4 DEF InsertThrows, TypeInv, LinkInv, StmtInv, InStatement, files

(* The rows an UPDATE or DELETE is to visit are in cached pages.            *)
LEMMA BeginOnRowsType ==
  ASSUME TypeInv, NEW x \in Txns, NEW kind \in {"update", "delete"}, BeginOnRows(x, kind)
  PROVE  TypeInv'
<1>1. Extends(log, log')
  BY LogMarkExtends DEF BeginOnRows, TypeInv, TypeOK, LinkInv
<1>2. /\ log' \in Seq(Record) /\ LinkInv'
      /\ durable \in 0 .. Len(log') /\ redone \in 0 .. Len(log') /\ current \in 0 .. Len(log')
  BY <1>1, LogGrows
<1> DEFINE c == get_table_data
<1>3. PageMap(c) /\ DOMAIN cache \subseteq DOMAIN c /\ cache' = c
  BY TableDataType DEF TypeInv, TypeOK, PageMap, BeginOnRows
<1>. HIDE DEF c
<1>4. todo' \subseteq LiveSlots(c, DOMAIN c)
  BY DEF BeginOnRows, Visits, c
<1>5. \A t \in todo' : t[1] \in DOMAIN c /\ t[2] \in DOMAIN c[t[1]].rows
  BY <1>4 DEF LiveSlots
<1>6. TypeOK'
  BY <1>2, <1>3, <1>5 DEF BeginOnRows, TypeInv, TypeOK, PageMap, recovery, history, Phases
<1>7. StmtInv'
  BY DEF BeginOnRows, TypeInv, StmtInv, InStatement
<1>. QED BY <1>2, <1>6, <1>7 DEF TypeInv

(* What update_row leaves of a page.                                        *)
LEMMA PageAfterUpdateType ==
  ASSUME TypeInv, NEW t \in todo, NEW v \in Vals, NEW lost \in BOOLEAN
  PROVE  /\ OldVersion(t) \in Row /\ NewVersion(t, v) \in Row
         /\ PageAfterUpdate(t, v, lost) \in Page
         /\ PageAfterUpdate(t, v, lost).last_lsn = cache[t[1]].last_lsn
         /\ DOMAIN cache[t[1]].rows \subseteq DOMAIN PageAfterUpdate(t, v, lost).rows
<1> DEFINE pg == cache[t[1]]
           rows == RowsAfterUpdate(t, v, lost)
           n == MaxRidAfterUpdate(t)
           marked == [pg.rows EXCEPT ![t[2]].obsolete = ~lost]
<1>1. pg \in Page /\ t[2] \in DOMAIN pg.rows /\ pg.rows \in Seq(Row) /\ mt.last_rid \in Nat
      /\ pg.max_rid \in Nat
  BY DEF TypeInv, TypeOK, Page, MetaTable
<1>. HIDE DEF pg
<1>2. RowAt(cache, t) \in Row
  BY <1>1, ElementOfSeq DEF RowAt, pg
<1>12. OldVersion(t) \in Row
  BY <1>2 DEF OldVersion, Row
<1>3. NewVersion(t, v) \in Row
  <2>1. ASSUME NEW r \in Row, NEW k \in Nat PROVE [r EXCEPT !.id = k, !.val = v] \in Row
    BY DEF Row
  <2>2. mt.last_rid + 1 \in Nat
    BY <1>1
  <2>. QED BY <1>2, <2>1, <2>2 DEF NewVersion
<1>4. marked \in Seq(Row) /\ Len(marked) = Len(pg.rows)
  <2>1. pg.rows[t[2]] \in Row
    BY <1>1, ElementOfSeq
  <2>2. [pg.rows[t[2]] EXCEPT !.obsolete = ~lost] \in Row
    BY <2>1 DEF Row
  <2>3. marked = [pg.rows EXCEPT ![t[2]] = [pg.rows[t[2]] EXCEPT !.obsolete = ~lost]]
    OBVIOUS
  <2>. QED BY <1>1, <2>2, <2>3, ExceptSeq
<1>. HIDE DEF marked
<1>5. rows \in Seq(Row) /\ Len(rows) = Len(pg.rows) + 1 /\ Len(pg.rows) \in Nat
  BY <1>1, <1>3, <1>4, AppendProperties, LenProperties DEF RowsAfterUpdate, pg, marked
<1>6. n \in Nat
  BY <1>1 DEF MaxRidAfterUpdate, pg
<1>7. DOMAIN pg.rows \subseteq DOMAIN rows
  BY <1>1, <1>5, LenProperties
<1>. HIDE DEF rows, n
<1>8. /\ [pg EXCEPT !.rows = rows, !.max_rid = n] \in Page
  BY <1>1, <1>5, <1>6 DEF Page
<1>9. [pg EXCEPT !.rows = rows, !.max_rid = n].rows = rows
  BY <1>1 DEF Page
<1>10. [pg EXCEPT !.rows = rows, !.max_rid = n].last_lsn = pg.last_lsn
  BY <1>1 DEF Page
<1>11. PageAfterUpdate(t, v, lost) = [pg EXCEPT !.rows = rows, !.max_rid = n]
  BY DEF PageAfterUpdate, pg, rows, n
<1>. QED BY <1>3, <1>7, <1>8, <1>9, <1>10, <1>11, <1>12 DEF pg

(* One iteration of update_row or delete_rows logs two records and changes  *)
(* the page of t, whose LSN stays or becomes that of the first record.      *)
RowStep(t) ==
  /\ Extends(log, log') /\ Len(log') = Len(log) + 2
  /\ mt' \in MetaTable
  /\ \E pg \in Page : /\ cache' = [cache EXCEPT ![t[1]] = pg]
                      /\ DOMAIN cache[t[1]].rows \subseteq DOMAIN pg.rows
                      /\ pg.last_lsn \in {cache[t[1]].last_lsn, Len(log) + 1}

(* Stamping a page with an LSN or not.                                      *)
LEMMA StampType ==
  ASSUME NEW pg \in Page, NEW n \in Nat, NEW s \in {pg, [pg EXCEPT !.last_lsn = n]}
  PROVE  s \in Page /\ s.rows = pg.rows /\ s.last_lsn \in {pg.last_lsn, n}
<1>1. CASE s = pg
  BY <1>1
<1>2. CASE s = [pg EXCEPT !.last_lsn = n]
  BY <1>2 DEF Page
<1>. QED BY <1>1, <1>2

(* An iteration of update_row is a RowStep, also when it throws.            *)
LEMMA UpdateIsRowStep ==
  ASSUME TypeInv, NEW t \in todo, NEW v \in Vals, UpdateRow(t, v) \/ UpdateThrows(t, v)
  PROVE  RowStep(t)
<1>1. t[1] \in Pages /\ txn \in Txns /\ unchanged_mt \in MetaTable /\ Len(log) \in Nat
  BY LenProperties DEF TypeInv, TypeOK, StmtInv, InStatement, UpdateRow, UpdateThrows
<1>2. [mt EXCEPT !.last_rid = @ + 1] \in MetaTable
  BY CountersType DEF TypeInv, TypeOK
<1>3. OldVersion(t) \in Row /\ NewVersion(t, v) \in Row
  BY PageAfterUpdateType
<1>4. log' = LogAfterUpdate(t, v) /\ mt' = [mt EXCEPT !.last_rid = @ + 1]
  BY DEF UpdateRow, UpdateThrows
<1>5. Extends(log, log') /\ Len(log') = Len(log) + 2
  BY <1>1, <1>2, <1>3, <1>4, RowThenTable DEF LogAfterUpdate, TypeInv, TypeOK, LinkInv, DataKinds
<1>6. \E pg \in Page : /\ cache' = [cache EXCEPT ![t[1]] = pg]
                       /\ DOMAIN cache[t[1]].rows \subseteq DOMAIN pg.rows
                       /\ pg.last_lsn \in {cache[t[1]].last_lsn, Len(log) + 1}
  <2>1. CASE UpdateRow(t, v)
    <3>1. PICK lost \in MayLose(t) :
            cache' = [cache EXCEPT ![t[1]] =
                        IF PageDone(t)
                          THEN [PageAfterUpdate(t, v, lost) EXCEPT !.last_lsn = Len(log) + 1]
                          ELSE PageAfterUpdate(t, v, lost)]
      BY <2>1 DEF UpdateRow
    <3>2. lost \in BOOLEAN
      BY DEF MayLose
    <3> DEFINE pg == PageAfterUpdate(t, v, lost)
               s == IF PageDone(t) THEN [pg EXCEPT !.last_lsn = Len(log) + 1] ELSE pg
    <3>3. /\ pg \in Page /\ pg.last_lsn = cache[t[1]].last_lsn
          /\ DOMAIN cache[t[1]].rows \subseteq DOMAIN pg.rows
      BY <3>2, PageAfterUpdateType
    <3>4. cache' = [cache EXCEPT ![t[1]] = s]
      BY <3>1
    <3>. HIDE DEF pg
    <3>5. s \in Page /\ s.rows = pg.rows /\ s.last_lsn \in {pg.last_lsn, Len(log) + 1}
      <4>1. s \in {pg, [pg EXCEPT !.last_lsn = Len(log) + 1]} /\ Len(log) + 1 \in Nat
        BY <1>1
      <4>. HIDE DEF s
      <4>. QED BY <3>3, <4>1, StampType
    <3>. HIDE DEF s
    <3>. QED BY <3>3, <3>4, <3>5
  <2>2. CASE UpdateThrows(t, v)
    <3>1. PICK lost \in MayLose(t) : cache' = [cache EXCEPT ![t[1]] = PageAfterUpdate(t, v, lost)]
      BY <2>2 DEF UpdateThrows
    <3>2. lost \in BOOLEAN
      BY DEF MayLose
    <3>. QED BY <3>1, <3>2, PageAfterUpdateType
  <2>. QED BY <2>1, <2>2
<1>. QED BY <1>2, <1>4, <1>5, <1>6 DEF RowStep

(* An iteration of delete_rows is a RowStep.                                *)
LEMMA DeleteIsRowStep ==
  ASSUME TypeInv, NEW t \in todo, DeleteRow(t)
  PROVE  RowStep(t)
<1> DEFINE row == OldVersion(t)
           rows == [cache[t[1]].rows EXCEPT ![t[2]] = row]
           pg == [cache[t[1]] EXCEPT !.rows[t[2]] = row]
           s == IF PageDone(t) THEN [pg EXCEPT !.last_lsn = Len(log) + 1] ELSE pg
<1>1. t[1] \in Pages /\ txn \in Txns /\ unchanged_mt \in MetaTable /\ Len(log) \in Nat
  BY LenProperties DEF TypeInv, TypeOK, StmtInv, InStatement, DeleteRow
<1>2. TableAfterDelete \in MetaTable
  BY CountersType DEF TypeInv, TypeOK
<1>3. cache[t[1]] \in Page /\ cache[t[1]].rows \in Seq(Row) /\ t[2] \in 1 .. Len(cache[t[1]].rows)
  BY LenProperties DEF TypeInv, TypeOK, Page
<1>4. row \in Row
  <2>1. RowAt(cache, t) \in Row
    BY <1>3, ElementOfSeq DEF RowAt
  <2>. QED BY <2>1 DEF OldVersion, Row
<1>5. /\ log' = LogTable(LogRow(log, txn, "delete", t[1], row, row), txn, unchanged_mt,
                         TableAfterDelete)
      /\ mt' = TableAfterDelete
      /\ cache' = [cache EXCEPT ![t[1]] = s]
  BY DEF DeleteRow
<1>. HIDE DEF row
<1>6. rows \in Seq(Row) /\ Len(rows) = Len(cache[t[1]].rows)
  BY <1>3, <1>4, ExceptSeq
<1>7. pg \in Page /\ pg.rows = rows /\ pg.last_lsn = cache[t[1]].last_lsn
  <2>1. pg = [cache[t[1]] EXCEPT !.rows = rows]
    OBVIOUS
  <2>. HIDE DEF rows, pg
  <2>. QED BY <1>3, <1>6, <2>1 DEF Page
<1>8. DOMAIN cache[t[1]].rows \subseteq DOMAIN rows
  BY <1>3, <1>6, LenProperties
<1>. HIDE DEF pg, rows
<1>9. s \in Page /\ s.rows = pg.rows /\ s.last_lsn \in {pg.last_lsn, Len(log) + 1}
  <2>1. s \in {pg, [pg EXCEPT !.last_lsn = Len(log) + 1]} /\ Len(log) + 1 \in Nat
    BY <1>1
  <2>. HIDE DEF s
  <2>. QED BY <1>7, <2>1, StampType
<1>. HIDE DEF s
<1>10. Extends(log, log') /\ Len(log') = Len(log) + 2
  BY <1>1, <1>2, <1>4, <1>5, RowThenTable DEF TypeInv, TypeOK, LinkInv, DataKinds
<1>. QED BY <1>2, <1>5, <1>7, <1>8, <1>9, <1>10 DEF RowStep

(* Such an iteration keeps the types.                                       *)
LEMMA RowStepType ==
  ASSUME TypeInv, NEW t \in todo, RowStep(t),
         todo' \subseteq todo, dirty' \subseteq dirty \union {t[1]},
         \/ phase' = phase /\ UNCHANGED <<txn, unchanged_mt, throws>>
         \/ /\ phase' = "idle" /\ txn' = NoTxn /\ unchanged_mt' = NewTable /\ todo' = {}
            /\ throws' = throws + 1,
         phase \in {"update", "delete"}, lost_flags' \in Nat,
         UNCHANGED <<durable, disk, mt_file, pages, recovery, crashes, evicts>>
  PROVE  TypeInv'
<1>1. /\ log' \in Seq(Record) /\ LinkInv'
      /\ durable \in 0 .. Len(log') /\ redone \in 0 .. Len(log') /\ current \in 0 .. Len(log')
  BY LogGrows DEF RowStep
<1>2. PICK pg \in Page : /\ cache' = [cache EXCEPT ![t[1]] = pg]
                         /\ DOMAIN cache[t[1]].rows \subseteq DOMAIN pg.rows
  BY DEF RowStep
<1>3. t[1] \in DOMAIN cache
  BY DEF TypeInv, TypeOK
<1>4. DOMAIN cache' = DOMAIN cache /\ \A q \in DOMAIN cache' : cache'[q] \in Page
  BY <1>2 DEF TypeInv, TypeOK
<1>5. \A u \in todo' : u[1] \in DOMAIN cache' /\ u[2] \in DOMAIN cache'[u[1]].rows
  BY <1>2, <1>4 DEF TypeInv, TypeOK
<1>6. NewTable \in MetaTable
  BY ConstantsAssumption DEF NewTable, MetaTable
<1>7. TypeOK'
  BY <1>1, <1>3, <1>4, <1>5, <1>6 DEF TypeInv, TypeOK, RowStep, recovery, Phases
<1>8. StmtInv'
  BY DEF TypeInv, StmtInv, InStatement
<1>. QED BY <1>1, <1>7, <1>8 DEF TypeInv

(* Committing and evicting.                                                 *)
LEMMA CommitType == ASSUME TypeInv, Commit PROVE TypeInv'
<1>1. Extends(log, log')
  BY LogMarkExtends DEF Commit, TypeInv, TypeOK, LinkInv, StmtInv
<1>2. /\ log' \in Seq(Record) /\ LinkInv'
      /\ durable \in 0 .. Len(log') /\ redone \in 0 .. Len(log') /\ current \in 0 .. Len(log')
  BY <1>1, LogGrows
<1>3. TypeOK'
  BY <1>2 DEF Commit, TypeInv, TypeOK, memory, statement, recovery, history, Phases
<1>4. StmtInv'
  BY DEF Commit, TypeInv, StmtInv, InStatement, statement
<1>. QED BY <1>2, <1>3, <1>4 DEF TypeInv

(* wait_for_durable returns.                                                *)
LEMMA WaitForDurableType == ASSUME TypeInv, WaitForDurable PROVE TypeInv'
<1>1. Len(log) \in Nat
  BY LenProperties DEF TypeInv, TypeOK
<1>2. TypeOK'
  BY <1>1 DEF WaitForDurable, TypeInv, TypeOK, memory, statement, recovery, history, Phases
<1>. QED BY <1>2 DEF WaitForDurable, TypeInv, LinkInv, StmtInv, InStatement, statement

(* flush_dirty writes a page it holds in the cache.                         *)
LEMMA FlushDirtyType == ASSUME TypeInv, NEW p \in Pages, FlushDirty(p) PROVE TypeInv'
<1>1. p \in DOMAIN cache /\ cache[p] \in Page
  BY DEF FlushDirty, Flushable, TypeInv, TypeOK
<1>2. PageMap(disk')
  BY <1>1, WritePage DEF FlushDirty, TypeInv, TypeOK, PageMap
<1>3. TypeOK'
  BY <1>2 DEF FlushDirty, TypeInv, TypeOK, PageMap, statement, recovery, history
<1>. QED BY <1>3 DEF FlushDirty, TypeInv, LinkInv, StmtInv, InStatement, statement

(* commit returns.                                                          *)
LEMMA CommitDoneType == ASSUME TypeInv, CommitDone PROVE TypeInv'
<1>1. NewTable \in MetaTable
  BY ConstantsAssumption DEF NewTable, MetaTable
<1>2. TypeOK'
  BY <1>1 DEF CommitDone, TypeInv, TypeOK, StmtInv, files, memory, recovery, history, Phases
<1>. QED BY <1>2 DEF CommitDone, TypeInv, LinkInv, StmtInv, InStatement, files

(* evict_one drops an entry that no statement is working on.                *)
LEMMA EvictType == ASSUME TypeInv, NEW p \in Pages, Evict(p) PROVE TypeInv'
<1>1. p \in DOMAIN cache /\ cache[p] \in Page
  BY DEF Evict, TypeInv, TypeOK
<1>2. PageMap(disk')
  BY <1>1, WritePage DEF Evict, TypeInv, TypeOK, PageMap
<1>3. /\ DOMAIN cache' \subseteq Pages /\ \A q \in DOMAIN cache' : cache'[q] \in Page
      /\ dirty' \subseteq DOMAIN cache'
  BY DEF Evict, TypeInv, TypeOK
<1>4. todo = {}
  BY DEF Evict, TypeInv, StmtInv
<1>5. TypeOK'
  BY <1>2, <1>3, <1>4 DEF Evict, TypeInv, TypeOK, PageMap, statement, recovery
<1>. QED BY <1>5 DEF Evict, TypeInv, LinkInv, StmtInv, InStatement, statement

(* A crash keeps a prefix of the log.                                       *)
LEMMA DieType ==
  ASSUME TypeInv, NEW k \in durable .. Len(log), Die(k), mt_file' \in MetaTable
  PROVE  TypeInv' /\ Len(log') = k
<1>1. k \in 0 .. Len(log) /\ Len(log) \in Nat
  BY LenProperties DEF TypeInv, TypeOK
<1>2. /\ log' \in Seq(Record) /\ Len(log') = k
      /\ \A i \in 1 .. k : log'[i] = log[i]
  BY <1>1, SubSeqProperties DEF Die, TypeInv, TypeOK
<1>3. ASSUME NEW i \in 1 .. k PROVE LinksBack(log', i)
  <2>1. LinksBack(log, i) /\ log'[i] = log[i] /\ log[i] \in Record
    BY <1>1, <1>2, ElementOfSeq DEF TypeInv, TypeOK, LinkInv
  <2>2. log[i].kind = "clr" => log'[log[i].of] = log[log[i].of]
    BY <1>1, <1>2, <2>1 DEF LinksBack
  <2>. QED BY <2>1, <2>2 DEF LinksBack
<1>4. NewTable \in MetaTable
  BY ConstantsAssumption DEF NewTable, MetaTable
<1>5. pages' \in Seq(Pages) /\ DOMAIN cache' = {}
  BY DEF Die
<1>6. TypeOK'
  BY <1>1, <1>2, <1>4, <1>5 DEF Die, TypeInv, TypeOK, Phases
<1>. QED BY <1>2, <1>3, <1>6 DEF Die, TypeInv, LinkInv, StmtInv, InStatement

(* Redo and undo of a record keep a page's rows well formed.                *)
LEMMA RecoveredRowsType ==
  ASSUME NEW r \in Record, r.kind \in DataKinds, NEW rows \in Seq(Row)
  PROVE  RedoRows(r, rows) \in Seq(Row) /\ UndoRows(r, rows) \in Seq(Row)
<1>1. r.before \in Row /\ r.after \in Row /\ r.before.val \in Vals
  BY RecordFields DEF Row
<1>2. \A id : \A b \in BOOLEAN : FlagFirst(rows, id, b) \in Seq(Row)
  BY <1>1, RowsType
<1>3. \A id : RestoreFirst(rows, id, r.before.val) \in Seq(Row)
  BY <1>1, RowsType
<1>4. Append(rows, r.after) \in Seq(Row)
      /\ Append(FlagFirst(rows, r.before.id, TRUE), r.after) \in Seq(Row)
  BY <1>1, <1>2, AppendProperties
<1>5. CASE r.kind = "insert"
  BY <1>2, <1>4, <1>5 DEF RedoRows, UndoRows
<1>6. CASE r.kind = "update"
  BY <1>3, <1>4, <1>6 DEF RedoRows, UndoRows
<1>7. CASE r.kind = "delete"
  BY <1>2, <1>7 DEF RedoRows, UndoRows
<1>. QED BY <1>5, <1>6, <1>7 DEF DataKinds

(* What redoing record n does to the page files: a page is left alone or    *)
(* moves up to LSN n.                                                       *)
DiskStep(n) ==
  /\ PageMap(disk') /\ DOMAIN disk \subseteq DOMAIN disk'
  /\ \A p \in DOMAIN disk' :
       \/ p \in DOMAIN disk /\ disk'[p].last_lsn = disk[p].last_lsn
       \/ disk'[p].last_lsn = n /\ (p \in DOMAIN disk => disk[p].last_lsn < n)

(* redo_data is such a step of the files.                                   *)
LEMMA RedoDataStep ==
  ASSUME PageMap(disk), NEW n \in Nat, NEW p \in Pages, NEW rows \in Seq(Row),
         RedoData(n, p, rows)
  PROVE  DiskStep(n) /\ mt_file' = mt_file
<1> DEFINE pg == ReadOrCreate(p)
           new == WithRows(pg, rows, n)
<1>1. pg \in Page
  BY DEF ReadOrCreate, PageMap, NewPage, Page
<1>2. p \in DOMAIN disk => pg = disk[p]
  BY DEF ReadOrCreate
<1>3. /\ disk' = IF pg.last_lsn < n THEN write_page(p, new) ELSE disk
      /\ mt_file' = mt_file
  BY DEF RedoData
<1>. HIDE DEF pg
<1>4. new \in Page /\ new.last_lsn = n
  BY <1>1, PageExcept
<1>. HIDE DEF new
<1>5. CASE pg.last_lsn < n
  <2>1. disk' = write_page(p, new)
    BY <1>3, <1>5
  <2>2. /\ PageMap(write_page(p, new)) /\ DOMAIN write_page(p, new) = DOMAIN disk \union {p}
        /\ write_page(p, new)[p].last_lsn = n
        /\ \A q \in DOMAIN disk \ {p} : write_page(p, new)[q] = disk[q]
    BY <1>4, WritePage
  <2>. QED BY <1>2, <1>3, <1>5, <2>1, <2>2 DEF DiskStep
<1>6. CASE ~(pg.last_lsn < n)
  BY <1>3, <1>6 DEF DiskStep
<1>. QED BY <1>5, <1>6

(* A record that is not redone leaves the files as they are.                *)
LEMMA DiskStays ==
  ASSUME PageMap(disk), disk' = disk, NEW n PROVE DiskStep(n)
BY DEF DiskStep

(* So is redo of any record: links lead to records of the right kind.       *)
LEMMA RedoStep ==
  ASSUME TypeInv, Redo
  PROVE  DiskStep(redone + 1) /\ mt_file' \in MetaTable /\ redone + 1 \in 1 .. Len(log)
<1> DEFINE n == redone + 1
           r == log[n]
<1>1. n \in 1 .. Len(log) /\ Len(log) \in Nat /\ n \in Nat
  BY LenProperties DEF Redo, TypeInv, TypeOK
<1>2. PageMap(disk) /\ mt_file \in MetaTable
  BY DEF TypeInv, TypeOK, PageMap
<1>3. r \in Record /\ LinksBack(log, n) /\ RedoRecord(n)
  BY <1>1, ElementOfSeq DEF TypeInv, TypeOK, LinkInv, Redo
<1>. HIDE DEF n
<1>4. \A p \in Pages : ReadOrCreate(p).rows \in Seq(Row)
  BY <1>2 DEF ReadOrCreate, PageMap, NewPage, Page
<1>5. r.kind = "clr" => r.of \in 1 .. Len(log) /\ log[r.of] \in Record
  <2>1. r.kind = "clr" => r.of \in 1 .. Len(log)
    BY <1>1, <1>3 DEF LinksBack
  <2>. QED BY <2>1, ElementOfSeq DEF TypeInv, TypeOK
<1>. HIDE DEF r
<1>6. CASE /\ r.kind = "clr" /\ log[r.of].kind \in DataKinds
           /\ RedoData(n, log[r.of].page, UndoRows(log[r.of], ReadOrCreate(log[r.of].page).rows))
  <2>1. log[r.of].page \in Pages
    BY <1>5, <1>6, RecordFields
  <2>2. UndoRows(log[r.of], ReadOrCreate(log[r.of].page).rows) \in Seq(Row)
    BY <1>4, <1>5, <1>6, <2>1, RecoveredRowsType
  <2>. QED BY <1>1, <1>2, <1>6, <2>1, <2>2, RedoDataStep DEF n
<1>7. CASE r.kind = "clr" /\ log[r.of].kind = "update_table"
           /\ mt_file' = log[r.of].before /\ UNCHANGED disk
  BY <1>1, <1>2, <1>5, <1>7, RecordFields, DiskStays DEF n
<1>8. CASE r.kind \in DataKinds /\ RedoData(n, r.page, RedoRows(r, ReadOrCreate(r.page).rows))
  <2>0. r \in Record
    BY <1>3 DEF r
  <2>1. r.page \in Pages
    BY <1>8, <2>0, RecordFields
  <2>2. RedoRows(r, ReadOrCreate(r.page).rows) \in Seq(Row)
    BY <1>4, <1>8, <2>0, <2>1, RecoveredRowsType
  <2>. QED BY <1>1, <1>2, <1>8, <2>1, <2>2, RedoDataStep DEF n
<1>9. CASE r.kind = "update_table" /\ mt_file' = r.after /\ UNCHANGED disk
  BY <1>1, <1>2, <1>3, <1>9, RecordFields, DiskStays DEF n, r
<1>10. CASE UNCHANGED <<disk, mt_file>>
  BY <1>1, <1>2, <1>10, DiskStays DEF n
<1>. QED BY <1>3, <1>6, <1>7, <1>8, <1>9, <1>10 DEF RedoRecord, r

(* redo keeps the types.                                                    *)
LEMMA RedoType == ASSUME TypeInv, Redo PROVE TypeInv'
<1>1. PageMap(disk') /\ mt_file' \in MetaTable /\ redone + 1 \in 0 .. Len(log)
  BY RedoStep DEF DiskStep
<1>2. TypeOK'
  BY <1>1 DEF Redo, TypeInv, TypeOK, PageMap, memory, statement, history
<1>. QED BY <1>2 DEF Redo, TypeInv, LinkInv, StmtInv, InStatement, statement

(* The start of recovery, and of its UNDO pass.                             *)
LEMMA StartType == ASSUME TypeInv, Start \/ EndRedo PROVE TypeInv'
<1>1. active' \subseteq Txns
  <2>1. \A i \in DOMAIN log : log[i].txn \in Txns
    BY ElementOfSeq, RecordFields, LenProperties DEF TypeInv, TypeOK
  <2>. QED BY <2>1 DEF Start, EndRedo, recovery, TypeInv, TypeOK
<1>2. TypeOK'
  BY <1>1 DEF Start, EndRedo, TypeInv, TypeOK, files, memory, statement, recovery, history, Phases
<1>. QED BY <1>2 DEF Start, EndRedo, TypeInv, LinkInv, StmtInv, InStatement, files, statement

(* undo turns to a transaction of the log.                                  *)
LEMMA UndoTxnType == ASSUME TypeInv, NEW x \in Txns, UndoTxn(x) PROVE TypeInv'
<1>1. LastLsn(x, log) \in 0 .. Len(log)
  BY LastLsnType DEF TypeInv, TypeOK
<1>2. TypeOK'
  BY <1>1 DEF UndoTxn, TypeInv, TypeOK, files, memory, history
<1>. QED BY <1>2 DEF UndoTxn, TypeInv, LinkInv, StmtInv, InStatement, files

(* undo passes over a record to an earlier one.                             *)
LEMMA UndoSkipType == ASSUME TypeInv, UndoSkip PROVE TypeInv'
<1>1. current \in 1 .. Len(log) /\ Len(log) \in Nat
  BY LenProperties DEF UndoSkip, TypeInv, TypeOK
<1>2. log[current] \in Record /\ LinksBack(log, current)
  BY <1>1, ElementOfSeq DEF TypeInv, TypeOK, LinkInv
<1>3. log[current].prev \in Nat /\ (log[current].kind = "clr" => log[current].undo_next \in Nat)
  BY <1>2, RecordFields
<1>4. current' \in 0 .. Len(log)
  BY <1>1, <1>2, <1>3 DEF UndoSkip, LinksBack
<1>5. TypeOK'
  BY <1>4 DEF UndoSkip, TypeInv, TypeOK, files, memory, statement, history
<1>. QED BY <1>5 DEF UndoSkip, TypeInv, LinkInv, StmtInv, InStatement, files, statement

(* undo logs a compensation record that links back.                         *)
LEMMA UndoLogsType == ASSUME TypeInv, UndoLogs PROVE TypeInv' /\ Len(log') = Len(log) + 1
<1>1. current \in 1 .. Len(log) /\ Len(log) \in Nat
  BY LenProperties DEF UndoLogs, TypeInv, TypeOK
<1>2. log[current] \in Record /\ LinksBack(log, current)
  BY <1>1, ElementOfSeq DEF TypeInv, TypeOK, LinkInv
<1>3. log[current].prev \in Nat /\ log[current].txn \in Txns
  BY <1>2, RecordFields
<1>4. log[current].kind \in DataKinds \union {"update_table"}
  BY DEF UndoLogs, Undoable
<1> DEFINE r == make_clr(current)
<1>5. /\ r \in Record /\ r.prev = 0 /\ r.of = current /\ r.undo_next = log[current].prev
      /\ log' = Append(log, r)
  BY <1>1, <1>3 DEF make_clr, Record, UndoLogs
<1>. HIDE DEF r
<1>6. log[current].prev \in 0 .. Len(log)
  BY <1>1, <1>2, <1>3 DEF LinksBack
<1>7. Extends(log, log') /\ Len(log') = Len(log) + 1
  <2>1. log \in Seq(Record) /\ \A i \in 1 .. Len(log) : LinksBack(log, i)
    BY DEF TypeInv, TypeOK, LinkInv
  <2>. QED BY <1>1, <1>4, <1>5, <1>6, <2>1, AppendExtends
<1>8. /\ log' \in Seq(Record) /\ LinkInv'
      /\ redone \in 0 .. Len(log') /\ current \in 0 .. Len(log')
  BY <1>7, LogGrows
<1>9. TypeOK'
  <2>1. durable' \in 0 .. Len(log')
    BY <1>1, <1>7 DEF UndoLogs
  <2>. QED BY <1>8, <2>1 DEF UndoLogs, TypeInv, TypeOK, memory, statement, recovery, history, Phases
<1>10. log'[current] = log[current]
  BY <1>1, <1>7 DEF Extends
<1>11. StmtInv'
  BY <1>10 DEF UndoLogs, TypeInv, StmtInv, InStatement, statement, recovery, Undoable
<1>. QED BY <1>7, <1>8, <1>9, <1>11 DEF TypeInv

(* UndoApplies changes one page file, or the table's metadata.              *)
LEMMA UndoAppliesStep ==
  ASSUME TypeInv, UndoApplies
  PROVE  /\ PageMap(disk') /\ DOMAIN disk' = DOMAIN disk
         /\ \A p \in DOMAIN disk : disk'[p].last_lsn \in {disk[p].last_lsn, Len(log)}
         /\ mt_file' \in MetaTable /\ current' \in 0 .. Len(log)
<1> DEFINE r == log[current]
<1>1. current \in 1 .. Len(log) /\ Len(log) \in Nat /\ Undoable(r)
  BY LenProperties DEF UndoApplies, TypeInv, TypeOK, StmtInv
<1>2. r \in Record /\ LinksBack(log, current)
  BY <1>1, ElementOfSeq DEF TypeInv, TypeOK, LinkInv
<1>3. current' \in 0 .. Len(log)
  BY <1>1, <1>2, RecordFields DEF UndoApplies, LinksBack
<1>4. PageMap(disk) /\ mt_file \in MetaTable
  BY DEF TypeInv, TypeOK, PageMap
<1>5. CASE r.kind = "update_table"
  <2>1. mt_file' = r.before /\ disk' = disk
    BY <1>5 DEF UndoApplies
  <2>. QED BY <1>2, <1>3, <1>4, <1>5, <2>1, RecordFields
<1>6. CASE r.kind # "update_table"
  <2> DEFINE rows == UndoRows(r, disk[r.page].rows)
             new == WithRows(disk[r.page], rows, Len(log))
  <2>1. r.kind \in DataKinds /\ r.page \in DOMAIN disk
    BY <1>1, <1>6 DEF Undoable
  <2>2. r.page \in Pages /\ disk[r.page] \in Page /\ disk[r.page].rows \in Seq(Row)
    BY <1>2, <1>4, <2>1, RecordFields DEF PageMap, Page
  <2>3. disk' = write_page(r.page, new) /\ mt_file' = mt_file
    BY <1>6 DEF UndoApplies
  <2>. HIDE DEF r
  <2>4. rows \in Seq(Row)
    BY <1>2, <2>1, <2>2, RecoveredRowsType DEF r
  <2>. HIDE DEF rows
  <2>5. new \in Page /\ new.last_lsn = Len(log)
    BY <1>1, <2>2, <2>4, PageExcept
  <2>. HIDE DEF new
  <2>6. /\ PageMap(write_page(r.page, new))
        /\ DOMAIN write_page(r.page, new) = DOMAIN disk \union {r.page}
        /\ write_page(r.page, new)[r.page].last_lsn = Len(log)
        /\ \A q \in DOMAIN disk \ {r.page} : write_page(r.page, new)[q] = disk[q]
    BY <1>4, <2>2, <2>5, WritePage
  <2>. QED BY <1>3, <1>4, <2>1, <2>3, <2>6
<1>. QED BY <1>5, <1>6

(* undo keeps the types.                                                    *)
LEMMA UndoAppliesType == ASSUME TypeInv, UndoApplies PROVE TypeInv'
<1>1. PageMap(disk') /\ mt_file' \in MetaTable /\ current' \in 0 .. Len(log)
  BY UndoAppliesStep
<1>2. TypeOK'
  BY <1>1 DEF UndoApplies, TypeInv, TypeOK, PageMap, memory, statement, history, Phases
<1>. QED BY <1>2 DEF UndoApplies, TypeInv, LinkInv, StmtInv, InStatement, statement

(* undo logs the rollback marker.                                           *)
LEMMA UndoEndType == ASSUME TypeInv, UndoEnd PROVE TypeInv' /\ Len(log') = Len(log) + 1
<1> DEFINE r == [kind |-> "rollback", txn |-> txn, prev |-> 0]
<1>1. r \in Record /\ r.prev = 0 /\ r.kind # "clr" /\ Len(log) \in Nat
  BY LenProperties DEF UndoEnd, TypeInv, TypeOK, Record
<1>2. log' = Append(log, r)
  BY DEF UndoEnd
<1>. HIDE DEF r
<1>3. Extends(log, log') /\ Len(log') = Len(log) + 1
  BY <1>1, <1>2, AppendExtends DEF TypeInv, TypeOK, LinkInv
<1>4. /\ log' \in Seq(Record) /\ LinkInv'
      /\ redone \in 0 .. Len(log') /\ current \in 0 .. Len(log')
  BY <1>3, LogGrows
<1>5. TypeOK'
  BY <1>1, <1>3, <1>4 DEF UndoEnd, TypeInv, TypeOK, memory, history
<1>. QED BY <1>3, <1>4, <1>5 DEF UndoEnd, TypeInv, StmtInv, InStatement

(* map_data_pages lists page files of the table.                            *)
LEMMA RecoveredType == ASSUME TypeInv, Recovered PROVE TypeInv'
<1>1. Cardinality(DOMAIN disk) \in Nat
  BY ConstantsAssumption, FS_Subset, FS_CardinalityType DEF TypeInv, TypeOK
<1>2. pages' \in [1 .. Cardinality(DOMAIN disk) -> Pages]
  BY DEF Recovered, TypeInv, TypeOK
<1>3. pages' \in Seq(Pages)
  BY <1>1, <1>2
<1>4. TypeOK'
  BY <1>3, LenProperties
     DEF Recovered, TypeInv, TypeOK, files, statement, history, Phases
<1>. QED BY <1>4 DEF Recovered, TypeInv, LinkInv, StmtInv, InStatement, files, statement

(* Every step keeps the inductive invariant.                                *)
LEMMA NextType == TypeInv /\ [Next]_vars => TypeInv'
<1>. SUFFICES ASSUME TypeInv, [Next]_vars PROVE TypeInv'
  OBVIOUS
<1>1. ASSUME NEW x \in Txns, BeginInsert(x) PROVE TypeInv'
  BY <1>1, BeginInsertType
<1>2. ASSUME NEW v \in Vals, InsertRow(v) PROVE TypeInv'
  BY <1>2, InsertRowType
<1>3. CASE InsertThrows
  BY <1>3, InsertThrowsType
<1>4. ASSUME NEW x \in Txns, NEW kind \in {"update", "delete"}, BeginOnRows(x, kind)
      PROVE  TypeInv'
  BY <1>4, BeginOnRowsType
<1>5. ASSUME NEW t \in todo, NEW v \in Vals, UpdateRow(t, v) \/ UpdateThrows(t, v)
      PROVE  TypeInv'
  <2>1. RowStep(t)
    BY <1>5, UpdateIsRowStep
  <2>2. lost_flags' \in Nat
    <3>1. lost_flags \in Nat
      BY DEF TypeInv, TypeOK
    <3>2. \E lost : lost_flags' = IF lost THEN lost_flags + 1 ELSE lost_flags
      BY <1>5 DEF UpdateRow, UpdateThrows
    <3>. QED BY <3>1, <3>2
  <2>. QED BY <1>5, <2>1, <2>2, RowStepType DEF UpdateRow, UpdateThrows
<1>6. ASSUME NEW t \in todo, DeleteRow(t) PROVE TypeInv'
  <2>1. RowStep(t)
    BY <1>6, DeleteIsRowStep
  <2>2. lost_flags' \in Nat
    BY <1>6 DEF DeleteRow, TypeInv, TypeOK, history
  <2>. QED BY <1>6, <2>1, <2>2, RowStepType DEF DeleteRow, history
<1>7. CASE Committing
  BY <1>7, CommitType, WaitForDurableType, FlushDirtyType, CommitDoneType DEF Committing
<1>8. CASE Recovering
  BY <1>8, StartType, RedoType, UndoTxnType, UndoSkipType, UndoLogsType, UndoAppliesType,
     UndoEndType, RecoveredType DEF Recovering
<1>9. CASE \E p \in Pages : Evict(p)
  BY <1>9, EvictType
<1>10. CASE Crash
  <2>1. PICK k \in durable .. Len(log) : Die(k)
    BY <1>10 DEF Crash
  <2>2. mt_file' \in MetaTable
    BY <1>10 DEF Crash, TypeInv, TypeOK
  <2>. QED BY <2>1, <2>2, DieType
<1>11. CASE Close
  <2>1. durable \in durable .. Len(log) /\ mt_file' \in MetaTable
    BY <1>11, LenProperties DEF Close, TypeInv, TypeOK
  <2>. QED BY <1>11, <2>1, DieType DEF Close
<1>12. CASE UNCHANGED vars
  BY <1>12 DEF vars, files, memory, statement, recovery, history, TypeInv, TypeOK, LinkInv,
               StmtInv, Undoable
<1>. QED BY <1>1, <1>2, <1>3, <1>4, <1>5, <1>6, <1>7, <1>8, <1>9, <1>10, <1>11, <1>12
         DEF Next, Statement

(* The inductive invariant holds throughout.                                *)
LEMMA TypeInvHolds == Spec => []TypeInv
BY InitType, NextType, PTL DEF Spec

(* Type correctness of a table and its recovery: in every reachable state,  *)
(* whatever statements fail and wherever the process is killed, links in the*)
(* log stay inside it, dirty entries are cached, the rows an UPDATE or      *)
(* DELETE still visits exist and the counter stays in its width.            *)
THEOREM TypeCorrect == Spec => []TypeOK
<1>1. TypeInv => TypeOK
  BY DEF TypeInv
<1>. QED BY <1>1, TypeInvHolds, PTL

-----------------------------------------------------------------------------
(* The write-ahead rule                                                    *)

(* A cached page is not older than its file and not newer than the log; the *)
(* log is durable whenever page files are written; recovery starts from an  *)
(* empty cache.                                                             *)
LsnInv ==
  /\ phase \in {"flushing", "down", "redo", "undo", "undo_apply"} => durable = Len(log)
  /\ phase \in {"down", "redo", "undo", "undo_apply"} => DOMAIN cache = {}
  /\ \A p \in DOMAIN cache :
       /\ cache[p].last_lsn <= Len(log)
       /\ p \in DOMAIN disk => disk[p].last_lsn <= cache[p].last_lsn
  /\ WriteAhead

(* Page files keep existing and do not go back to an older LSN.             *)
LsnsUp == \A p \in DOMAIN disk : p \in DOMAIN disk' /\ disk[p].last_lsn <= disk'[p].last_lsn

(* LSNs are numbers.                                                        *)
LEMMA LsnNat ==
  ASSUME TypeInv
  PROVE  /\ Len(log) \in Nat /\ durable \in Nat /\ durable <= Len(log)
         /\ \A p \in DOMAIN cache : cache[p].last_lsn \in Nat
         /\ \A p \in DOMAIN disk : disk[p].last_lsn \in Nat
BY LenProperties DEF TypeInv, TypeOK, Page

(* Steps that write no page file and change no page's LSN.                  *)
LEMMA QuietLsn ==
  ASSUME TypeInv, TypeInv', LsnInv, UNCHANGED <<disk, cache>>, durable <= durable',
         Len(log) <= Len(log'),
         phase' \in {"flushing", "down", "redo", "undo", "undo_apply"} => durable' = Len(log'),
         phase' \in {"down", "redo", "undo", "undo_apply"} => DOMAIN cache = {}
  PROVE  LsnInv' /\ LsnsUp
<1>1. /\ Len(log) \in Nat /\ Len(log') \in Nat /\ durable \in Nat /\ durable' \in Nat
      /\ \A p \in DOMAIN cache : cache[p].last_lsn \in Nat
      /\ \A p \in DOMAIN disk : disk[p].last_lsn \in Nat
  BY LsnNat, LenProperties DEF TypeInv, TypeOK
<1>. QED BY <1>1 DEF LsnInv, WriteAhead, LsnsUp

(* get_table_data and prepare_dp bring in pages as their files have them.   *)
LEMMA LoadedLsn ==
  ASSUME TypeInv, LsnInv, NEW p \in DOMAIN get_table_data
  PROVE  /\ get_table_data[p].last_lsn \in Nat /\ get_table_data[p].last_lsn <= Len(log)
         /\ p \in DOMAIN disk => disk[p].last_lsn <= get_table_data[p].last_lsn
<1>1. /\ p \in DOMAIN cache => get_table_data[p] = cache[p]
      /\ p \notin DOMAIN cache => p \in DOMAIN disk /\ get_table_data[p] = disk[p]
  BY TableDataType DEF TypeInv, TypeOK, PageMap
<1>. QED BY <1>1, LsnNat DEF LsnInv, WriteAhead

(* The same for the pages prepare_dp leaves in the cache.                   *)
LEMMA PreparedLsn ==
  ASSUME TypeInv, LsnInv, NEW p \in Pages, MayPrepare(p), NEW q \in DOMAIN PrepareDp(p).cache
  PROVE  /\ PrepareDp(p).cache[q].last_lsn \in Nat
         /\ PrepareDp(p).cache[q].last_lsn <= Len(log)
         /\ q \in DOMAIN disk => disk[q].last_lsn <= PrepareDp(p).cache[q].last_lsn
<1>1. \/ /\ q \in DOMAIN get_table_data
         /\ PrepareDp(p).cache[q].last_lsn = get_table_data[q].last_lsn
      \/ q \notin DOMAIN disk /\ PrepareDp(p).cache[q].last_lsn = 0
  BY PrepareDpType DEF TypeInv, TypeOK, PageMap
<1>. QED BY <1>1, LoadedLsn, LsnNat

(* insert_row stamps its page with the LSN of its last record.              *)
LEMMA InsertRowLsn ==
  ASSUME TypeInv, TypeInv', LsnInv, NEW v \in Vals, InsertRow(v) PROVE LsnInv' /\ LsnsUp
<1> DEFINE row == [id |-> mt.last_rid, val |-> v, obsolete |-> FALSE]
<1>1. PICK p \in Pages :
        /\ MayPrepare(p)
        /\ log' = LogTable(LogRow(log, txn, "insert", p, row, row), txn, mt, TableAfterInsert)
        /\ cache' = [PrepareDp(p).cache EXCEPT
                       ![p] = WithRows(@, Append(@.rows, row), Len(log'))]
  BY DEF InsertRow
<1>2. row \in Row /\ txn \in Txns /\ TableAfterInsert \in MetaTable
  BY CountersType DEF InsertRow, TypeInv, TypeOK, StmtInv, InStatement, MetaTable, Row
<1>. HIDE DEF row
<1>3. Len(log') = Len(log) + 2 /\ Len(log) \in Nat
  <2>1. /\ log \in Seq(Record) /\ mt \in MetaTable
        /\ \A i \in 1 .. Len(log) : LinksBack(log, i)
    BY DEF TypeInv, TypeOK, LinkInv
  <2>2. "insert" \in DataKinds
    BY DEF DataKinds
  <2>3. Len(LogTable(LogRow(log, txn, "insert", p, row, row), txn, mt, TableAfterInsert))
          = Len(log) + 2
    BY <1>2, <2>1, <2>2, RowThenTable
  <2>. QED BY <1>1, <2>3, LsnNat
<1> DEFINE d == PrepareDp(p).cache
           pg == d[p]
           n == Len(log')
           new == WithRows(pg, Append(pg.rows, row), n)
<1>4. pg \in Page /\ p \in DOMAIN d
  BY <1>1, PrepareDpType DEF TypeInv, TypeOK, PageMap
<1>5. \A q \in DOMAIN d : /\ d[q].last_lsn \in Nat /\ d[q].last_lsn <= Len(log)
                          /\ q \in DOMAIN disk => disk[q].last_lsn <= d[q].last_lsn
  BY <1>1, PreparedLsn
<1>6. cache' = [d EXCEPT ![p] = new]
  BY <1>1
<1>. HIDE DEF d, pg
<1>7. Append(pg.rows, row) \in Seq(Row)
  BY <1>2, <1>4, AppendProperties DEF Page
<1>8. new.last_lsn = Len(log')
  <2>1. n \in Nat
    BY <1>3
  <2>. HIDE DEF n
  <2>. QED BY <1>4, <1>7, <2>1, PageExcept DEF n
<1>. HIDE DEF new
<1>9. \A q \in DOMAIN cache' : /\ cache'[q].last_lsn <= Len(log')
                               /\ q \in DOMAIN disk => disk[q].last_lsn <= cache'[q].last_lsn
  <2>. SUFFICES ASSUME NEW q \in DOMAIN cache'
                PROVE  /\ cache'[q].last_lsn <= Len(log')
                       /\ q \in DOMAIN disk => disk[q].last_lsn <= cache'[q].last_lsn
    OBVIOUS
  <2>1. q \in DOMAIN d
    BY <1>6
  <2>2. q \in DOMAIN disk => disk[q].last_lsn \in Nat
    BY LsnNat
  <2>3. CASE q = p
    <3>1. cache'[q].last_lsn = Len(log')
      BY <1>4, <1>6, <1>8, <2>3
    <3>. QED BY <1>3, <1>5, <2>1, <2>2, <3>1
  <2>4. CASE q # p
    <3>1. cache'[q] = d[q]
      BY <1>6, <2>1, <2>4
    <3>. QED BY <1>3, <1>5, <2>1, <3>1
  <2>. QED BY <2>3, <2>4
<1>10. \A q \in DOMAIN disk : disk[q].last_lsn \in Nat
  BY LsnNat
<1>11. phase = "insert" /\ UNCHANGED <<phase, durable, disk>>
  BY DEF InsertRow
<1>. QED BY <1>9, <1>10, <1>11 DEF LsnInv, WriteAhead, LsnsUp

(* A failed insert_row stamps no page.                                      *)
LEMMA InsertThrowsLsn ==
  ASSUME TypeInv, TypeInv', LsnInv, InsertThrows PROVE LsnInv' /\ LsnsUp
<1>1. PICK p \in Pages : MayPrepare(p) /\ cache' = PrepareDp(p).cache
  BY DEF InsertThrows
<1>2. \A q \in DOMAIN cache' : /\ cache'[q].last_lsn <= Len(log)
                               /\ q \in DOMAIN disk => disk[q].last_lsn <= cache'[q].last_lsn
  BY <1>1, PreparedLsn
<1>. QED BY <1>2, LsnNat DEF InsertThrows, LsnInv, WriteAhead, LsnsUp, files

(* A scan reads pages at the LSN of their files.                            *)
LEMMA BeginOnRowsLsn ==
  ASSUME TypeInv, TypeInv', LsnInv, NEW x \in Txns, NEW kind \in {"update", "delete"},
         BeginOnRows(x, kind)
  PROVE  LsnInv' /\ LsnsUp
<1>1. Len(log') = Len(log) + 1 /\ Len(log) \in Nat
  BY LogMarkExtends, LsnNat DEF BeginOnRows, TypeInv, TypeOK, LinkInv
<1>2. \A q \in DOMAIN cache' : /\ cache'[q].last_lsn \in Nat /\ cache'[q].last_lsn <= Len(log)
                               /\ q \in DOMAIN disk => disk[q].last_lsn <= cache'[q].last_lsn
  BY LoadedLsn DEF BeginOnRows
<1>. QED BY <1>1, <1>2, LsnNat DEF BeginOnRows, LsnInv, WriteAhead, LsnsUp

(* update_row and delete_rows stamp a page with an LSN of the log, or not at all. *)
LEMMA RowStepLsn ==
  ASSUME TypeInv, TypeInv', LsnInv, NEW t \in todo, RowStep(t), UNCHANGED <<durable, disk>>,
         phase' \in {"idle", "update", "delete"}
  PROVE  LsnInv' /\ LsnsUp
<1>1. PICK pg \in Page : /\ cache' = [cache EXCEPT ![t[1]] = pg]
                         /\ pg.last_lsn \in {cache[t[1]].last_lsn, Len(log) + 1}
  BY DEF RowStep
<1>2. t[1] \in DOMAIN cache /\ Len(log') = Len(log) + 2
  BY DEF TypeInv, TypeOK, RowStep
<1>3. \A q \in DOMAIN cache' : /\ cache'[q].last_lsn <= Len(log')
                               /\ q \in DOMAIN disk => disk[q].last_lsn <= cache'[q].last_lsn
  BY <1>1, <1>2, LsnNat DEF LsnInv
<1>. QED BY <1>3, LsnNat DEF LsnInv, WriteAhead, LsnsUp

(* flush_dirty runs with the whole log durable.                             *)
LEMMA FlushDirtyLsn ==
  ASSUME TypeInv, TypeInv', LsnInv, NEW p \in Pages, FlushDirty(p) PROVE LsnInv' /\ LsnsUp
<1>1. p \in DOMAIN cache /\ cache[p] \in Page /\ PageMap(disk)
  BY DEF FlushDirty, Flushable, TypeInv, TypeOK, PageMap
<1>2. /\ DOMAIN disk' = DOMAIN disk \union {p}
      /\ disk'[p].last_lsn = cache[p].last_lsn
      /\ \A q \in DOMAIN disk \ {p} : disk'[q] = disk[q]
  BY <1>1, WritePage DEF FlushDirty
<1>3. durable = Len(log) /\ UNCHANGED <<phase, log, durable, cache>> /\ phase = "flushing"
  BY DEF FlushDirty, LsnInv
<1>. QED BY <1>1, <1>2, <1>3, LsnNat DEF LsnInv, WriteAhead, LsnsUp

(* Dropping a clean page writes nothing.                                    *)
LEMMA EvictLsn ==
  ASSUME Evictions # "any", TypeInv, TypeInv', LsnInv, NEW p \in Pages, Evict(p)
  PROVE  LsnInv' /\ LsnsUp
<1>1. disk' = disk /\ UNCHANGED <<phase, log, durable>> /\ phase = "idle"
  BY DEF Evict
<1>2. \A q \in DOMAIN cache' : q \in DOMAIN cache /\ cache'[q] = cache[q]
  BY DEF Evict
<1>. QED BY <1>1, <1>2, LsnNat DEF LsnInv, WriteAhead, LsnsUp

(* A crash keeps the durable part of the log, which covers the files.       *)
LEMMA DieLsn ==
  ASSUME TypeInv, TypeInv', LsnInv, NEW k \in durable .. Len(log), Die(k), Len(log') = k
  PROVE  LsnInv' /\ LsnsUp
<1>1. durable' = k /\ disk' = disk /\ DOMAIN cache' = {}
  BY DEF Die
<1>2. \A q \in DOMAIN disk : disk[q].last_lsn <= k
  BY LsnNat DEF LsnInv, WriteAhead
<1>. QED BY <1>1, <1>2, LsnNat DEF LsnInv, WriteAhead, LsnsUp

(* redo_data moves a page up to the LSN of a durable record.                *)
LEMMA RedoLsn ==
  ASSUME TypeInv, TypeInv', LsnInv, Redo PROVE LsnInv' /\ LsnsUp
<1>1. DiskStep(redone + 1) /\ redone + 1 \in 1 .. Len(log)
  BY RedoStep
<1>2. UNCHANGED <<phase, log, durable, cache>> /\ phase = "redo"
  BY DEF Redo, memory
<1>. HIDE DEF DiskStep
<1>3. LsnsUp
  BY <1>1, LsnNat DEF DiskStep, LsnsUp
<1>4. WriteAhead'
  BY <1>1, <1>2, LsnNat DEF DiskStep, LsnInv, WriteAhead
<1>. QED BY <1>2, <1>3, <1>4 DEF LsnInv

(* undo stamps a page with its flushed compensation record.                 *)
LEMMA UndoAppliesLsn ==
  ASSUME TypeInv, TypeInv', LsnInv, UndoApplies PROVE LsnInv' /\ LsnsUp
<1>1. /\ DOMAIN disk' = DOMAIN disk
      /\ \A p \in DOMAIN disk : disk'[p].last_lsn \in {disk[p].last_lsn, Len(log)}
  BY UndoAppliesStep
<1>2. UNCHANGED <<log, durable, cache>> /\ phase = "undo_apply" /\ phase' = "undo"
  BY DEF UndoApplies, memory
<1>3. durable = Len(log) /\ DOMAIN cache = {}
  BY <1>2 DEF LsnInv
<1>. QED BY <1>1, <1>2, <1>3, LsnNat DEF LsnInv, WriteAhead, LsnsUp

(* The steps of commit and recovery that only touch the log and the phase.  *)
LEMMA QuietSteps ==
  ASSUME TypeInv, TypeInv', LsnInv,
         \/ \E x \in Txns : BeginInsert(x) \/ UndoTxn(x)
         \/ Commit \/ WaitForDurable \/ CommitDone
         \/ Start \/ EndRedo \/ UndoSkip \/ UndoLogs \/ UndoEnd \/ Recovered
         \/ UNCHANGED vars
  PROVE  LsnInv' /\ LsnsUp
<1>0. Len(log) \in Nat /\ durable \in Nat /\ durable <= Len(log)
  BY LsnNat
<1>1. ASSUME NEW x \in Txns, BeginInsert(x) PROVE LsnInv' /\ LsnsUp
  <2>1. Len(log') = Len(log) + 1
    BY <1>1, LogMarkExtends DEF BeginInsert, TypeInv, TypeOK, LinkInv
  <2>. QED BY <1>0, <1>1, <2>1, QuietLsn DEF BeginInsert, memory
<1>2. ASSUME NEW x \in Txns, UndoTxn(x) PROVE LsnInv' /\ LsnsUp
  BY <1>0, <1>2, QuietLsn DEF UndoTxn, files, memory, LsnInv
<1>3. CASE Commit
  <2>1. Len(log') = Len(log) + 1
    BY <1>3, LogMarkExtends DEF Commit, TypeInv, TypeOK, LinkInv, StmtInv
  <2>. QED BY <1>0, <1>3, <2>1, QuietLsn DEF Commit, memory
<1>4. CASE WaitForDurable
  BY <1>0, <1>4, QuietLsn DEF WaitForDurable, memory
<1>5. CASE CommitDone
  BY <1>0, <1>5, QuietLsn DEF CommitDone, files, memory
<1>6. CASE Start \/ EndRedo \/ UndoSkip
  BY <1>0, <1>6, QuietLsn DEF Start, EndRedo, UndoSkip, files, memory, LsnInv
<1>7. CASE UndoLogs
  <2>1. Len(log') = Len(log) + 1
    BY <1>7, UndoLogsType
  <2>. QED BY <1>0, <1>7, <2>1, QuietLsn DEF UndoLogs, memory, LsnInv
<1>8. CASE UndoEnd
  <2>1. Len(log') = Len(log) + 1
    BY <1>8, UndoEndType
  <2>. QED BY <1>0, <1>8, <2>1, QuietLsn DEF UndoEnd, memory, LsnInv
<1>9. CASE Recovered
  BY <1>0, <1>9, QuietLsn DEF Recovered, files
<1>10. CASE UNCHANGED vars
  BY <1>0, <1>10, QuietLsn DEF vars, files, memory, LsnInv
<1>. QED BY <1>1, <1>2, <1>3, <1>4, <1>5, <1>6, <1>7, <1>8, <1>9, <1>10

(* Every step keeps LsnInv and takes no page file back.                     *)
LEMMA NextLsn ==
  ASSUME Evictions # "any", TypeInv, LsnInv, [Next]_vars PROVE LsnInv' /\ LsnsUp
<1>. USE NextType
<1>1. ASSUME NEW v \in Vals, InsertRow(v) PROVE LsnInv' /\ LsnsUp
  BY <1>1, InsertRowLsn
<1>2. CASE InsertThrows
  BY <1>2, InsertThrowsLsn
<1>3. ASSUME NEW x \in Txns, NEW kind \in {"update", "delete"}, BeginOnRows(x, kind)
      PROVE  LsnInv' /\ LsnsUp
  BY <1>3, BeginOnRowsLsn
<1>4. ASSUME NEW t \in todo, NEW v \in Vals, UpdateRow(t, v) \/ UpdateThrows(t, v)
      PROVE  LsnInv' /\ LsnsUp
  <2>1. RowStep(t)
    BY <1>4, UpdateIsRowStep
  <2>2. UNCHANGED <<durable, disk>> /\ phase' \in {"idle", "update", "delete"}
    BY <1>4 DEF UpdateRow, UpdateThrows
  <2>. QED BY <2>1, <2>2, RowStepLsn
<1>5. ASSUME NEW t \in todo, DeleteRow(t) PROVE LsnInv' /\ LsnsUp
  <2>1. RowStep(t)
    BY <1>5, DeleteIsRowStep
  <2>2. UNCHANGED <<durable, disk>> /\ phase' \in {"idle", "update", "delete"}
    BY <1>5 DEF DeleteRow
  <2>. QED BY <2>1, <2>2, RowStepLsn
<1>6. ASSUME NEW p \in Pages, FlushDirty(p) PROVE LsnInv' /\ LsnsUp
  BY <1>6, FlushDirtyLsn
<1>7. ASSUME NEW p \in Pages, Evict(p) PROVE LsnInv' /\ LsnsUp
  BY <1>7, EvictLsn
<1>8. CASE Crash
  <2>1. PICK k \in durable .. Len(log) : Die(k)
    BY <1>8 DEF Crash
  <2>2. mt_file' \in MetaTable
    BY <1>8 DEF Crash, TypeInv, TypeOK
  <2>. QED BY <2>1, <2>2, DieType, DieLsn
<1>9. CASE Close
  <2>1. durable \in durable .. Len(log) /\ mt_file' \in MetaTable
    BY <1>9, LenProperties DEF Close, TypeInv, TypeOK
  <2>. QED BY <1>9, <2>1, DieType, DieLsn DEF Close
<1>10. CASE Redo
  BY <1>10, RedoLsn
<1>11. CASE UndoApplies
  BY <1>11, UndoAppliesLsn
<1>12. ASSUME \/ \E x \in Txns : BeginInsert(x) \/ UndoTxn(x)
              \/ Commit \/ WaitForDurable \/ CommitDone
              \/ Start \/ EndRedo \/ UndoSkip \/ UndoLogs \/ UndoEnd \/ Recovered
              \/ UNCHANGED vars
       PROVE  LsnInv' /\ LsnsUp
  BY <1>12, QuietSteps
<1>. QED BY <1>1, <1>2, <1>3, <1>4, <1>5, <1>6, <1>7, <1>8, <1>9, <1>10, <1>11, <1>12
         DEF Next, Statement, Committing, Recovering

(* The initial state.                                                       *)
LEMMA InitLsn == Init => LsnInv
BY DEF Init, LsnInv, WriteAhead

(* Both invariants hold throughout.                                         *)
LEMMA LsnInvHolds == ASSUME Evictions # "any" PROVE Spec => [](TypeInv /\ LsnInv)
<1>1. TypeInv /\ LsnInv /\ [Next]_vars => (TypeInv /\ LsnInv)'
  BY NextType, NextLsn
<1>. QED BY <1>1, InitType, InitLsn, PTL DEF Spec

(* The write-ahead rule, as long as a full cache only drops clean pages: in *)
(* no reachable state does a page file hold a change whose log record could *)
(* still be lost (flush_dirty after wait_for_durable, undo's log flush,     *)
(* redo_data), for any number of pages, crashes and failed statements.      *)
THEOREM WriteAheadHolds == ASSUME Evictions # "any" PROVE Spec => []WriteAhead
<1>1. LsnInv => WriteAhead
  BY DEF LsnInv
<1>. QED BY <1>1, LsnInvHolds, PTL

(* No write of a page file, by a commit, by redo or by undo, replaces it by *)
(* an older version.                                                        *)
THEOREM PageLsnsNeverFall == ASSUME Evictions # "any" PROVE Spec => PageLsnMonotone
<1>1. ASSUME TypeInv, LsnInv, [Next]_vars
      PROVE  [\A p \in DOMAIN disk : /\ p \in DOMAIN disk'
                                     /\ disk[p].last_lsn <= disk'[p].last_lsn]_vars
  BY <1>1, NextLsn DEF LsnsUp
<1>. QED BY <1>1, LsnInvHolds, PTL DEF Spec, PageLsnMonotone
=============================================================================
