--------------------------- MODULE LiveRowProofs ---------------------------
(* Proofs about the live_rows of a table's metadata in Storage: as long as   *)
(* no statement fails, the counter is the number of the table's rows, for    *)
(* every number of pages, values, transactions, crashes (also inside         *)
(* recovery) and restarts, and for every width of the counter.               *)
EXTENDS TableProofs

-----------------------------------------------------------------------------
(* The counter                                                             *)

(* Quotient and remainder are unique.                                        *)
LEMMA ModIs ==
  ASSUME NEW C \in Nat \ {0}, NEW a \in Nat, NEW q \in Int, NEW r \in 0 .. C - 1, a = C * q + r
  PROVE  a % C = r
<1> DEFINE k == a \div C
           s == a % C
<1>1. k \in Int /\ s \in 0 .. C - 1 /\ a = C * k + s
  BY SMT
<1>. HIDE DEF k, s
<1>2. CASE q = k
  BY <1>1, <1>2 DEF s
<1>3. CASE q >= k + 1
  <2>1. q - k - 1 >= 0 /\ C * (q - k - 1) = C * q - C * k - C
    BY <1>1, <1>3
  <2>2. C * (q - k - 1) >= 0
    BY <1>1, <2>1
  <2>. QED BY <1>1, <2>1, <2>2
<1>4. CASE k >= q + 1
  <2>1. k - q - 1 >= 0 /\ C * (k - q - 1) = C * k - C * q - C
    BY <1>1, <1>4
  <2>2. C * (k - q - 1) >= 0
    BY <1>1, <2>1
  <2>. QED BY <1>1, <2>1, <2>2
<1>. QED BY <1>1, <1>2, <1>3, <1>4

(* Quotient and remainder exist.                                             *)
LEMMA ModDiv ==
  ASSUME NEW C \in Nat \ {0}, NEW a \in Nat
  PROVE  \E q \in Int : a % C \in 0 .. C - 1 /\ a = C * q + (a % C)
<1>1. a \div C \in Int /\ a % C \in 0 .. C - 1 /\ a = C * (a \div C) + (a % C)
  BY SMT
<1>. QED BY <1>1

(* Counting up, modulo the width of the counter.                             *)
LEMMA ModUp ==
  ASSUME NEW C \in Nat \ {0}, NEW a \in Nat PROVE ((a % C) + 1) % C = (a + 1) % C
<1>1. PICK q \in Int : a % C \in 0 .. C - 1 /\ a = C * q + (a % C)
  BY ModDiv
<1>2. PICK r : r = a % C
  OBVIOUS
<1>3. CASE r + 1 < C
  <2>1. r + 1 \in 0 .. C - 1 /\ a + 1 = C * q + (r + 1) /\ r + 1 = C * 0 + (r + 1)
    BY <1>1, <1>2, <1>3
  <2>2. (a + 1) % C = r + 1
    <3>1. a + 1 \in Nat
      OBVIOUS
    <3>. QED BY <2>1, <3>1, ModIs
  <2>3. (r + 1) % C = r + 1
    BY <2>1, ModIs
  <2>. QED BY <1>2, <2>2, <2>3
<1>4. CASE r + 1 = C
  <2>1. C * (q + 1) = C * q + C
    BY <1>1
  <2>2. 0 \in 0 .. C - 1 /\ a + 1 = C * (q + 1) + 0 /\ r + 1 = C * 1 + 0 /\ q + 1 \in Int
    BY <1>1, <1>2, <1>4, <2>1
  <2>3. (a + 1) % C = 0
    <3>1. a + 1 \in Nat
      OBVIOUS
    <3>. QED BY <2>2, <3>1, ModIs
  <2>4. (r + 1) % C = 0
    BY <1>1, <1>2, <2>2, ModIs
  <2>. QED BY <1>2, <2>3, <2>4
<1>. QED BY <1>1, <1>2, <1>3, <1>4

(* Counting down.                                                            *)
LEMMA ModDown ==
  ASSUME NEW C \in Nat \ {0}, NEW a \in Nat, a > 0 PROVE ((a % C) + C - 1) % C = (a - 1) % C
<1>0. PICK b \in Nat : b = a - 1 /\ a = b + 1
  OBVIOUS
<1>1. PICK q \in Int : (a - 1) % C \in 0 .. C - 1 /\ a - 1 = C * q + ((a - 1) % C)
  BY <1>0, ModDiv
<1>2. PICK r : r = (a - 1) % C
  OBVIOUS
<1>3. PICK s : s = a % C
  OBVIOUS
<1>4. s = (r + 1) % C
  BY <1>0, <1>2, <1>3, ModUp
<1>5. CASE r + 1 < C
  <2>1. r + 1 \in 0 .. C - 1 /\ r + 1 \in Nat /\ r + 1 = C * 0 + (r + 1)
    BY <1>1, <1>2, <1>5
  <2>2. s = r + 1
    BY <1>4, <2>1, ModIs
  <2>3. s + C - 1 = C * 1 + r /\ s + C - 1 \in Nat /\ r \in 0 .. C - 1
    BY <1>1, <1>2, <2>1, <2>2
  <2>4. (s + C - 1) % C = r
    BY <2>3, ModIs
  <2>. QED BY <1>2, <1>3, <2>4
<1>6. CASE r + 1 = C
  <2>1. 0 \in 0 .. C - 1 /\ r + 1 = C * 1 + 0 /\ r + 1 \in Nat
    BY <1>1, <1>2, <1>6
  <2>2. s = 0
    BY <1>4, <2>1, ModIs
  <2>3. s + C - 1 = C * 0 + r /\ s + C - 1 \in Nat /\ r \in 0 .. C - 1
    BY <1>1, <1>2, <1>6, <2>2
  <2>4. (s + C - 1) % C = r
    BY <2>3, ModIs
  <2>. QED BY <1>2, <1>3, <2>4
<1>. QED BY <1>1, <1>2, <1>5, <1>6

-----------------------------------------------------------------------------
(* What the log says about the counter                                     *)

Finished(lg, i) == Done(lg, i) \/ Ended(lg, lg[i].txn, "rollback")

(* The records whose rows are in the table when the committed transactions   *)
(* count, and x.                                                             *)
Counts(lg, x, i) == Done(lg, i) \/ lg[i].txn = x
Kept(lg, x) ==
  {m \in 1 .. Len(lg) : /\ Makes(lg, m) /\ Counts(lg, x, m)
                        /\ \A j \in 1 .. Len(lg) : Replaces(lg, j, m) => ~Counts(lg, x, j)}
Num(lg, x) == Cardinality(Kept(lg, x)) % Counter

(* Record n writes the table's metadata; REDO repeats it, leaving ImageOf;   *)
(* it is the last of the first m records that does.                          *)
Tab(lg, n) == lg[n].kind = "update_table"
DueTab(lg, n) == (Tab(lg, n) /\ Done(lg, n)) \/ (lg[n].kind = "clr" /\ Tab(lg, lg[n].of))
ImageOf(lg, n) == IF Tab(lg, n) THEN lg[n].after ELSE lg[lg[n].of].before
LastDue(lg, m, d) ==
  /\ d \in 1 .. m /\ DueTab(lg, d) /\ \A e \in 1 .. m : DueTab(lg, e) => e <= d
FirstTab(lg, n) == Tab(lg, n) /\ \A m \in 1 .. n - 1 : Tab(lg, m) => lg[m].txn # lg[n].txn

(* Kept is a finite set.                                                     *)
LEMMA KeptFinite ==
  ASSUME NEW lg \in Seq(Record), NEW x
  PROVE  IsFiniteSet(Kept(lg, x)) /\ Cardinality(Kept(lg, x)) \in Nat
<1>1. Len(lg) \in Nat
  BY LenProperties
<1>2. IsFiniteSet(1 .. Len(lg))
  BY <1>1, FS_Interval
<1>3. Kept(lg, x) \in SUBSET (1 .. Len(lg))
  BY DEF Kept
<1>4. IsFiniteSet(Kept(lg, x))
  BY <1>2, <1>3, FS_Subset
<1>. QED BY <1>4, FS_CardinalityType

(* Records of transactions that have not committed change nothing.           *)
LEMMA KeptGrows ==
  ASSUME NEW lg \in Seq(Record), NEW lg2 \in Seq(Record), Grown(lg, lg2),
         \A i \in 1 .. Len(lg2) : lg2[i].txn # NoTxn,
         \A i \in 1 .. Len(lg) : (Done(lg2, i) <=> Done(lg, i)),
         \A m \in 1 .. Len(lg2) : m > Len(lg) /\ lg2[m].kind \in DataKinds => ~Done(lg2, m)
  PROVE  Kept(lg2, NoTxn) = Kept(lg, NoTxn)
<1>0. /\ Len(lg) \in Nat /\ Len(lg2) \in Nat /\ Len(lg) <= Len(lg2)
      /\ \A i \in 1 .. Len(lg) : lg2[i] = lg[i] /\ i \in 1 .. Len(lg2)
      /\ \A i \in 1 .. Len(lg2) : i \in 1 .. Len(lg) \/ i > Len(lg)
  BY LenProperties DEF Grown
<1>1. \A i \in 1 .. Len(lg) : /\ Makes(lg2, i) <=> Makes(lg, i)
                              /\ Counts(lg2, NoTxn, i) <=> Counts(lg, NoTxn, i)
  BY <1>0 DEF Makes, Counts
<1>2. \A i, j \in 1 .. Len(lg) : Replaces(lg2, j, i) <=> Replaces(lg, j, i)
  BY <1>0 DEF Replaces, Makes
<1>3. \A m \in 1 .. Len(lg2) : m > Len(lg) /\ lg2[m].kind \in DataKinds => ~Counts(lg2, NoTxn, m)
  BY DEF Counts
<1>4. \A m, i \in 1 .. Len(lg2) : m > Len(lg) /\ Replaces(lg2, m, i) => ~Counts(lg2, NoTxn, m)
  BY <1>3 DEF Replaces, DataKinds
<1>5. \A m \in 1 .. Len(lg2) : m > Len(lg) => ~(Makes(lg2, m) /\ Counts(lg2, NoTxn, m))
  BY <1>3 DEF Makes, DataKinds
<1>. QED BY <1>0, <1>1, <1>2, <1>4, <1>5 DEF Kept

(* A transaction that has committed, or has changed nothing, counts anyway.  *)
LEMMA KeptOwn ==
  ASSUME NEW lg, NEW x, NEW y,
         \A i \in 1 .. Len(lg) : lg[i].kind \in DataKinds /\ (lg[i].txn = x \/ lg[i].txn = y) => Done(lg, i)
  PROVE  Kept(lg, x) = Kept(lg, y)
<1>1. \A i \in 1 .. Len(lg) : lg[i].kind \in DataKinds => (Counts(lg, x, i) <=> Counts(lg, y, i))
  BY DEF Counts
<1>2. \A i \in 1 .. Len(lg) : Makes(lg, i) => lg[i].kind \in DataKinds
  BY DEF Makes, DataKinds
<1>3. \A i, j \in 1 .. Len(lg) : Replaces(lg, j, i) => lg[j].kind \in DataKinds
  BY DEF Replaces, DataKinds
<1>. QED BY <1>1, <1>2, <1>3 DEF Kept

(* The commit of x.                                                          *)
LEMMA KeptCommit ==
  ASSUME NEW lg \in Seq(Record), NEW lg2 \in Seq(Record), Grown(lg, lg2), NEW x,
         \A i \in 1 .. Len(lg) : (Done(lg2, i) <=> Done(lg, i) \/ lg[i].txn = x),
         \A i \in 1 .. Len(lg2) : lg2[i].txn # NoTxn,
         \A m \in 1 .. Len(lg2) : m > Len(lg) => lg2[m].kind \notin DataKinds
  PROVE  Kept(lg2, NoTxn) = Kept(lg, x)
<1>0. /\ Len(lg) \in Nat /\ Len(lg2) \in Nat /\ Len(lg) <= Len(lg2)
      /\ \A i \in 1 .. Len(lg) : lg2[i] = lg[i] /\ i \in 1 .. Len(lg2)
      /\ \A i \in 1 .. Len(lg2) : i \in 1 .. Len(lg) \/ i > Len(lg)
  BY LenProperties DEF Grown
<1>1. \A i \in 1 .. Len(lg) : /\ Makes(lg2, i) <=> Makes(lg, i)
                              /\ Counts(lg2, NoTxn, i) <=> Counts(lg, x, i)
  BY <1>0 DEF Makes, Counts
<1>2. \A i, j \in 1 .. Len(lg) : Replaces(lg2, j, i) <=> Replaces(lg, j, i)
  BY <1>0 DEF Replaces, Makes
<1>3. \A m, i \in 1 .. Len(lg2) : m > Len(lg) => ~Replaces(lg2, m, i)
  BY DEF Replaces, DataKinds
<1>4. \A m \in 1 .. Len(lg2) : m > Len(lg) => ~Makes(lg2, m)
  BY DEF Makes, DataKinds
<1>. QED BY <1>0, <1>1, <1>2, <1>3, <1>4 DEF Kept

(* A row record of transaction x, and what it replaces.                      *)
LEMMA KeptWork ==
  ASSUME NEW lg \in Seq(Record), NEW lg2 \in Seq(Record), Grown(lg, lg2), Fine(lg2), NEW x,
         NEW n \in 1 .. Len(lg2), n > Len(lg), lg2[n].kind \in DataKinds, lg2[n].txn = x,
         \A m \in 1 .. Len(lg2) : m > Len(lg) /\ lg2[m].kind \in DataKinds => m = n,
         \A i \in 1 .. Len(lg) : (Done(lg2, i) <=> Done(lg, i))
  PROVE  /\ lg2[n].kind = "insert" => Kept(lg2, x) = Kept(lg, x) \union {n}
         /\ \A i \in Kept(lg, x) : Replaces(lg2, n, i) =>
              Kept(lg2, x) = (Kept(lg, x) \ {i}) \union (IF lg2[n].kind = "update" THEN {n} ELSE {})
         /\ n \notin Kept(lg, x)
<1>0. /\ Len(lg) \in Nat /\ Len(lg2) \in Nat /\ Len(lg) <= Len(lg2)
      /\ \A i \in 1 .. Len(lg) : lg2[i] = lg[i] /\ i \in 1 .. Len(lg2)
      /\ \A i \in 1 .. Len(lg2) : i \in 1 .. Len(lg) \/ i > Len(lg)
      /\ n \notin 1 .. Len(lg)
  BY LenProperties DEF Grown
<1>1. \A i \in 1 .. Len(lg) : /\ Makes(lg2, i) <=> Makes(lg, i)
                              /\ Counts(lg2, x, i) <=> Counts(lg, x, i)
  BY <1>0 DEF Makes, Counts
<1>2. \A i, j \in 1 .. Len(lg) : Replaces(lg2, j, i) <=> Replaces(lg, j, i)
  BY <1>0 DEF Replaces, Makes
<1>3. \A m, i \in 1 .. Len(lg2) : m > Len(lg) /\ Replaces(lg2, m, i) => m = n
  BY DEF Replaces, DataKinds
<1>4. \A m \in 1 .. Len(lg2) : m > Len(lg) /\ Makes(lg2, m) => m = n
  BY DEF Makes, DataKinds
<1>5. Counts(lg2, x, n)
  BY DEF Counts
<1>6. ASSUME NEW m \in 1 .. Len(lg)
      PROVE  m \in Kept(lg2, x) <=> m \in Kept(lg, x) /\ ~Replaces(lg2, n, m)
  BY <1>0, <1>1, <1>2, <1>3, <1>5 DEF Kept
<1>7. \A j \in 1 .. Len(lg2) : ~Replaces(lg2, j, n)
  <2>1. ASSUME NEW j \in 1 .. Len(lg2), Replaces(lg2, j, n) PROVE FALSE
    <3>1. n < j
      BY <2>1 DEF Fine, OnCommitted
    <3>2. j > Len(lg)
      BY <1>0, <3>1
    <3>. QED BY <1>0, <1>3, <2>1, <3>1, <3>2
  <2>. QED BY <2>1
<1>8. n \in Kept(lg2, x) <=> Makes(lg2, n)
  BY <1>5, <1>7 DEF Kept
<1>9. \A m \in Kept(lg2, x) : m \in 1 .. Len(lg) \/ m = n
  BY <1>0, <1>4 DEF Kept
<1>10. \A m \in Kept(lg, x) : m \in 1 .. Len(lg)
  BY DEF Kept
<1>11. lg2[n].kind = "insert" => Kept(lg2, x) = Kept(lg, x) \union {n}
  <2>. SUFFICES ASSUME lg2[n].kind = "insert" PROVE Kept(lg2, x) = Kept(lg, x) \union {n}
    OBVIOUS
  <2>1. Makes(lg2, n) /\ \A m : ~Replaces(lg2, n, m)
    BY DEF Makes, Replaces
  <2>. QED BY <1>6, <1>8, <1>9, <1>10, <2>1
<1>12. ASSUME NEW i \in Kept(lg, x), Replaces(lg2, n, i)
       PROVE  Kept(lg2, x) = (Kept(lg, x) \ {i}) \union (IF lg2[n].kind = "update" THEN {n} ELSE {})
  <2>1. Makes(lg2, n) <=> lg2[n].kind = "update"
    BY <1>12 DEF Makes, Replaces
  <2>2. ASSUME NEW m \in 1 .. Len(lg), Makes(lg, m), Replaces(lg2, n, m) PROVE m = i
    <3>1. m \in 1 .. Len(lg2) /\ i \in 1 .. Len(lg2)
      BY <1>0, <1>10
    <3>. QED BY <1>12, <2>2, <3>1 DEF Fine, IdsDistinct, Replaces
  <2>3. \A m \in Kept(lg, x) : Makes(lg, m)
    BY DEF Kept
  <2>. QED BY <1>6, <1>8, <1>9, <1>10, <1>12, <2>1, <2>2, <2>3
<1>13. n \notin Kept(lg, x)
  BY <1>0, <1>10
<1>. QED BY <1>11, <1>12, <1>13

(* What a row record does to the number of rows.                             *)
LEMMA NumWork ==
  ASSUME NEW lg \in Seq(Record), NEW lg2 \in Seq(Record), Grown(lg, lg2), Fine(lg2), NEW x,
         NEW n \in 1 .. Len(lg2), n > Len(lg), lg2[n].kind \in DataKinds, lg2[n].txn = x,
         \A m \in 1 .. Len(lg2) : m > Len(lg) /\ lg2[m].kind \in DataKinds => m = n,
         \A i \in 1 .. Len(lg) : (Done(lg2, i) <=> Done(lg, i)),
         lg2[n].kind # "insert" => \E i \in Kept(lg, x) : Replaces(lg2, n, i)
  PROVE  /\ lg2[n].kind = "insert" => Num(lg2, x) = (Num(lg, x) + 1) % Counter
         /\ lg2[n].kind = "update" => Num(lg2, x) = Num(lg, x)
         /\ lg2[n].kind = "delete" => Num(lg2, x) = (Num(lg, x) + Counter - 1) % Counter
<1> DEFINE K == Kept(lg, x)
           a == Cardinality(K)
<1>0. IsFiniteSet(K) /\ a \in Nat /\ Counter \in Nat \ {0} /\ n \notin K
  BY KeptFinite, KeptWork, ConstantsAssumption
<1>1. CASE lg2[n].kind = "insert"
  <2>1. Kept(lg2, x) = K \union {n}
    BY <1>1, KeptWork
  <2>. HIDE DEF K
  <2>2. Cardinality(K \union {n}) = a + 1
    BY <1>0, FS_AddElement
  <2>3. ((a % Counter) + 1) % Counter = (a + 1) % Counter
    BY <1>0, ModUp
  <2>4. Num(lg, x) = a % Counter /\ Num(lg2, x) = (a + 1) % Counter
    BY <2>1, <2>2 DEF Num, K
  <2>. QED BY <1>1, <2>3, <2>4
<1>2. CASE lg2[n].kind # "insert"
  <2>1. PICK i \in K : Replaces(lg2, n, i)
    BY <1>2
  <2>0. \A k \in Kept(lg, x) : Replaces(lg2, n, k) =>
          Kept(lg2, x) = (Kept(lg, x) \ {k}) \union (IF lg2[n].kind = "update" THEN {n} ELSE {})
    BY KeptWork
  <2>2. Kept(lg2, x) = (K \ {i}) \union (IF lg2[n].kind = "update" THEN {n} ELSE {})
    BY <2>0, <2>1
  <2>. HIDE DEF K
  <2>3. IsFiniteSet(K \ {i}) /\ Cardinality(K \ {i}) = a - 1
    BY <1>0, FS_RemoveElement
  <2>4. a > 0 /\ a - 1 \in Nat
    <3>1. Cardinality(K \ {i}) \in Nat
      BY <2>3, FS_CardinalityType
    <3>. QED BY <1>0, <2>3, <3>1
  <2>5. Num(lg, x) = a % Counter
    BY DEF Num, K
  <2>6. CASE lg2[n].kind = "update"
    <3>1. n \notin K \ {i}
      BY <1>0
    <3>2. Cardinality((K \ {i}) \union {n}) = (a - 1) + 1
      BY <2>3, <3>1, FS_AddElement
    <3>3. Kept(lg2, x) = (K \ {i}) \union {n}
      BY <2>2, <2>6
    <3>4. Cardinality(Kept(lg2, x)) = a
      BY <1>0, <3>2, <3>3
    <3>. QED BY <2>5, <2>6, <3>4 DEF Num
  <2>7. CASE lg2[n].kind = "delete"
    <3>1. Cardinality(Kept(lg2, x)) = a - 1
      BY <2>2, <2>3, <2>7
    <3>2. ((a % Counter) + Counter - 1) % Counter = (a - 1) % Counter
      BY <1>0, <2>4, ModDown
    <3>. QED BY <2>5, <2>7, <3>1, <3>2 DEF Num
  <2>. QED BY <1>2, <2>6, <2>7 DEF DataKinds
<1>. QED BY <1>1, <1>2

-----------------------------------------------------------------------------
(* The inductive invariant                                                 *)

(* Without failed statements the log is in its files but for the records of  *)
(* the running transaction, and every other transaction has ended; a         *)
(* transaction that has not is the last one in the log.                      *)
Sole ==
  /\ phase \in {"idle", "flushing"} => durable = Len(log)
  /\ phase \in Running => \A j \in 1 .. Len(log) : j > durable <=> log[j].txn = txn
Closed == phase \in Normal => \A j \in 1 .. durable : Finished(log, j)
OpenLast ==
  phase \notin Normal =>
    /\ \A i, j \in 1 .. Len(log) : i < j /\ ~Finished(log, i) => log[j].txn = log[i].txn
    /\ \A x \in active : \E i \in 1 .. Len(log) : log[i].txn = x

(* What record j changes, and what is in the pages, was written by           *)
(* transactions that had committed; the running one's rows apart.            *)
Bought(lg, j) ==
  lg[j].kind \in {"update", "delete"} =>
    \E m, k \in 1 .. j - 1 : /\ MadeOn(lg, m, lg[j].page) /\ lg[m].after.id = lg[j].before.id
                             /\ lg[k].kind = "commit" /\ lg[k].txn = lg[m].txn
Buys(lg) == \A j \in 1 .. Len(lg) : Bought(lg, j)
From(lg, x, rows, p) ==
  \A d : Has(rows, d) =>
    \E i \in 1 .. Len(lg) : MadeOn(lg, i, p) /\ lg[i].after.id = d /\ Counts(lg, x, i)
CacheFrom == \A p \in DOMAIN cache : From(log, txn, cache[p].rows, p)
DiskFrom ==
  \A p \in DOMAIN disk : \A d : Has(disk[p].rows, d) =>
    \E i, k \in 1 .. durable : /\ MadeOn(log, i, p) /\ log[i].after.id = d
                               /\ log[k].kind = "commit" /\ log[k].txn = log[i].txn
TodoFrom ==
  \A t \in todo : \E i \in 1 .. Len(log) :
    MadeOn(log, i, t[1]) /\ log[i].after.id = RowAt(cache, t).id /\ Done(log, i)
Origins == Buys(log) /\ CacheFrom /\ DiskFrom /\ TodoFrom

(* A row record is followed by a record of the table's metadata.             *)
Paired(lg, j) == j + 1 \in 1 .. Len(lg) /\ Tab(lg, j + 1) /\ lg[j + 1].txn = lg[j].txn
Pairs ==
  \A j \in 1 .. Len(log) :
    log[j].kind \in DataKinds /\ (Done(log, j) \/ (phase \in InStatement /\ log[j].txn = txn)) =>
      Paired(log, j)

(* undo() compensates every metadata record that it passes.                  *)
TabUndone(lg, i) == \E c \in 1 .. Len(lg) : lg[c].kind = "clr" /\ lg[c].of = i
TabRolled ==
  \A c, i \in 1 .. Len(log) :
    log[c].kind = "clr" /\ log[i].txn = log[c].txn /\ i > log[c].undo_next /\ Tab(log, i) =>
      TabUndone(log, i)
TabWalked ==
  phase \in {"undo", "undo_apply"} /\ txn # NoTxn /\ (current # 0 => log[current].kind # "clr") =>
    \A i \in 1 .. Len(log) : log[i].txn = txn /\ i > current /\ Tab(log, i) => TabUndone(log, i)

(* The images in the log: what a transaction that has not ended will be      *)
(* undone to, and what REDO ends with when all have, is the number of rows;  *)
(* f is that of the metadata file, which is new if nothing is to be redone.  *)
MetaRight(lg, f) ==
  Fine(lg) =>
    /\ \A n \in 1 .. Len(lg) : FirstTab(lg, n) /\ ~Finished(lg, n) =>
         lg[n].before.live_rows = Num(lg, NoTxn)
    /\ (\A n \in 1 .. Len(lg) : Tab(lg, n) => Finished(lg, n)) =>
         \A d \in 1 .. Len(lg) : LastDue(lg, Len(lg), d) =>
           ImageOf(lg, d).live_rows = Num(lg, NoTxn)
    /\ (\A n \in 1 .. Len(lg) : ~DueTab(lg, n)) => f = 0
MetaCuts ==
  \A lg \in Seq(Record) : Grown(lg, log) /\ durable <= Len(lg) => MetaRight(lg, mt_file.live_rows)

(* How far the metadata file is in recovery.                                 *)
FileShows(m) == \A d \in 1 .. Len(log) : LastDue(log, m, d) => mt_file = ImageOf(log, d)
MetaFile ==
  /\ phase = "redo" => FileShows(redone)
  /\ phase = "undo" => FileShows(Len(log))
  /\ phase = "undo_apply" => FileShows(Len(log) - 1)

(* The metadata in memory, and the running transaction's last image of it.   *)
MetaNow ==
  /\ phase \in Normal /\ Fine(log) => mt.live_rows = Num(log, txn)
  /\ phase \in {"update", "delete"} /\ Fine(log) => unchanged_mt.live_rows = Num(log, NoTxn)
  /\ phase \in Running =>
       \A n \in 1 .. Len(log) :
         /\ Tab(log, n) /\ log[n].txn = txn
         /\ \A m \in 1 .. Len(log) : Tab(log, m) /\ log[m].txn = txn => m <= n
         => log[n].after.live_rows = mt.live_rows

LiveCore ==
  /\ Sole /\ Closed /\ OpenLast /\ Origins /\ Pairs /\ TabRolled /\ TabWalked
  /\ MetaCuts /\ MetaFile /\ MetaNow
LiveInv == throws = 0 => LiveCore

-----------------------------------------------------------------------------
(* Logs                                                                    *)

(* Two logs that a third one continues.                                      *)
LEMMA OneOfTwo ==
  ASSUME NEW lg \in Seq(Record), NEW lg1 \in Seq(Record), NEW lg2 \in Seq(Record),
         Grown(lg, lg2), Grown(lg1, lg2)
  PROVE  /\ Grown(lg, lg1) \/ Grown(lg1, lg)
         /\ Len(lg) <= Len(lg1) => Grown(lg, lg1)
         /\ Len(lg1) <= Len(lg) => Grown(lg1, lg)
BY LenProperties DEF Grown

(* The ends of transactions when nobody ends.                                *)
LEMMA NobodyEnds ==
  ASSUME NEW lg \in Seq(Record), NEW lg2 \in Seq(Record), Grown(lg, lg2),
         \A m \in 1 .. Len(lg2) : m > Len(lg) => lg2[m].kind \notin {"commit", "rollback"}
  PROVE  /\ \A i \in 1 .. Len(lg) : /\ lg2[i] = lg[i] /\ i \in 1 .. Len(lg2)
                                    /\ Done(lg2, i) <=> Done(lg, i)
                                    /\ Finished(lg2, i) <=> Finished(lg, i)
         /\ \A x : Ended(lg2, x, "commit") <=> Ended(lg, x, "commit")
         /\ \A x : Ended(lg2, x, "rollback") <=> Ended(lg, x, "rollback")
<1>1. \A x : Ended(lg2, x, "commit") <=> Ended(lg, x, "commit")
  BY DoneBefore
<1>2. \A x : Ended(lg2, x, "rollback") <=> Ended(lg, x, "rollback")
  BY DoneBefore
<1>3. \A i \in 1 .. Len(lg) : lg2[i] = lg[i] /\ i \in 1 .. Len(lg2)
  BY LenProperties DEF Grown
<1>. QED BY <1>1, <1>2, <1>3 DEF Done, Finished

(* Records of the metadata in a log and in one that continues it.            *)
LEMMA TabsGrow ==
  ASSUME NEW lg \in Seq(Record), NEW lg2 \in Seq(Record), Grown(lg, lg2),
         \A c \in 1 .. Len(lg) : LinksBack(lg, c)
  PROVE  \A n \in 1 .. Len(lg) :
           /\ Tab(lg2, n) <=> Tab(lg, n)
           /\ FirstTab(lg2, n) <=> FirstTab(lg, n)
           /\ ImageOf(lg2, n) = ImageOf(lg, n) \/ (~Tab(lg, n) /\ lg[n].kind # "clr")
           /\ DueTab(lg, n) => DueTab(lg2, n)
           /\ DueTab(lg2, n) /\ (Done(lg2, n) => Done(lg, n)) => DueTab(lg, n)
<1>0. /\ Len(lg) \in Nat /\ Len(lg2) \in Nat
      /\ \A i \in 1 .. Len(lg) : lg2[i] = lg[i] /\ i \in 1 .. Len(lg2)
  BY LenProperties DEF Grown
<1>. SUFFICES ASSUME NEW n \in 1 .. Len(lg)
              PROVE  /\ Tab(lg2, n) <=> Tab(lg, n)
                     /\ FirstTab(lg2, n) <=> FirstTab(lg, n)
                     /\ ImageOf(lg2, n) = ImageOf(lg, n) \/ (~Tab(lg, n) /\ lg[n].kind # "clr")
                     /\ DueTab(lg, n) => DueTab(lg2, n)
                     /\ DueTab(lg2, n) /\ (Done(lg2, n) => Done(lg, n)) => DueTab(lg, n)
  OBVIOUS
<1>1. \A m \in 1 .. Len(lg) : Tab(lg2, m) <=> Tab(lg, m)
  BY <1>0 DEF Tab
<1>2. FirstTab(lg2, n) <=> FirstTab(lg, n)
  <2>1. \A m \in 1 .. n - 1 : m \in 1 .. Len(lg)
    BY <1>0
  <2>. QED BY <1>0, <1>1, <2>1 DEF FirstTab
<1>3. lg[n].kind = "clr" => lg[n].of \in 1 .. Len(lg)
  <2>1. lg[n].kind = "clr" => lg[n].of \in 1 .. n - 1
    BY DEF LinksBack
  <2>. QED BY <1>0, <2>1
<1>4. ImageOf(lg2, n) = ImageOf(lg, n) \/ (~Tab(lg, n) /\ lg[n].kind # "clr")
  BY <1>0, <1>1, <1>3 DEF ImageOf
<1>5. Done(lg, n) => Done(lg2, n)
  BY <1>0, DoneGrows DEF Done
<1>. QED BY <1>0, <1>1, <1>2, <1>3, <1>4, <1>5 DEF DueTab

(* The running transaction's records.                                        *)
LEMMA MetaGrows ==
  ASSUME NEW lg \in Seq(Record), NEW lg2 \in Seq(Record), Grown(lg, lg2), NEW f, MetaRight(lg, f),
         \A c \in 1 .. Len(lg) : LinksBack(lg, c),
         \A i \in 1 .. Len(lg2) : lg2[i].txn # NoTxn,
         \A m \in 1 .. Len(lg2) : m > Len(lg) =>
           lg2[m].kind \notin {"commit", "rollback", "clr"} /\ ~Done(lg2, m),
         \A m \in 1 .. Len(lg2) : m > Len(lg) /\ FirstTab(lg2, m) /\ Fine(lg2) =>
           lg2[m].before.live_rows = Num(lg, NoTxn)
  PROVE  MetaRight(lg2, f)
<1>. SUFFICES ASSUME Fine(lg2)
              PROVE  /\ \A n \in 1 .. Len(lg2) : FirstTab(lg2, n) /\ ~Finished(lg2, n) =>
                          lg2[n].before.live_rows = Num(lg2, NoTxn)
                     /\ (\A n \in 1 .. Len(lg2) : Tab(lg2, n) => Finished(lg2, n)) =>
                          \A d \in 1 .. Len(lg2) : LastDue(lg2, Len(lg2), d) =>
                            ImageOf(lg2, d).live_rows = Num(lg2, NoTxn)
                     /\ (\A n \in 1 .. Len(lg2) : ~DueTab(lg2, n)) => f = 0
  BY DEF MetaRight
<1>0. /\ Len(lg) \in Nat /\ Len(lg2) \in Nat /\ Len(lg) <= Len(lg2)
      /\ \A i \in 1 .. Len(lg2) : i \in 1 .. Len(lg) \/ i > Len(lg)
  BY LenProperties DEF Grown
<1>1. /\ \A n \in 1 .. Len(lg) : FirstTab(lg, n) /\ ~Finished(lg, n) =>
           lg[n].before.live_rows = Num(lg, NoTxn)
      /\ (\A n \in 1 .. Len(lg) : Tab(lg, n) => Finished(lg, n)) =>
           \A d \in 1 .. Len(lg) : LastDue(lg, Len(lg), d) =>
             ImageOf(lg, d).live_rows = Num(lg, NoTxn)
      /\ (\A n \in 1 .. Len(lg) : ~DueTab(lg, n)) => f = 0
  BY GrownFine DEF MetaRight
<1>2. \A i \in 1 .. Len(lg) : /\ lg2[i] = lg[i] /\ i \in 1 .. Len(lg2)
                              /\ Done(lg2, i) <=> Done(lg, i)
                              /\ Finished(lg2, i) <=> Finished(lg, i)
  BY NobodyEnds
<1>3. \A n \in 1 .. Len(lg) :
        /\ Tab(lg2, n) <=> Tab(lg, n)
        /\ FirstTab(lg2, n) <=> FirstTab(lg, n)
        /\ ImageOf(lg2, n) = ImageOf(lg, n) \/ (~Tab(lg, n) /\ lg[n].kind # "clr")
        /\ DueTab(lg2, n) <=> DueTab(lg, n)
  BY <1>2, TabsGrow
<1>4. \A m \in 1 .. Len(lg2) : m > Len(lg) => ~DueTab(lg2, m)
  BY DEF DueTab
<1>5. Num(lg2, NoTxn) = Num(lg, NoTxn)
  <2>1. Kept(lg2, NoTxn) = Kept(lg, NoTxn)
    BY <1>2, KeptGrows
  <2>. QED BY <2>1 DEF Num
<1>6. ASSUME NEW d \in 1 .. Len(lg2), LastDue(lg2, Len(lg2), d)
      PROVE  d \in 1 .. Len(lg) /\ LastDue(lg, Len(lg), d) /\ ImageOf(lg2, d) = ImageOf(lg, d)
  <2>1. d \in 1 .. Len(lg)
    BY <1>0, <1>4, <1>6 DEF LastDue
  <2>2. LastDue(lg, Len(lg), d)
    BY <1>2, <1>3, <1>6, <2>1 DEF LastDue
  <2>3. Tab(lg, d) \/ lg[d].kind = "clr"
    BY <2>2 DEF LastDue, DueTab
  <2>. QED BY <1>3, <2>1, <2>2, <2>3
<1>7. \A n \in 1 .. Len(lg2) : FirstTab(lg2, n) /\ ~Finished(lg2, n) =>
        lg2[n].before.live_rows = Num(lg2, NoTxn)
  BY <1>0, <1>1, <1>2, <1>3, <1>5
<1>8. ASSUME \A n \in 1 .. Len(lg2) : Tab(lg2, n) => Finished(lg2, n),
             NEW d \in 1 .. Len(lg2), LastDue(lg2, Len(lg2), d)
      PROVE  ImageOf(lg2, d).live_rows = Num(lg2, NoTxn)
  <2>1. \A n \in 1 .. Len(lg) : Tab(lg, n) => Finished(lg, n)
    BY <1>2, <1>3, <1>8
  <2>. QED BY <1>1, <1>5, <1>6, <1>8, <2>1
<1>9. (\A n \in 1 .. Len(lg2) : ~DueTab(lg2, n)) => f = 0
  BY <1>1, <1>2, <1>3
<1>. QED BY <1>7, <1>8, <1>9

-----------------------------------------------------------------------------
(* What steps have in common                                               *)

(* Records have owners.                                                      *)
LEMMA Owned ==
  ASSUME NEW lg \in Seq(Record)
  PROVE  \A i \in 1 .. Len(lg) : lg[i].txn # NoTxn /\ lg[i].txn \in Txns
<1>1. \A i \in 1 .. Len(lg) : lg[i] \in Record
  BY ElementOfSeq
<1>. QED BY <1>1, RecordFields, ConstantsAssumption

(* The log and its files.                                                    *)
LEMMA LogBasics ==
  ASSUME TypeInv
  PROVE  /\ log \in Seq(Record) /\ Len(log) \in Nat /\ durable \in Nat /\ durable <= Len(log)
         /\ \A c \in 1 .. Len(log) : LinksBack(log, c)
         /\ \A i \in 1 .. Len(log) : log[i].txn # NoTxn
<1>1. log \in Seq(Record) /\ \A c \in 1 .. Len(log) : LinksBack(log, c)
  BY DEF TypeInv, TypeOK, LinkInv
<1>2. \A i \in 1 .. Len(log) : log[i].txn # NoTxn
  BY <1>1, Owned
<1>. QED BY <1>1, <1>2, LsnNat

(* What was written by a committed transaction stays so.                     *)
LEMMA BuysGrow ==
  ASSUME NEW lg \in Seq(Record), NEW lg2 \in Seq(Record), Grown(lg, lg2), Buys(lg),
         \A m \in 1 .. Len(lg2) : m > Len(lg) => Bought(lg2, m)
  PROVE  Buys(lg2)
<1>0. /\ Len(lg) \in Nat /\ Len(lg2) \in Nat /\ \A i \in 1 .. Len(lg) : lg2[i] = lg[i]
      /\ \A i \in 1 .. Len(lg2) : i \in 1 .. Len(lg) \/ i > Len(lg)
  BY LenProperties DEF Grown
<1>1. ASSUME NEW j \in 1 .. Len(lg) PROVE Bought(lg2, j)
  <2>1. Bought(lg, j) /\ lg2[j] = lg[j]
    BY <1>0 DEF Buys
  <2>2. \A m \in 1 .. j - 1 : lg2[m] = lg[m]
    BY <1>0
  <2>. QED BY <2>1, <2>2 DEF Bought, MadeOn, Makes
<1>. QED BY <1>0, <1>1 DEF Buys

(* A prefix of such a log is one.                                            *)
LEMMA BuysCut ==
  ASSUME NEW lg \in Seq(Record), NEW lg2 \in Seq(Record), Grown(lg, lg2), Buys(lg2)
  PROVE  Buys(lg)
<1>0. /\ Len(lg) \in Nat /\ Len(lg2) \in Nat /\ \A i \in 1 .. Len(lg) : lg2[i] = lg[i] /\ i \in 1 .. Len(lg2)
  BY LenProperties DEF Grown
<1>1. ASSUME NEW j \in 1 .. Len(lg) PROVE Bought(lg, j)
  <2>1. Bought(lg2, j) /\ lg2[j] = lg[j]
    BY <1>0 DEF Buys
  <2>2. \A m \in 1 .. j - 1 : lg2[m] = lg[m]
    BY <1>0
  <2>. QED BY <2>1, <2>2 DEF Bought, MadeOn, Makes
<1>. QED BY <1>1 DEF Buys

(* The rows of pages as the log goes on.                                     *)
LEMMA FromGrows ==
  ASSUME NEW lg \in Seq(Record), NEW lg2 \in Seq(Record), Grown(lg, lg2), NEW x, NEW x2, NEW rows, NEW p,
         From(lg, x, rows, p), \A i \in 1 .. Len(lg) : Counts(lg, x, i) => Counts(lg2, x2, i)
  PROVE  From(lg2, x2, rows, p)
<1>0. /\ \A i \in 1 .. Len(lg) : lg2[i] = lg[i] /\ i \in 1 .. Len(lg2)
  BY LenProperties DEF Grown
<1>. QED BY <1>0 DEF From, MadeOn, Makes

(* Pages that are read hold rows of committed transactions.                  *)
LEMMA LoadedFrom ==
  ASSUME TypeInv, CacheFrom, DiskFrom, NEW c, NEW pgs, NEW dty, Loads(c, pgs, dty), NEW p \in DOMAIN c
  PROVE  From(log, txn, c[p].rows, p)
<1>0. Len(log) \in Nat /\ durable \in Nat /\ durable <= Len(log)
  BY LogBasics
<1>1. CASE p \in DOMAIN cache
  BY <1>1 DEF CacheFrom, Loads, SamePage
<1>2. CASE p \notin DOMAIN cache /\ p \in DOMAIN disk /\ SamePage(c[p], disk[p])
  <2>1. c[p].rows = disk[p].rows
    BY <1>2 DEF SamePage
  <2>2. ASSUME NEW d, Has(disk[p].rows, d)
        PROVE  \E i \in 1 .. Len(log) : MadeOn(log, i, p) /\ log[i].after.id = d /\ Counts(log, txn, i)
    <3>1. PICK i, k \in 1 .. durable : /\ MadeOn(log, i, p) /\ log[i].after.id = d
                                       /\ log[k].kind = "commit" /\ log[k].txn = log[i].txn
      BY <1>2, <2>2 DEF DiskFrom
    <3>2. i \in 1 .. Len(log) /\ k \in 1 .. Len(log)
      BY <1>0
    <3>. QED BY <3>1, <3>2 DEF Counts, Done, Ended
  <2>. QED BY <2>1, <2>2 DEF From
<1>3. CASE p \notin DOMAIN cache /\ NewIn(c, p)
  <2>1. c[p].rows = <<>>
    BY <1>3 DEF NewIn
  <2>2. \A d : ~Has(c[p].rows, d)
    BY <2>1 DEF Has
  <2>. QED BY <2>2 DEF From
<1>. QED BY <1>1, <1>2, <1>3 DEF Loads

(* The page files keep their rows.                                           *)
LEMMA DiskFromStays ==
  ASSUME TypeInv, TypeInv', DiskFrom, disk' = disk, Grown(log, log'), durable <= durable'
  PROVE  DiskFrom'
<1>0. Len(log) \in Nat /\ durable \in Nat /\ durable <= Len(log) /\ durable' \in Nat
  BY LogBasics DEF TypeInv, TypeOK
<1>1. \A i \in 1 .. durable : log'[i] = log[i] /\ i \in 1 .. durable'
  BY <1>0 DEF Grown
<1>2. ASSUME NEW p \in DOMAIN disk', NEW d, Has(disk'[p].rows, d)
      PROVE  \E i, k \in 1 .. durable' : /\ MadeOn(log', i, p) /\ log'[i].after.id = d
                                         /\ log'[k].kind = "commit" /\ log'[k].txn = log'[i].txn
  <2>1. PICK i, k \in 1 .. durable : /\ MadeOn(log, i, p) /\ log[i].after.id = d
                                     /\ log[k].kind = "commit" /\ log[k].txn = log[i].txn
    BY <1>2 DEF DiskFrom
  <2>. QED BY <1>1, <2>1 DEF MadeOn, Makes
<1>. QED BY <1>2 DEF DiskFrom

(* Steps of a running instance say nothing of recovery; a transaction that   *)
(* works has not been undone in part.                                        *)
LEMMA NormalLive ==
  ASSUME TypeInv, TypeInv', UndoInv', TabRolled, phase' \in Normal, Grown(log, log'),
         \A m \in 1 .. Len(log') : m > Len(log) => log'[m].kind # "clr"
  PROVE  OpenLast' /\ TabRolled' /\ TabWalked' /\ MetaFile'
<1>1. phase' \notin {"redo", "undo", "undo_apply", "down"}
  BY DEF Normal, InStatement
<1>2. OpenLast' /\ TabWalked' /\ MetaFile'
  BY <1>1 DEF OpenLast, TabWalked, MetaFile
<1>3. /\ Len(log) \in Nat /\ Len(log') \in Nat /\ \A i \in 1 .. Len(log) : log'[i] = log[i] /\ i \in 1 .. Len(log')
      /\ \A i \in 1 .. Len(log') : i \in 1 .. Len(log) \/ i > Len(log)
  BY LenProperties DEF Grown, TypeInv, TypeOK
<1>4. ASSUME NEW c \in 1 .. Len(log'), NEW i \in 1 .. Len(log'), log'[c].kind = "clr",
             log'[i].txn = log'[c].txn, i > log'[c].undo_next, Tab(log', i)
      PROVE  TabUndone(log', i)
  <2>1. c \in 1 .. Len(log)
    BY <1>3, <1>4
  <2>2. i \in 1 .. Len(log)
    <3>1. SUFFICES ASSUME i > Len(log) PROVE FALSE
      BY <1>3
    <3>2. c < i
      BY <1>3, <2>1, <3>1
    <3>3. Follows(log', c, i)
      BY <3>2 DEF UndoInv, LogInv
    <3>. QED BY <1>4, <3>3 DEF Follows, Tab
  <2>3. TabUndone(log, i)
    BY <1>3, <1>4, <2>1, <2>2 DEF TabRolled, Tab
  <2>. QED BY <1>3, <2>3 DEF TabUndone
<1>5. TabRolled'
  BY <1>4 DEF TabRolled
<1>. QED BY <1>2, <1>5

-----------------------------------------------------------------------------
(* Statements                                                              *)

(* What the beginning of a statement leaves of the metadata.                 *)
LEMMA BeginMeta ==
  ASSUME NEW x, BeginInsert(x) \/ \E kind \in {"update", "delete"} : BeginOnRows(x, kind)
  PROVE  /\ mt' = mt /\ mt_file' = mt_file
         /\ phase' \in {"update", "delete"} => unchanged_mt' = mt
<1>1. CASE BeginInsert(x)
  BY <1>1 DEF BeginInsert, memory
<1>2. ASSUME NEW kind \in {"update", "delete"}, BeginOnRows(x, kind)
      PROVE  mt' = mt /\ mt_file' = mt_file /\ unchanged_mt' = mt
  BY <1>2 DEF BeginOnRows
<1>. QED BY <1>1, <1>2

(* The begin of a statement.                                                 *)
LEMMA BeginsLive ==
  ASSUME TypeInv, TypeInv', UndoInv, UndoInv', TableInv, LiveCore, NEW x, Begins(x),
         mt' = mt, mt_file' = mt_file, phase' \in {"update", "delete"} => unchanged_mt' = mt
  PROVE  LiveCore'
<1>1. /\ Sole /\ Closed /\ Buys(log) /\ CacheFrom /\ DiskFrom /\ Pairs /\ TabRolled
      /\ MetaCuts /\ MetaNow /\ Ends
  BY DEF LiveCore, Origins, TableInv
<1>2. /\ Loads(cache', pages', dirty') /\ phase = "idle" /\ phase' \in InStatement /\ txn' = x
      /\ x \in Txns /\ UNCHANGED <<durable, disk>>
      /\ \A i \in 1 .. Len(log) : log[i].txn # x
  BY DEF Begins
<1>3. PICK r \in Record : Adds(r) /\ r.kind = "begin" /\ r.txn = x
  BY DEF Begins
<1>4. /\ Len(log) \in Nat /\ Len(log') = Len(log) + 1 /\ log'[Len(log) + 1] = r
      /\ Grown(log, log') /\ log \in Seq(Record) /\ log' \in Seq(Record)
      /\ \A i \in 1 .. Len(log) : i \in 1 .. Len(log') /\ log'[i] = log[i]
      /\ \A m \in 1 .. Len(log') : m > Len(log) => m = Len(log) + 1 /\ log'[m] = r
      /\ \A m \in 1 .. Len(log') : m \in 1 .. Len(log) \/ m > Len(log)
      /\ Len(log) + 1 \in 1 .. Len(log')
  BY <1>3, AddsLog
<1>5. /\ \A m \in 1 .. Len(log') : m > Len(log) =>
           log'[m].kind \notin {"commit", "rollback", "clr", "update_table"} \union DataKinds
      /\ phase \in Normal /\ phase' \in Normal /\ txn = NoTxn /\ durable = Len(log)
      /\ phase' \in Running /\ phase' \notin {"idle", "flushing"}
  BY <1>1, <1>2, <1>3, <1>4 DEF DataKinds, Normal, Running, InStatement, Ends, Sole
<1>6. /\ \A i \in 1 .. Len(log) : log[i].txn # NoTxn
      /\ \A i \in 1 .. Len(log') : log'[i].txn # NoTxn
      /\ \A c \in 1 .. Len(log) : LinksBack(log, c)
  BY <1>4, LogBasics, Owned
<1>7. /\ \A i \in 1 .. Len(log) : /\ Done(log', i) <=> Done(log, i)
                                  /\ Finished(log', i) <=> Finished(log, i)
      /\ \A y : Ended(log', y, "commit") <=> Ended(log, y, "commit")
  BY <1>4, <1>5, NobodyEnds
<1>8. OpenLast' /\ TabRolled' /\ TabWalked' /\ MetaFile'
  BY <1>1, <1>4, <1>5, NormalLive
<1>9. Sole' /\ Closed'
  BY <1>1, <1>2, <1>3, <1>4, <1>5, <1>7 DEF Sole, Closed
<1>10. Buys(log')
  <2>1. \A m \in 1 .. Len(log') : m > Len(log) => Bought(log', m)
    BY <1>5 DEF Bought, DataKinds
  <2>. QED BY <1>1, <1>4, <2>1, BuysGrow
<1>11. DiskFrom'
  BY <1>1, <1>2, <1>4, <1>5, DiskFromStays
<1>12. ASSUME NEW p \in DOMAIN cache' PROVE From(log, NoTxn, cache'[p].rows, p)
  BY <1>1, <1>2, <1>5, <1>12, LoadedFrom
<1>13. CacheFrom'
  <2>1. \A i \in 1 .. Len(log) : Counts(log, NoTxn, i) => Counts(log', x, i)
    BY <1>6, <1>7 DEF Counts
  <2>2. ASSUME NEW p \in DOMAIN cache' PROVE From(log', x, cache'[p].rows, p)
    BY <1>4, <1>12, <2>1, <2>2, FromGrows
  <2>. QED BY <1>2, <2>2 DEF CacheFrom
<1>14. TodoFrom'
  <2>1. ASSUME NEW t \in todo'
        PROVE  \E i \in 1 .. Len(log') :
                 MadeOn(log', i, t[1]) /\ log'[i].after.id = RowAt(cache', t).id /\ Done(log', i)
    <3>1. t[1] \in DOMAIN cache' /\ t[2] \in 1 .. Len(cache'[t[1]].rows)
      BY <2>1 DEF Begins
    <3>2. Has(cache'[t[1]].rows, RowAt(cache', t).id)
      BY <3>1 DEF Has, RowAt
    <3>3. PICK i \in 1 .. Len(log) : /\ MadeOn(log, i, t[1]) /\ log[i].after.id = RowAt(cache', t).id
                                     /\ Counts(log, NoTxn, i)
      BY <1>12, <3>1, <3>2 DEF From
    <3>4. Done(log', i)
      BY <1>6, <1>7, <3>3 DEF Counts
    <3>. QED BY <1>4, <3>3, <3>4 DEF MadeOn, Makes
  <2>. QED BY <2>1 DEF TodoFrom
<1>15. Pairs'
  <2>1. ASSUME NEW j \in 1 .. Len(log'), log'[j].kind \in DataKinds, Done(log', j) \/ log'[j].txn = x
        PROVE  Paired(log', j)
    <3>1. j \in 1 .. Len(log)
      BY <1>4, <1>5, <2>1
    <3>2. Done(log, j)
      BY <1>2, <1>4, <1>7, <2>1, <3>1
    <3>3. Paired(log, j)
      BY <1>1, <1>4, <2>1, <3>1, <3>2 DEF Pairs
    <3>. QED BY <1>4, <3>1, <3>3 DEF Paired, Tab
  <2>. QED BY <1>2, <2>1 DEF Pairs
<1>16. MetaCuts'
  <2>1. ASSUME NEW lg \in Seq(Record), Grown(lg, log'), durable' <= Len(lg)
        PROVE  MetaRight(lg, mt_file'.live_rows)
    <3>1. MetaRight(log, mt_file.live_rows)
      BY <1>1, <1>4, <1>5, GrownSelf DEF MetaCuts
    <3>2. Grown(lg, log) \/ Grown(log, lg)
      BY <1>4, <2>1, OneOfTwo
    <3>3. Len(lg) \in Nat /\ Len(lg) <= Len(log')
      BY <2>1, LenProperties DEF Grown
    <3>4. CASE Len(lg) <= Len(log)
      <4>1. Grown(lg, log)
        BY <1>4, <2>1, <3>4, OneOfTwo
      <4>. QED BY <1>1, <1>2, <2>1, <4>1 DEF MetaCuts
    <3>5. CASE Len(lg) > Len(log)
      <4>1. lg = log'
        BY <1>4, <2>1, <3>3, <3>5, WholeLog
      <4>2. \A m \in 1 .. Len(log') : m > Len(log) =>
              /\ log'[m].kind \notin {"commit", "rollback", "clr"} /\ ~Done(log', m)
              /\ ~FirstTab(log', m)
        <5>1. ASSUME NEW m \in 1 .. Len(log'), m > Len(log) PROVE ~Done(log', m)
          <6>1. log'[m].txn = x
            BY <1>3, <1>4, <5>1
          <6>2. ~Ended(log, x, "commit")
            BY <1>2 DEF Ended
          <6>. QED BY <1>7, <6>1, <6>2 DEF Done
        <5>. QED BY <1>5, <5>1 DEF FirstTab, Tab
      <4>3. MetaRight(log', mt_file.live_rows)
        BY <1>4, <1>6, <3>1, <4>2, MetaGrows
      <4>. QED BY <4>1, <4>3
    <3>. QED BY <1>4, <3>3, <3>4, <3>5
  <2>. QED BY <2>1 DEF MetaCuts
<1>17. MetaNow'
  <2>1. Num(log', NoTxn) = Num(log, NoTxn) /\ Num(log', x) = Num(log, NoTxn)
    <3>1. Kept(log', NoTxn) = Kept(log, NoTxn)
      BY <1>4, <1>5, <1>6, <1>7, KeptGrows
    <3>2. \A i \in 1 .. Len(log') : log'[i].kind \in DataKinds => log'[i].txn # x /\ log'[i].txn # NoTxn
      BY <1>2, <1>4, <1>5, <1>6
    <3>3. Kept(log', x) = Kept(log', NoTxn)
      BY <3>2, KeptOwn
    <3>. QED BY <3>1, <3>3 DEF Num
  <2>2. Fine(log') => mt.live_rows = Num(log, NoTxn)
    <3>1. Fine(log') => Fine(log)
      BY <1>4, GrownFine
    <3>. QED BY <1>1, <1>5, <3>1 DEF MetaNow
  <2>3. ASSUME NEW n \in 1 .. Len(log'), Tab(log', n), log'[n].txn = x PROVE FALSE
    BY <1>2, <1>4, <1>5, <2>3 DEF Tab
  <2>. QED BY <1>2, <2>1, <2>2, <2>3 DEF MetaNow
<1>. QED BY <1>8, <1>9, <1>10, <1>11, <1>13, <1>14, <1>15, <1>16, <1>17 DEF LiveCore, Origins

(* One row of a statement that does not fail: what becomes of the counter,   *)
(* and what the record of the metadata says.                                 *)
RowMeta ==
  /\ UNCHANGED <<mt_file, unchanged_mt>>
  /\ log'[Len(log) + 2].after.live_rows = mt'.live_rows
  /\ log'[Len(log) + 2].before.live_rows =
       IF phase = "insert" THEN mt.live_rows ELSE unchanged_mt.live_rows
  /\ phase = "insert" => mt'.live_rows = (mt.live_rows + 1) % Counter
  /\ phase = "update" => mt'.live_rows = mt.live_rows
  /\ phase = "delete" => mt'.live_rows = (mt.live_rows + Counter - 1) % Counter

(* The images in the second record of a pair.                                *)
LEMMA PairImages ==
  ASSUME TypeInv, NEW x \in Txns, NEW k \in DataKinds, NEW p \in Pages, NEW b \in Row, NEW a \in Row,
         NEW tb \in MetaTable, NEW ta \in MetaTable,
         log' = LogTable(LogRow(log, x, k, p, b, a), x, tb, ta)
  PROVE  log'[Len(log) + 2].after = ta /\ log'[Len(log) + 2].before = tb
<1>0. log \in Seq(Record) /\ \A c \in 1 .. Len(log) : LinksBack(log, c)
  BY LogBasics
<1>1. Extends(log, LogRow(log, x, k, p, b, a)) /\ Len(LogRow(log, x, k, p, b, a)) = Len(log) + 1
  BY <1>0, LogRowExtends
<1>2. PICK lg : lg = LogRow(log, x, k, p, b, a)
  OBVIOUS
<1>3. lg \in Seq(Record) /\ Len(lg) = Len(log) + 1 /\ Len(lg) \in Nat /\ Len(log) \in Nat
  BY <1>0, <1>1, <1>2, LenProperties DEF Extends
<1>4. log' = Append(lg, [kind |-> "update_table", txn |-> x, prev |-> LastLsn(x, lg),
                         before |-> tb, after |-> ta])
  BY <1>2 DEF LogTable
<1>5. log'[Len(lg) + 1] = [kind |-> "update_table", txn |-> x, prev |-> LastLsn(x, lg),
                           before |-> tb, after |-> ta]
  BY <1>3, <1>4, AppendProperties
<1>6. Len(lg) + 1 = Len(log) + 2
  BY <1>3
<1>. QED BY <1>5, <1>6

(* insert_row, update_row, delete_rows and the metadata.                     *)
LEMMA RowWorkMeta ==
  ASSUME TypeInv, RowWork, throws' = throws
  PROVE  RowMeta
<1>0. /\ mt \in MetaTable /\ unchanged_mt \in MetaTable /\ throws \in Nat
      /\ mt.live_rows \in Nat /\ mt.last_rid \in Nat
      /\ phase \in InStatement => txn \in Txns
  BY ConstantsAssumption DEF TypeInv, TypeOK, StmtInv, MetaTable
<1>1. ASSUME NEW v \in Vals, InsertRow(v) PROVE RowMeta
  <2>1. /\ phase = "insert" /\ mt' = TableAfterInsert /\ UNCHANGED <<mt_file, unchanged_mt>>
        /\ \E p \in Pages :
             LET row == [id |-> mt.last_rid, val |-> v, obsolete |-> FALSE]
             IN  log' = LogTable(LogRow(log, txn, "insert", p, row, row), txn, mt, TableAfterInsert)
    BY <1>1 DEF InsertRow, statement
  <2>2. PICK p \in Pages, b \in Row :
          log' = LogTable(LogRow(log, txn, "insert", p, b, b), txn, mt, TableAfterInsert)
    <3>1. [id |-> mt.last_rid, val |-> v, obsolete |-> FALSE] \in Row
      BY <1>0 DEF Row
    <3>. QED BY <2>1, <3>1
  <2>3. TableAfterInsert \in MetaTable
    BY <1>0, CountersType
  <2>4. txn \in Txns /\ "insert" \in DataKinds
    BY <1>0, <2>1 DEF InStatement, DataKinds
  <2>5. log'[Len(log) + 2].after = TableAfterInsert /\ log'[Len(log) + 2].before = mt
    BY <1>0, <2>2, <2>3, <2>4, PairImages
  <2>6. TableAfterInsert.live_rows = (mt.live_rows + 1) % Counter
    BY <1>0 DEF TableAfterInsert, MetaTable
  <2>. QED BY <2>1, <2>5, <2>6 DEF RowMeta
<1>2. ASSUME NEW t \in todo, NEW v \in Vals, UpdateRow(t, v) PROVE RowMeta
  <2>1. /\ phase = "update" /\ mt' = [mt EXCEPT !.last_rid = @ + 1] /\ UNCHANGED <<mt_file, unchanged_mt>>
        /\ log' = LogAfterUpdate(t, v)
    BY <1>2 DEF UpdateRow
  <2>2. RowAt(cache, t) \in Row
    BY RowAtType
  <2>3. OldVersion(t) \in Row /\ NewVersion(t, v) \in Row
    <3>1. FALSE \in BOOLEAN
      OBVIOUS
    <3>. QED BY <3>1, PageAfterUpdateType
  <2>4. t[1] \in Pages
    BY DEF TypeInv, TypeOK
  <2>5. log' = LogTable(LogRow(log, txn, "update", t[1], OldVersion(t), NewVersion(t, v)),
                        txn, unchanged_mt, mt')
    BY <2>1 DEF LogAfterUpdate
  <2>6. mt' \in MetaTable /\ mt'.live_rows = mt.live_rows
    BY <1>0, <2>1 DEF MetaTable
  <2>7. txn \in Txns /\ "update" \in DataKinds
    BY <1>0, <2>1 DEF InStatement, DataKinds
  <2>8. log'[Len(log) + 2].after = mt' /\ log'[Len(log) + 2].before = unchanged_mt
    BY <1>0, <2>3, <2>4, <2>5, <2>6, <2>7, PairImages
  <2>. QED BY <2>1, <2>6, <2>8 DEF RowMeta
<1>3. ASSUME NEW t \in todo, NEW v \in Vals, UpdateThrows(t, v) PROVE FALSE
  BY <1>0, <1>3 DEF UpdateThrows
<1>4. ASSUME NEW t \in todo, DeleteRow(t) PROVE RowMeta
  <2>1. /\ phase = "delete" /\ mt' = TableAfterDelete /\ UNCHANGED <<mt_file, unchanged_mt>>
        /\ log' = LogTable(LogRow(log, txn, "delete", t[1], OldVersion(t), OldVersion(t)),
                           txn, unchanged_mt, TableAfterDelete)
    BY <1>4 DEF DeleteRow
  <2>2. RowAt(cache, t) \in Row
    BY RowAtType
  <2>3. OldVersion(t) \in Row
    BY <2>2 DEF OldVersion, Row
  <2>4. t[1] \in Pages
    BY DEF TypeInv, TypeOK
  <2>5. TableAfterDelete \in MetaTable
    BY <1>0, CountersType
  <2>6. TableAfterDelete.live_rows = (mt.live_rows + Counter - 1) % Counter
    BY <1>0 DEF TableAfterDelete, MetaTable
  <2>7. txn \in Txns /\ "delete" \in DataKinds
    BY <1>0, <2>1 DEF InStatement, DataKinds
  <2>8. log'[Len(log) + 2].after = TableAfterDelete /\ log'[Len(log) + 2].before = unchanged_mt
    BY <1>0, <2>1, <2>3, <2>4, <2>5, <2>7, PairImages
  <2>. QED BY <2>1, <2>6, <2>8 DEF RowMeta
<1>. QED BY <1>1, <1>2, <1>3, <1>4 DEF RowWork

(* The row that it replaces counts, and nothing that counts has replaced it. *)
LEMMA WorksKept ==
  ASSUME TypeInv, UndoInv, History(log), Tasks, NEW c, NEW p, NEW r, Works(c, p, r),
         Fine(log'), KnownIn(log, c), CachedRight(log, txn, c), r.kind # "insert"
  PROVE  \E i \in Kept(log, txn) : Replaces(log', Len(log) + 1, i)
<1>1. /\ Len(log) \in Nat /\ log'[Len(log) + 1] = r /\ r.kind \in DataKinds
      /\ Len(log) + 1 \in 1 .. Len(log')
      /\ \A i \in 1 .. Len(log) : i \in 1 .. Len(log') /\ log'[i] = log[i]
  BY WorksLog
<1>2. PICK i \in 1 .. Len(log) : MadeOn(log, i, p) /\ log[i].after.id = r.before.id
  BY WorksRow
<1>3. r.kind \in {"update", "delete"}
  BY <1>1 DEF DataKinds
<1>4. Replaces(log', Len(log) + 1, i)
  BY <1>1, <1>2, <1>3 DEF Replaces, MadeOn, Makes
<1>5. /\ Fine(log) /\ p \in DOMAIN c
      /\ \A j \in 1 .. Len(log), q \in DOMAIN c :
           Replaces(log, j, i) => ~Applied(log, InCache(log, txn, q), c[q].rows, j)
      /\ \A j \in 1 .. Len(log) : Replaces(log, j, i) => log[j].page = p
  <2>1. p \in DOMAIN c
    BY DEF Works
  <2>. QED BY <1>4, <2>1, WorksCurrent
<1>6. Done(log, i)
  <2>1. Done(log', i)
    <3>1. i \in 1 .. Len(log') /\ Len(log) + 1 \in 1 .. Len(log') /\ OnCommitted(log')
      BY <1>1 DEF Fine
    <3>2. PICK k \in 1 .. (Len(log) + 1) - 1 : log'[k].kind = "commit" /\ log'[k].txn = log'[i].txn
      BY <1>4, <3>1 DEF OnCommitted
    <3>3. k \in 1 .. Len(log')
      BY <1>1, <3>2
    <3>. QED BY <3>2, <3>3 DEF Done, Ended
  <2>. QED BY <2>1, WorksDone
<1>7. Present(log, InCache(log, txn, p), c[p].rows)
  BY <1>5 DEF CachedRight, CachedOK, Content
<1>8. ASSUME NEW j \in 1 .. Len(log), Replaces(log, j, i), Counts(log, txn, j) PROVE FALSE
  <2>1. log[j].page = p /\ log[j].kind \in {"update", "delete"}
    BY <1>5, <1>8 DEF Replaces
  <2>2. j \in InCache(log, txn, p)
    BY <1>8, <2>1 DEF InCache, RowRec, Counts, DataKinds
  <2>3. ~Applied(log, InCache(log, txn, p), c[p].rows, j)
    BY <1>5, <1>8
  <2>4. log[j].kind = "update" => Has(c[p].rows, log[j].after.id)
    BY <1>7, <2>2 DEF Present, Makes
  <2>. QED BY <2>1, <2>2, <2>3, <2>4 DEF Applied
<1>9. i \in Kept(log, txn)
  BY <1>2, <1>6, <1>8 DEF Kept, MadeOn, Counts
<1>. QED BY <1>4, <1>9

(* Before the first record of the metadata a transaction has changed nothing.*)
LEMMA FirstChange ==
  ASSUME TypeInv, Pairs, phase \in InStatement,
         \A n \in 1 .. Len(log) : Tab(log, n) => log[n].txn # txn
  PROVE  Num(log, txn) = Num(log, NoTxn)
<1>1. \A i \in 1 .. Len(log) : log[i].txn # NoTxn
  BY LogBasics
<1>2. ASSUME NEW i \in 1 .. Len(log), log[i].kind \in DataKinds, log[i].txn = txn PROVE FALSE
  BY <1>2 DEF Pairs, Paired
<1>3. Kept(log, txn) = Kept(log, NoTxn)
  BY <1>1, <1>2, KeptOwn
<1>. QED BY <1>3 DEF Num

(* The counter after one row.                                                *)
LEMMA WorksNum ==
  ASSUME TypeInv, TypeInv', LsnInv, UndoInv, TableInv, MetaNow,
         NEW c, NEW p, NEW r, Works(c, p, r), RowMeta, Fine(log')
  PROVE  /\ Fine(log) /\ mt.live_rows = Num(log, txn) /\ mt'.live_rows = Num(log', txn)
         /\ Num(log', NoTxn) = Num(log, NoTxn)
<1>1. /\ Len(log) \in Nat /\ Len(log') = Len(log) + 2 /\ log'[Len(log) + 1] = r
      /\ Grown(log, log') /\ log \in Seq(Record) /\ log' \in Seq(Record)
      /\ \A m \in 1 .. Len(log') : m > Len(log) /\ log'[m].kind \in DataKinds => m = Len(log) + 1
      /\ Len(log) + 1 \in 1 .. Len(log') /\ Len(log) + 1 > Len(log) /\ r.kind \in DataKinds
  BY WorksLog
<1>2. /\ phase \in InStatement /\ r.kind = phase /\ r.txn = txn /\ Loads(c, pages', dirty')
  BY DEF Works
<1>3. /\ \A j \in 1 .. Len(log) : (Done(log', j) <=> Done(log, j))
      /\ \A m \in 1 .. Len(log') : m > Len(log) => ~Done(log', m)
  BY WorksDone
<1>4. /\ History(log) /\ Known /\ Tasks /\ OwnRows /\ Ends /\ Fresh /\ Pending
      /\ CachedRight(log, txn, cache) /\ DiskRight
  BY DEF TableInv
<1>5. KnownIn(log, c)
  BY <1>2, <1>4, LoadedKnown
<1>6. CachedRight(log, txn, c)
  BY <1>2, <1>4, LoadedRight
<1>7. Fine(log) /\ mt.live_rows = Num(log, txn)
  <2>1. Fine(log)
    BY <1>1, GrownFine
  <2>2. phase \in Normal
    BY <1>2 DEF Normal
  <2>. QED BY <2>1, <2>2 DEF MetaNow
<1>8. r.kind # "insert" => \E i \in Kept(log, txn) : Replaces(log', Len(log) + 1, i)
  BY <1>4, <1>5, <1>6, WorksKept
<1>9. PICK n : n = Len(log) + 1
  OBVIOUS
<1>10. /\ log'[n].kind = "insert" => Num(log', txn) = (Num(log, txn) + 1) % Counter
       /\ log'[n].kind = "update" => Num(log', txn) = Num(log, txn)
       /\ log'[n].kind = "delete" => Num(log', txn) = (Num(log, txn) + Counter - 1) % Counter
  <2>1. /\ n \in 1 .. Len(log') /\ n > Len(log) /\ log'[n].kind \in DataKinds /\ log'[n].txn = txn
        /\ \A m \in 1 .. Len(log') : m > Len(log) /\ log'[m].kind \in DataKinds => m = n
        /\ log'[n].kind # "insert" => \E i \in Kept(log, txn) : Replaces(log', n, i)
    BY <1>1, <1>2, <1>8, <1>9
  <2>. QED BY <1>1, <1>3, <2>1, NumWork
<1>11. mt'.live_rows = Num(log', txn)
  BY <1>1, <1>2, <1>7, <1>9, <1>10 DEF RowMeta, InStatement
<1>12. Kept(log', NoTxn) = Kept(log, NoTxn)
  <2>1. \A i \in 1 .. Len(log') : log'[i].txn # NoTxn
    BY <1>1, Owned
  <2>. QED BY <1>1, <1>3, <2>1, KeptGrows
<1>. QED BY <1>7, <1>11, <1>12 DEF Num

(* The logs that a crash may leave after one row.                            *)
LEMMA WorksCuts ==
  ASSUME TypeInv, TypeInv', LsnInv, UndoInv, TableInv, MetaNow, MetaCuts, Pairs,
         NEW c, NEW p, NEW r, Works(c, p, r), RowMeta
  PROVE  MetaCuts'
<1>1. /\ Len(log) \in Nat /\ Len(log') = Len(log) + 2 /\ log'[Len(log) + 1] = r
      /\ Grown(log, log') /\ log \in Seq(Record) /\ log' \in Seq(Record)
      /\ \A m \in 1 .. Len(log') : m > Len(log) =>
           /\ log'[m].txn = txn
           /\ log'[m].kind \in DataKinds \union {"update_table"}
           /\ log'[m].kind \in DataKinds => m = Len(log) + 1
      /\ r.kind \in DataKinds
  BY WorksLog
<1>2. phase \in InStatement /\ durable' = durable /\ mt_file' = mt_file
  BY DEF Works, RowMeta
<1>3. ASSUME NEW lg \in Seq(Record), Grown(lg, log'), durable' <= Len(lg)
      PROVE  MetaRight(lg, mt_file'.live_rows)
  <2>1. MetaRight(log, mt_file.live_rows)
    BY GrownSelf DEF MetaCuts
  <2>2. Len(lg) \in Nat /\ Len(lg) <= Len(log')
    BY <1>3, LenProperties DEF Grown
  <2>3. CASE Len(lg) <= Len(log)
    <3>1. Grown(lg, log)
      BY <1>1, <1>3, <2>3, OneOfTwo
    <3>. QED BY <1>2, <1>3, <3>1 DEF MetaCuts
  <2>4. CASE Len(lg) > Len(log)
    <3>1. Grown(log, lg)
      BY <1>1, <1>3, <2>2, <2>4, OneOfTwo
    <3>2. \A m \in 1 .. Len(lg) : m \in 1 .. Len(log') /\ lg[m] = log'[m]
      BY <1>3, <2>2 DEF Grown
    <3>3. \A m \in 1 .. Len(lg) : m > Len(log) =>
            lg[m].kind \notin {"commit", "rollback", "clr"}
      BY <1>1, <3>2 DEF DataKinds
    <3>4. ASSUME NEW m \in 1 .. Len(lg), m > Len(log) PROVE ~Done(lg, m)
      <4>1. ~Done(log', m) /\ lg[m] = log'[m]
        BY <3>2, <3>4, WorksDone
      <4>. QED BY <3>2, <4>1 DEF Done, Ended
    <3>5. ASSUME NEW m \in 1 .. Len(lg), m > Len(log), FirstTab(lg, m), Fine(lg)
          PROVE  lg[m].before.live_rows = Num(log, NoTxn)
      <4>1. m = Len(log) + 2 /\ m \in 1 .. Len(log') /\ lg[m] = log'[m]
        <5>1. m \in 1 .. Len(log') /\ lg[m] = log'[m] /\ lg[m].kind = "update_table"
          BY <3>2, <3>5 DEF FirstTab, Tab
        <5>2. m # Len(log) + 1
          BY <1>1, <5>1 DEF DataKinds
        <5>. QED BY <1>1, <3>5, <5>1, <5>2
      <4>2. Fine(log')
        BY <1>3, <2>4, <3>5, WorksFine
      <4>3. /\ Fine(log) /\ mt.live_rows = Num(log, txn)
        BY <4>2, WorksNum
      <4>4. CASE phase = "insert"
        <5>1. ASSUME NEW n \in 1 .. Len(log), Tab(log, n) PROVE log[n].txn # txn
          <6>1. n \in 1 .. m - 1 /\ lg[n] = log[n] /\ lg[m].txn = txn
            BY <1>1, <3>1, <4>1 DEF Grown
          <6>. QED BY <3>5, <5>1, <6>1 DEF FirstTab, Tab
        <5>2. Num(log, txn) = Num(log, NoTxn)
          BY <1>2, <5>1, FirstChange
        <5>. QED BY <4>1, <4>3, <4>4, <5>2 DEF RowMeta
      <4>5. CASE phase # "insert"
        <5>1. unchanged_mt.live_rows = Num(log, NoTxn)
          BY <1>2, <4>3, <4>5 DEF MetaNow, InStatement
        <5>. QED BY <4>1, <4>5, <5>1 DEF RowMeta
      <4>. QED BY <4>4, <4>5
    <3>6. /\ \A i \in 1 .. Len(lg) : lg[i].txn # NoTxn
          /\ \A i \in 1 .. Len(log) : LinksBack(log, i)
      BY LogBasics, Owned
    <3>7. MetaRight(lg, mt_file.live_rows)
      BY <1>1, <2>1, <3>1, <3>3, <3>4, <3>5, <3>6, MetaGrows
    <3>. QED BY <1>2, <3>7
  <2>. QED BY <1>1, <2>2, <2>3, <2>4
<1>. QED BY <1>3 DEF MetaCuts

(* One row of a statement.                                                   *)
LEMMA WorksLive ==
  ASSUME TypeInv, TypeInv', LsnInv, UndoInv, UndoInv', TableInv, LiveCore,
         NEW c, NEW p, NEW r, Works(c, p, r), RowMeta, phase' = phase, txn' = txn
  PROVE  LiveCore'
<1>1. /\ Sole /\ Closed /\ Buys(log) /\ CacheFrom /\ DiskFrom /\ TodoFrom /\ Pairs /\ TabRolled
      /\ MetaCuts /\ MetaNow
  BY DEF LiveCore, Origins
<1>2. /\ Len(log) \in Nat /\ Len(log') = Len(log) + 2 /\ log'[Len(log) + 1] = r
      /\ Grown(log, log') /\ log \in Seq(Record) /\ log' \in Seq(Record)
      /\ \A i \in 1 .. Len(log) : i \in 1 .. Len(log') /\ log'[i] = log[i]
      /\ \A m \in 1 .. Len(log') : m > Len(log) =>
           /\ log'[m].txn = txn
           /\ log'[m].kind \in DataKinds \union {"update_table"}
           /\ log'[m].kind \in DataKinds => m = Len(log) + 1
      /\ Len(log) + 1 \in 1 .. Len(log') /\ r.kind \in DataKinds
  BY WorksLog
<1>3. /\ phase \in InStatement /\ r.kind = phase /\ r.txn = txn /\ r.page = p
      /\ Loads(c, pages', dirty') /\ UNCHANGED <<durable, disk>>
  BY DEF Works
<1>4. /\ \A x : Ended(log', x, "commit") <=> Ended(log, x, "commit")
      /\ \A x : Ended(log', x, "rollback") <=> Ended(log, x, "rollback")
      /\ ~Ended(log, txn, "commit")
      /\ \A j \in 1 .. Len(log) : (Done(log', j) <=> Done(log, j))
      /\ \A m \in 1 .. Len(log') : m > Len(log) => ~Done(log', m)
  BY WorksDone
<1>5. /\ phase \in Normal /\ phase \in Running /\ phase \notin {"idle", "flushing"}
      /\ \A m \in 1 .. Len(log') : m > Len(log) => log'[m].kind \notin {"clr", "commit", "rollback"}
      /\ \A m \in 1 .. Len(log') : m \in 1 .. Len(log) \/ m > Len(log)
      /\ durable \in Nat /\ durable <= Len(log)
  BY <1>2, <1>3, LogBasics DEF Normal, Running, InStatement, DataKinds
<1>6. OpenLast' /\ TabRolled' /\ TabWalked' /\ MetaFile'
  BY <1>1, <1>2, <1>5, NormalLive
<1>7. Sole'
  BY <1>1, <1>2, <1>3, <1>5 DEF Sole
<1>8. Closed'
  <2>1. \A j \in 1 .. durable : j \in 1 .. Len(log) /\ Finished(log, j)
    BY <1>1, <1>5 DEF Closed
  <2>2. \A j \in 1 .. durable : Finished(log', j)
    BY <1>2, <1>4, <2>1 DEF Finished
  <2>. QED BY <1>3, <2>2 DEF Closed
<1>9. Buys(log')
  <2>1. ASSUME r.kind # "insert" PROVE Bought(log', Len(log) + 1)
    <3>1. PICK t \in todo : t[1] = p /\ r.before.id = RowAt(cache, t).id
      BY <2>1 DEF Works
    <3>2. PICK i \in 1 .. Len(log) : /\ MadeOn(log, i, p) /\ log[i].after.id = r.before.id
                                     /\ Done(log, i)
      BY <1>1, <3>1 DEF TodoFrom
    <3>3. PICK k \in 1 .. Len(log) : log[k].kind = "commit" /\ log[k].txn = log[i].txn
      BY <3>2 DEF Done, Ended
    <3>4. i \in 1 .. (Len(log) + 1) - 1 /\ k \in 1 .. (Len(log) + 1) - 1
      BY <1>2
    <3>. QED BY <1>2, <1>3, <3>2, <3>3, <3>4 DEF Bought, MadeOn, Makes
  <2>2. ASSUME NEW m \in 1 .. Len(log'), m > Len(log) PROVE Bought(log', m)
    <3>1. CASE log'[m].kind \in DataKinds
      <4>1. m = Len(log) + 1
        BY <1>2, <2>2, <3>1
      <4>. QED BY <1>2, <2>1, <4>1 DEF Bought
    <3>2. CASE log'[m].kind \notin DataKinds
      BY <3>2 DEF Bought, DataKinds
    <3>. QED BY <3>1, <3>2
  <2>. QED BY <1>1, <1>2, <2>2, BuysGrow
<1>10. DiskFrom'
  BY <1>1, <1>2, <1>3, <1>5, DiskFromStays
<1>11. CacheFrom'
  <2>1. \A i \in 1 .. Len(log) : Counts(log, txn, i) => Counts(log', txn, i)
    BY <1>2, <1>4 DEF Counts
  <2>2. ASSUME NEW q \in DOMAIN c PROVE From(log', txn, c[q].rows, q)
    <3>1. From(log, txn, c[q].rows, q)
      BY <1>1, <1>3, <2>2, LoadedFrom
    <3>. QED BY <1>2, <2>1, <3>1, FromGrows
  <2>3. ASSUME NEW q \in DOMAIN cache', q # p PROVE From(log', txn, cache'[q].rows, q)
    <3>1. q \in DOMAIN c /\ cache'[q].rows = c[q].rows
      BY <2>3 DEF Works, SamePage
    <3>. QED BY <2>2, <3>1
  <2>4. From(log', txn, cache'[p].rows, p)
    <3>1. ASSUME NEW d, Has(cache'[p].rows, d)
          PROVE  \E i \in 1 .. Len(log') :
                   MadeOn(log', i, p) /\ log'[i].after.id = d /\ Counts(log', txn, i)
      <4>1. p \in DOMAIN c /\ (Has(c[p].rows, d) \/ (r.kind # "delete" /\ d = r.after.id))
        BY <3>1 DEF Works
      <4>2. CASE Has(c[p].rows, d)
        BY <2>2, <4>1, <4>2 DEF From
      <4>3. CASE r.kind # "delete" /\ d = r.after.id
        <5>1. MadeOn(log', Len(log) + 1, p)
          BY <1>2, <1>3, <4>3 DEF MadeOn, Makes, DataKinds
        <5>2. Counts(log', txn, Len(log) + 1)
          BY <1>2, <1>3 DEF Counts
        <5>. QED BY <1>2, <4>3, <5>1, <5>2
      <4>. QED BY <4>1, <4>2, <4>3
    <3>. QED BY <3>1 DEF From
  <2>5. \A q \in DOMAIN cache' : From(log', txn', cache'[q].rows, q)
    BY <2>3, <2>4
  <2>. QED BY <2>5 DEF CacheFrom
<1>12. TodoFrom'
  <2>1. ASSUME NEW t \in todo'
        PROVE  \E i \in 1 .. Len(log') :
                 MadeOn(log', i, t[1]) /\ log'[i].after.id = RowAt(cache', t).id /\ Done(log', i)
    <3>1. t \in todo /\ RowAt(cache', t).id = RowAt(cache, t).id
      BY <2>1 DEF Works
    <3>2. PICK i \in 1 .. Len(log) :
            MadeOn(log, i, t[1]) /\ log[i].after.id = RowAt(cache, t).id /\ Done(log, i)
      BY <1>1, <3>1 DEF TodoFrom
    <3>. QED BY <1>2, <1>4, <3>1, <3>2 DEF MadeOn, Makes
  <2>. QED BY <2>1 DEF TodoFrom
<1>13. Pairs'
  <2>1. ASSUME NEW j \in 1 .. Len(log'), log'[j].kind \in DataKinds, Done(log', j) \/ log'[j].txn = txn
        PROVE  Paired(log', j)
    <3>1. CASE j \in 1 .. Len(log)
      <4>1. Paired(log, j)
        BY <1>1, <1>2, <1>3, <1>4, <2>1, <3>1 DEF Pairs
      <4>. QED BY <1>2, <3>1, <4>1 DEF Paired, Tab
    <3>2. CASE j > Len(log)
      <4>1. j = Len(log) + 1 /\ log'[j].txn = txn
        BY <1>2, <2>1, <3>2
      <4>2. j + 1 \in 1 .. Len(log') /\ j + 1 > Len(log) /\ j + 1 # Len(log) + 1
        BY <1>2, <4>1
      <4>3. log'[j + 1].txn = txn /\ log'[j + 1].kind = "update_table"
        BY <1>2, <4>2
      <4>. QED BY <4>1, <4>2, <4>3 DEF Paired, Tab
    <3>. QED BY <1>5, <3>1, <3>2
  <2>. QED BY <2>1 DEF Pairs
<1>14. MetaCuts'
  BY <1>1, WorksCuts
<1>15. MetaNow'
  <2>1. ASSUME Fine(log') PROVE mt'.live_rows = Num(log', txn)
    BY <1>1, <2>1, WorksNum
  <2>2. ASSUME Fine(log'), phase \in {"update", "delete"} PROVE unchanged_mt'.live_rows = Num(log', NoTxn)
    <3>1. Fine(log) /\ Num(log', NoTxn) = Num(log, NoTxn)
      BY <1>1, <2>2, WorksNum
    <3>. QED BY <1>1, <2>2, <3>1 DEF MetaNow, RowMeta
  <2>3. ASSUME NEW n \in 1 .. Len(log'), Tab(log', n), log'[n].txn = txn,
               \A m \in 1 .. Len(log') : Tab(log', m) /\ log'[m].txn = txn => m <= n
        PROVE  log'[n].after.live_rows = mt'.live_rows
    <3>1. Len(log) + 2 \in 1 .. Len(log') /\ Len(log) + 2 > Len(log) /\ Len(log) + 2 # Len(log) + 1
      BY <1>2
    <3>2. Tab(log', Len(log) + 2) /\ log'[Len(log) + 2].txn = txn
      BY <1>2, <3>1 DEF Tab
    <3>3. n = Len(log) + 2
      BY <1>2, <2>3, <3>1, <3>2
    <3>. QED BY <3>3 DEF RowMeta
  <2>. QED BY <2>1, <2>2, <2>3 DEF MetaNow
<1>. QED BY <1>6, <1>7, <1>8, <1>9, <1>10, <1>11, <1>12, <1>13, <1>14, <1>15 DEF LiveCore, Origins

-----------------------------------------------------------------------------
(* Committing                                                              *)

(* The metadata in a log that ends with the commit of the only transaction   *)
(* that had not ended.                                                       *)
LEMMA CommitMeta ==
  ASSUME TypeInv, TypeInv', UndoInv, LiveCore, phase \in InStatement, txn \in Txns,
         NEW r, Adds(r), r.kind = "commit", r.txn = txn
  PROVE  /\ MetaRight(log', mt_file.live_rows)
         /\ Num(log', NoTxn) = Num(log, txn) /\ Num(log', txn) = Num(log', NoTxn)
<1>1. Sole /\ Closed /\ Pairs /\ MetaCuts /\ MetaNow
  BY DEF LiveCore
<1>2. /\ Len(log) \in Nat /\ Len(log') = Len(log) + 1 /\ log'[Len(log) + 1] = r
      /\ Grown(log, log') /\ log \in Seq(Record) /\ log' \in Seq(Record)
      /\ \A i \in 1 .. Len(log) : i \in 1 .. Len(log') /\ log'[i] = log[i]
      /\ \A m \in 1 .. Len(log') : m > Len(log) => m = Len(log) + 1 /\ log'[m] = r
      /\ \A m \in 1 .. Len(log') : m \in 1 .. Len(log) \/ m > Len(log)
      /\ Len(log) + 1 \in 1 .. Len(log')
  BY AddsLog
<1>3. /\ durable \in Nat /\ durable <= Len(log) /\ phase \in Running /\ phase \in Normal
      /\ \A i \in 1 .. Len(log') : log'[i].txn # NoTxn
      /\ \A c \in 1 .. Len(log) : LinksBack(log, c)
  BY <1>2, LogBasics, Owned DEF Running, Normal
<1>4. \A x : Ended(log', x, "commit") <=> Ended(log, x, "commit") \/ x = txn
  BY AddsEnded
<1>5. \A i \in 1 .. Len(log) : (Done(log', i) <=> Done(log, i) \/ log[i].txn = txn)
  BY <1>2, <1>4 DEF Done
<1>6. \A m \in 1 .. Len(log') : m > Len(log) => log'[m].kind \notin DataKinds
  BY <1>2 DEF DataKinds
<1>7. Kept(log', NoTxn) = Kept(log, txn)
  BY <1>2, <1>3, <1>5, <1>6, KeptCommit
<1>8. Kept(log', txn) = Kept(log', NoTxn)
  <2>1. \A i \in 1 .. Len(log') : log'[i].txn = txn \/ log'[i].txn = NoTxn => Done(log', i)
    BY <1>3, <1>4 DEF Done
  <2>. QED BY <2>1, KeptOwn
<1>9. Num(log', NoTxn) = Num(log, txn) /\ Num(log', txn) = Num(log', NoTxn)
  BY <1>7, <1>8 DEF Num
<1>10. \A n \in 1 .. Len(log') : Tab(log', n) => n \in 1 .. Len(log)
  BY <1>2 DEF Tab
<1>11. \A n \in 1 .. Len(log) :
         /\ Tab(log', n) <=> Tab(log, n)
         /\ ImageOf(log', n) = ImageOf(log, n) \/ (~Tab(log, n) /\ log[n].kind # "clr")
         /\ DueTab(log, n) => DueTab(log', n)
         /\ DueTab(log', n) /\ (Done(log', n) => Done(log, n)) => DueTab(log, n)
  BY <1>2, <1>3, TabsGrow
<1>12. \A n \in 1 .. Len(log) : n <= durable \/ log[n].txn = txn
  BY <1>1, <1>3 DEF Sole
<1>13. \A n \in 1 .. Len(log) : n <= durable => Finished(log, n)
  BY <1>1, <1>3 DEF Closed
<1>14. ASSUME NEW n \in 1 .. Len(log'), Tab(log', n) PROVE Finished(log', n)
  <2>1. n \in 1 .. Len(log) /\ log'[n] = log[n]
    BY <1>2, <1>10, <1>14
  <2>2. CASE log[n].txn = txn
    BY <1>5, <2>1, <2>2 DEF Finished
  <2>3. CASE Finished(log, n)
    <3>1. CASE Done(log, n)
      BY <1>5, <2>1, <3>1 DEF Finished
    <3>2. CASE Ended(log, log[n].txn, "rollback")
      BY <1>2, <2>1, <3>2, DoneGrows DEF Finished
    <3>. QED BY <2>3, <3>1, <3>2 DEF Finished
  <2>. QED BY <1>12, <1>13, <2>1, <2>2, <2>3
<1>15. MetaRight(log, mt_file.live_rows)
  BY <1>1, GrownSelf DEF MetaCuts
<1>16. ASSUME Fine(log'), NEW d \in 1 .. Len(log'), LastDue(log', Len(log'), d)
       PROVE  ImageOf(log', d).live_rows = Num(log', NoTxn)
  <2>1. Fine(log) /\ mt.live_rows = Num(log, txn)
    BY <1>1, <1>2, <1>3, <1>16, GrownFine DEF MetaNow
  <2>2. /\ DueTab(log', d) /\ \A e \in 1 .. Len(log') : DueTab(log', e) => e <= d
    BY <1>16 DEF LastDue
  <2>3. d \in 1 .. Len(log) /\ log'[d] = log[d]
    <3>1. d # Len(log) + 1
      BY <1>2, <2>2 DEF DueTab, Tab
    <3>. QED BY <1>2, <3>1
  <2>4. Tab(log, d) \/ log[d].kind = "clr"
    BY <2>2, <2>3 DEF DueTab, Tab
  <2>5. ImageOf(log', d) = ImageOf(log, d)
    BY <1>11, <2>3, <2>4
  <2>6. CASE \E e \in 1 .. Len(log) : Tab(log, e) /\ log[e].txn = txn
    <3>1. PICK e \in 1 .. Len(log) : Tab(log, e) /\ log[e].txn = txn
      BY <2>6
    <3>2. \A n \in 1 .. Len(log) : Tab(log, n) /\ log[n].txn = txn => n <= d
      <4>1. ASSUME NEW n \in 1 .. Len(log), Tab(log, n), log[n].txn = txn PROVE n <= d
        <5>1. DueTab(log', n) /\ n \in 1 .. Len(log')
          BY <1>2, <1>5, <1>11, <4>1 DEF DueTab
        <5>. QED BY <2>2, <5>1
      <4>. QED BY <4>1
    <3>3. log[d].txn = txn
      <4>1. e > durable /\ e <= d
        BY <1>1, <1>3, <3>1, <3>2 DEF Sole
      <4>2. d > durable
        BY <1>2, <1>3, <4>1
      <4>. QED BY <1>1, <1>3, <2>3, <4>2 DEF Sole
    <3>4. log[d].kind # "clr"
      BY <2>3, <3>3 DEF UndoInv, WalkInv, Working
    <3>5. log[d].after.live_rows = mt.live_rows
      BY <1>1, <1>3, <2>3, <2>4, <3>2, <3>3, <3>4 DEF MetaNow
    <3>. QED BY <1>9, <2>1, <2>4, <2>5, <3>4, <3>5 DEF ImageOf
  <2>7. CASE \A e \in 1 .. Len(log) : Tab(log, e) => log[e].txn # txn
    <3>1. Num(log, txn) = Num(log, NoTxn)
      BY <1>1, <2>7, FirstChange
    <3>2. \A n \in 1 .. Len(log) : Tab(log, n) => Finished(log, n)
      BY <1>12, <1>13, <2>7
    <3>3. LastDue(log, Len(log), d)
      <4>1. DueTab(log, d)
        <5>1. log[d].kind = "clr" => log[d].txn # txn
          BY <2>3 DEF UndoInv, WalkInv, Working
        <5>2. log[d].txn # txn
          BY <2>3, <2>4, <2>7, <5>1
        <5>. QED BY <1>5, <1>11, <2>2, <2>3, <5>2
      <4>2. \A e \in 1 .. Len(log) : DueTab(log, e) => e <= d
        BY <1>2, <1>11, <2>2
      <4>. QED BY <2>3, <4>1, <4>2 DEF LastDue
    <3>4. ImageOf(log, d).live_rows = Num(log, NoTxn)
      BY <1>15, <2>1, <2>3, <3>2, <3>3 DEF MetaRight
    <3>. QED BY <1>9, <2>5, <3>1, <3>4
  <2>. QED BY <2>6, <2>7
<1>17. ASSUME Fine(log'), \A n \in 1 .. Len(log') : ~DueTab(log', n) PROVE mt_file.live_rows = 0
  <2>1. Fine(log)
    BY <1>2, <1>17, GrownFine
  <2>2. \A n \in 1 .. Len(log) : ~DueTab(log, n)
    BY <1>2, <1>11, <1>17
  <2>. QED BY <1>15, <2>1, <2>2 DEF MetaRight
<1>18. MetaRight(log', mt_file.live_rows)
  BY <1>14, <1>16, <1>17 DEF MetaRight, FirstTab
<1>. QED BY <1>9, <1>18

(* Transaction::commit logs the commit record.                               *)
LEMMA CommitLive ==
  ASSUME TypeInv, TypeInv', UndoInv, UndoInv', TableInv, LiveCore, Commit
  PROVE  LiveCore'
<1>1. /\ Sole /\ Closed /\ Buys(log) /\ CacheFrom /\ DiskFrom /\ Pairs /\ TabRolled
      /\ MetaCuts /\ MetaNow
  BY DEF LiveCore, Origins
<1>2. /\ phase \in InStatement /\ phase' = "waiting" /\ todo' = {}
      /\ log' = LogMark(log, txn, "commit") /\ UNCHANGED <<durable, disk, mt_file, mt, cache, txn>>
      /\ txn \in Txns
  BY DEF Commit, memory, statement, TypeInv, StmtInv
<1>3. PICK r \in Record : Adds(r) /\ r.kind = "commit" /\ r.txn = txn
  BY <1>2, MarkAdds
<1>4. /\ Len(log) \in Nat /\ Len(log') = Len(log) + 1 /\ log'[Len(log) + 1] = r
      /\ Grown(log, log') /\ log \in Seq(Record) /\ log' \in Seq(Record)
      /\ \A i \in 1 .. Len(log) : i \in 1 .. Len(log') /\ log'[i] = log[i]
      /\ \A m \in 1 .. Len(log') : m > Len(log) => m = Len(log) + 1 /\ log'[m] = r
      /\ \A m \in 1 .. Len(log') : m \in 1 .. Len(log) \/ m > Len(log)
      /\ Len(log) + 1 \in 1 .. Len(log')
  BY <1>3, AddsLog
<1>5. /\ phase' \in Normal /\ phase \in Normal /\ phase \in Running /\ phase' \in Running
      /\ phase' \notin InStatement /\ phase' \notin {"idle", "flushing", "update", "delete"}
      /\ phase \notin {"idle", "flushing"}
      /\ durable \in Nat /\ durable <= Len(log)
      /\ \A m \in 1 .. Len(log') : m > Len(log) => log'[m].kind \notin {"clr"} \union DataKinds
  BY <1>2, <1>3, <1>4, LogBasics DEF Normal, Running, InStatement, DataKinds
<1>6. OpenLast' /\ TabRolled' /\ TabWalked' /\ MetaFile'
  BY <1>1, <1>4, <1>5, NormalLive
<1>7. /\ \A x : Ended(log', x, "commit") <=> Ended(log, x, "commit") \/ x = txn
      /\ \A x : Ended(log', x, "rollback") <=> Ended(log, x, "rollback")
  BY <1>3, AddsEnded
<1>8. \A i \in 1 .. Len(log) : (Done(log', i) <=> Done(log, i) \/ log[i].txn = txn)
  BY <1>4, <1>7 DEF Done
<1>9. Sole'
  BY <1>1, <1>2, <1>3, <1>4, <1>5 DEF Sole
<1>10. Closed'
  <2>1. \A j \in 1 .. durable : j \in 1 .. Len(log) /\ Finished(log, j)
    BY <1>1, <1>5 DEF Closed
  <2>2. \A j \in 1 .. durable : Finished(log', j)
    BY <1>4, <1>7, <1>8, <2>1 DEF Finished
  <2>. QED BY <1>2, <2>2 DEF Closed
<1>11. Buys(log')
  <2>1. \A m \in 1 .. Len(log') : m > Len(log) => Bought(log', m)
    BY <1>5 DEF Bought, DataKinds
  <2>. QED BY <1>1, <1>4, <2>1, BuysGrow
<1>12. DiskFrom'
  BY <1>1, <1>2, <1>4, <1>5, DiskFromStays
<1>13. CacheFrom'
  <2>1. \A i \in 1 .. Len(log) : Counts(log, txn, i) => Counts(log', txn, i)
    BY <1>4, <1>8 DEF Counts
  <2>2. ASSUME NEW p \in DOMAIN cache PROVE From(log', txn, cache[p].rows, p)
    BY <1>1, <1>4, <2>1, <2>2, FromGrows DEF CacheFrom
  <2>. QED BY <1>2, <2>2 DEF CacheFrom
<1>14. TodoFrom'
  BY <1>2 DEF TodoFrom
<1>15. Pairs'
  <2>1. ASSUME NEW j \in 1 .. Len(log'), log'[j].kind \in DataKinds, Done(log', j)
        PROVE  Paired(log', j)
    <3>1. j \in 1 .. Len(log)
      BY <1>4, <1>5, <2>1
    <3>2. Paired(log, j)
      BY <1>1, <1>2, <1>4, <1>8, <2>1, <3>1 DEF Pairs
    <3>. QED BY <1>4, <3>1, <3>2 DEF Paired, Tab
  <2>. QED BY <1>5, <2>1 DEF Pairs
<1>16. /\ MetaRight(log', mt_file.live_rows)
       /\ Num(log', NoTxn) = Num(log, txn) /\ Num(log', txn) = Num(log', NoTxn)
  BY <1>2, <1>3, CommitMeta
<1>17. MetaCuts'
  <2>1. ASSUME NEW lg \in Seq(Record), Grown(lg, log'), durable' <= Len(lg)
        PROVE  MetaRight(lg, mt_file'.live_rows)
    <3>1. Len(lg) \in Nat /\ Len(lg) <= Len(log')
      BY <2>1, LenProperties DEF Grown
    <3>2. CASE Len(lg) <= Len(log)
      <4>1. Grown(lg, log)
        BY <1>4, <2>1, <3>2, OneOfTwo
      <4>. QED BY <1>1, <1>2, <2>1, <4>1 DEF MetaCuts
    <3>3. CASE Len(lg) > Len(log)
      <4>1. lg = log'
        BY <1>4, <2>1, <3>1, <3>3, WholeLog
      <4>. QED BY <1>2, <1>16, <4>1
    <3>. QED BY <1>4, <3>1, <3>2, <3>3
  <2>. QED BY <2>1 DEF MetaCuts
<1>18. MetaNow'
  <2>1. Fine(log') => mt.live_rows = Num(log', txn)
    <3>1. Fine(log') => Fine(log)
      BY <1>4, GrownFine
    <3>. QED BY <1>1, <1>5, <1>16, <3>1 DEF MetaNow
  <2>2. ASSUME NEW n \in 1 .. Len(log'), Tab(log', n), log'[n].txn = txn,
               \A m \in 1 .. Len(log') : Tab(log', m) /\ log'[m].txn = txn => m <= n
        PROVE  log'[n].after.live_rows = mt.live_rows
    <3>1. n \in 1 .. Len(log) /\ log'[n] = log[n]
      BY <1>3, <1>4, <2>2 DEF Tab
    <3>2. \A m \in 1 .. Len(log) : Tab(log, m) /\ log[m].txn = txn => m <= n
      BY <1>4, <2>2 DEF Tab
    <3>. QED BY <1>1, <1>5, <2>2, <3>1, <3>2 DEF MetaNow, Tab
  <2>. QED BY <1>2, <1>5, <2>1, <2>2 DEF MetaNow
<1>. QED BY <1>6, <1>9, <1>10, <1>11, <1>12, <1>13, <1>14, <1>15, <1>17, <1>18 DEF LiveCore, Origins

(* Steps of a running instance that leave log and metadata alone: what is    *)
(* about the log.                                                            *)
LEMMA SameLive ==
  ASSUME TypeInv, TypeInv', UndoInv', LiveCore, phase \in Normal, phase' \in Normal, log' = log,
         mt_file' = mt_file, durable <= durable', phase' \notin {"update", "delete"}, todo' = {},
         phase' \in InStatement => phase' = phase /\ txn' = txn
  PROVE  /\ OpenLast' /\ TabRolled' /\ TabWalked' /\ MetaFile' /\ MetaCuts' /\ Pairs'
         /\ Buys(log') /\ TodoFrom'
<1>1. TabRolled /\ Pairs /\ MetaCuts /\ Buys(log)
  BY DEF LiveCore, Origins
<1>2. Grown(log, log') /\ \A m \in 1 .. Len(log') : m > Len(log) => log'[m].kind # "clr"
  <2>1. \A m \in 1 .. Len(log') : ~(m > Len(log))
    BY LogBasics
  <2>. QED BY <2>1, GrownSelf
<1>3. OpenLast' /\ TabRolled' /\ TabWalked' /\ MetaFile'
  BY <1>1, <1>2, NormalLive
<1>4. MetaCuts'
  <2>1. durable \in Nat /\ durable' \in Nat
    BY LogBasics DEF TypeInv, TypeOK
  <2>2. \A lg \in Seq(Record) : durable' <= Len(lg) => durable <= Len(lg)
    BY <2>1, LenProperties
  <2>. QED BY <1>1, <2>2 DEF MetaCuts
<1>5. Pairs'
  BY <1>1 DEF Pairs
<1>. QED BY <1>1, <1>3, <1>4, <1>5 DEF TodoFrom

(* wait_for_durable returns.                                                 *)
LEMMA WaitLive ==
  ASSUME TypeInv, TypeInv', UndoInv, UndoInv', TableInv, LiveCore, WaitForDurable
  PROVE  LiveCore'
<1>1. /\ Sole /\ Closed /\ CacheFrom /\ DiskFrom /\ MetaNow /\ Ends
  BY DEF LiveCore, Origins, TableInv
<1>2. /\ phase = "waiting" /\ phase' = "flushing" /\ durable' = Len(log) /\ todo' = {}
      /\ UNCHANGED <<log, disk, mt_file, mt, cache, txn>>
  BY DEF WaitForDurable, memory, statement, TypeInv, StmtInv
<1>3. /\ phase \in Normal /\ phase' \in Normal /\ phase \in Running /\ phase' \notin Running
      /\ phase' \notin InStatement /\ phase' \notin {"update", "delete"}
      /\ Len(log) \in Nat /\ durable \in Nat /\ durable <= Len(log) /\ durable <= durable'
  BY <1>2, LogBasics DEF Normal, Running, InStatement
<1>4. /\ OpenLast' /\ TabRolled' /\ TabWalked' /\ MetaFile' /\ MetaCuts' /\ Pairs'
      /\ Buys(log') /\ TodoFrom'
  BY <1>2, <1>3, SameLive
<1>5. Sole'
  BY <1>2, <1>3 DEF Sole
<1>6. Closed'
  <2>1. ASSUME NEW j \in 1 .. Len(log) PROVE Finished(log, j)
    <3>1. CASE j > durable
      <4>1. log[j].txn = txn
        BY <1>1, <1>3, <3>1 DEF Sole
      <4>. QED BY <1>1, <1>2, <4>1 DEF Ends, Finished, Done
    <3>2. CASE j <= durable
      BY <1>1, <1>3, <3>2 DEF Closed
    <3>. QED BY <1>3, <3>1, <3>2
  <2>. QED BY <1>2, <2>1 DEF Closed
<1>7. DiskFrom'
  BY <1>1, <1>2, <1>3, GrownSelf, DiskFromStays
<1>8. CacheFrom' /\ MetaNow'
  BY <1>1, <1>2, <1>3 DEF CacheFrom, MetaNow
<1>. QED BY <1>4, <1>5, <1>6, <1>7, <1>8 DEF LiveCore, Origins

(* A page goes to its file.                                                  *)
LEMMA FlushLive ==
  ASSUME TypeInv, TypeInv', LsnInv, UndoInv, UndoInv', TableInv, LiveCore, NEW p \in Pages, FlushDirty(p)
  PROVE  LiveCore'
<1>1. /\ Sole /\ Closed /\ CacheFrom /\ DiskFrom /\ MetaNow /\ Ends
  BY DEF LiveCore, Origins, TableInv
<1>2. /\ phase = "flushing" /\ phase' = phase /\ p \in dirty /\ disk' = write_page(p, cache[p])
      /\ UNCHANGED <<log, durable, mt_file, mt, cache, txn>> /\ todo' = {}
  BY DEF FlushDirty, Flushable, statement, TypeInv, StmtInv
<1>3. /\ phase \in Normal /\ phase' \in Normal /\ phase' \notin Running
      /\ phase' \notin InStatement /\ phase' \notin {"update", "delete"}
      /\ durable = Len(log) /\ Len(log) \in Nat /\ durable <= durable'
  BY <1>1, <1>2, LogBasics DEF Normal, Running, InStatement, Sole
<1>4. /\ OpenLast' /\ TabRolled' /\ TabWalked' /\ MetaFile' /\ MetaCuts' /\ Pairs'
      /\ Buys(log') /\ TodoFrom'
  BY <1>2, <1>3, SameLive
<1>5. p \in DOMAIN cache /\ cache[p] \in Page /\ PageMap(disk)
  BY <1>2 DEF TypeInv, TypeOK, PageMap
<1>6. /\ DOMAIN disk' = DOMAIN disk \union {p} /\ disk'[p].rows = cache[p].rows
      /\ \A q \in DOMAIN disk \ {p} : disk'[q] = disk[q]
  BY <1>2, <1>5, WritePageWrites DEF Writes
<1>7. DiskFrom'
  <2>1. ASSUME NEW q \in DOMAIN disk', NEW d, Has(disk'[q].rows, d)
        PROVE  \E i, k \in 1 .. durable : /\ MadeOn(log, i, q) /\ log[i].after.id = d
                                          /\ log[k].kind = "commit" /\ log[k].txn = log[i].txn
    <3>1. CASE q = p
      <4>1. PICK i \in 1 .. Len(log) : /\ MadeOn(log, i, p) /\ log[i].after.id = d
                                       /\ Counts(log, txn, i)
        BY <1>1, <1>5, <1>6, <2>1, <3>1 DEF CacheFrom, From
      <4>2. Ended(log, log[i].txn, "commit")
        BY <1>1, <1>2, <4>1 DEF Counts, Done, Ends
      <4>. QED BY <1>3, <3>1, <4>1, <4>2 DEF Ended
    <3>2. CASE q # p
      BY <1>1, <1>6, <2>1, <3>2 DEF DiskFrom
    <3>. QED BY <3>1, <3>2
  <2>. QED BY <1>2, <2>1 DEF DiskFrom
<1>8. Sole' /\ Closed' /\ CacheFrom' /\ MetaNow'
  BY <1>1, <1>2, <1>3 DEF Sole, Closed, CacheFrom, MetaNow
<1>. QED BY <1>4, <1>7, <1>8 DEF LiveCore, Origins

(* commit returns, or a clean page is evicted.                               *)
LEMMA ReturnLive ==
  ASSUME TypeInv, TypeInv', UndoInv, UndoInv', TableInv, LiveCore, Evictions # "any",
         CommitDone \/ \E p \in Pages : Evict(p)
  PROVE  LiveCore'
<1>1. /\ Sole /\ Closed /\ CacheFrom /\ DiskFrom /\ MetaNow /\ Ends
  BY DEF LiveCore, Origins, TableInv
<1>2. /\ phase \in {"idle", "flushing"} /\ phase' = "idle" /\ txn' = NoTxn
      /\ UNCHANGED <<log, durable, disk, mt_file, mt>> /\ todo' = {}
      /\ phase = "idle" => txn = NoTxn
      /\ \A p \in DOMAIN cache' : p \in DOMAIN cache /\ cache'[p] = cache[p]
  <2>1. phase = "idle" => txn = NoTxn
    BY <1>1 DEF Ends
  <2>2. CASE CommitDone
    BY <2>1, <2>2 DEF CommitDone, files, memory, TypeInv, StmtInv
  <2>3. ASSUME NEW p \in Pages, Evict(p)
        PROVE  /\ phase \in {"idle", "flushing"} /\ phase' = "idle" /\ txn' = NoTxn
               /\ UNCHANGED <<log, durable, disk, mt_file, mt>> /\ todo' = {}
               /\ \A q \in DOMAIN cache' : q \in DOMAIN cache /\ cache'[q] = cache[q]
    BY <2>1, <2>3 DEF Evict, statement, TypeInv, StmtInv
  <2>. QED BY <2>1, <2>2, <2>3
<1>3. /\ phase \in Normal /\ phase' \in Normal /\ phase' \notin Running
      /\ phase' \notin InStatement /\ phase' \notin {"update", "delete"}
      /\ durable = Len(log) /\ Len(log) \in Nat /\ durable <= durable'
  BY <1>1, <1>2, LogBasics DEF Normal, Running, InStatement, Sole
<1>4. /\ OpenLast' /\ TabRolled' /\ TabWalked' /\ MetaFile' /\ MetaCuts' /\ Pairs'
      /\ Buys(log') /\ TodoFrom'
  BY <1>2, <1>3, SameLive
<1>5. DiskFrom'
  BY <1>1, <1>2 DEF DiskFrom
<1>6. /\ \A i \in 1 .. Len(log) : log[i].txn # NoTxn
      /\ \A i \in 1 .. Len(log) : log[i].txn = txn => Done(log, i)
  BY <1>1, <1>2, LogBasics DEF Ends, Done
<1>7. CacheFrom'
  <2>1. \A i \in 1 .. Len(log) : Counts(log, txn, i) => Counts(log, NoTxn, i)
    BY <1>6 DEF Counts
  <2>2. ASSUME NEW p \in DOMAIN cache' PROVE From(log, NoTxn, cache'[p].rows, p)
    <3>1. From(log, txn, cache[p].rows, p) /\ cache'[p] = cache[p]
      BY <1>1, <1>2, <2>2 DEF CacheFrom
    <3>. QED BY <2>1, <3>1 DEF From
  <2>. QED BY <1>2, <2>2 DEF CacheFrom
<1>8. MetaNow'
  <2>1. Kept(log, txn) = Kept(log, NoTxn)
    BY <1>6, KeptOwn
  <2>2. Num(log, txn) = Num(log, NoTxn)
    BY <2>1 DEF Num
  <2>. QED BY <1>1, <1>2, <1>3, <2>2 DEF MetaNow
<1>9. Sole' /\ Closed'
  BY <1>1, <1>2, <1>3 DEF Sole, Closed
<1>. QED BY <1>4, <1>5, <1>7, <1>8, <1>9 DEF LiveCore, Origins

-----------------------------------------------------------------------------
(* Crashes                                                                 *)

(* No record of the metadata to redo: no row.                                *)
LEMMA NothingDue ==
  ASSUME TypeInv, Pairs, \A n \in 1 .. Len(log) : ~DueTab(log, n)
  PROVE  Num(log, NoTxn) = 0
<1>1. ASSUME NEW m \in Kept(log, NoTxn) PROVE FALSE
  <2>1. m \in 1 .. Len(log) /\ Makes(log, m) /\ Counts(log, NoTxn, m)
    BY DEF Kept
  <2>2. Done(log, m) /\ log[m].kind \in DataKinds
    BY <2>1, LogBasics DEF Counts, Makes, DataKinds
  <2>3. m + 1 \in 1 .. Len(log) /\ Tab(log, m + 1) /\ log[m + 1].txn = log[m].txn
    BY <2>1, <2>2 DEF Pairs, Paired
  <2>4. DueTab(log, m + 1)
    BY <2>2, <2>3 DEF DueTab, Done
  <2>. QED BY <2>3, <2>4
<1>2. Kept(log, NoTxn) = {}
  BY <1>1
<1>3. Cardinality(Kept(log, NoTxn)) = 0
  BY <1>2, FS_EmptySet
<1>4. Counter \in Nat \ {0}
  BY ConstantsAssumption
<1>5. 0 % Counter = 0
  <2>1. 0 \in 0 .. Counter - 1 /\ 0 = Counter * 0 + 0
    BY <1>4
  <2>. QED BY <1>4, <2>1, ModIs
<1>. QED BY <1>3, <1>5 DEF Num

(* Without memory, and with the whole log in its files.                      *)
LEMMA NoMemoryLive ==
  ASSUME TypeInv', LsnInv', phase' \in Recovery \union {"down"},
         MetaRight(log', mt_file'.live_rows)
  PROVE  Sole' /\ Closed' /\ CacheFrom' /\ TodoFrom' /\ MetaCuts' /\ MetaNow'
<1>1. DOMAIN cache' = {} /\ durable' = Len(log') /\ phase' \notin Normal
  BY NoMemory
<1>2. /\ phase' \notin {"idle", "flushing", "update", "delete"} /\ phase' \notin Running
      /\ todo' = {} /\ log' \in Seq(Record)
  BY DEF Recovery, Running, InStatement, TypeInv, TypeOK, StmtInv
<1>3. MetaCuts'
  <2>1. ASSUME NEW lg \in Seq(Record), Grown(lg, log'), durable' <= Len(lg)
        PROVE  MetaRight(lg, mt_file'.live_rows)
    <3>1. lg = log'
      BY <1>1, <1>2, <2>1, WholeLog
    <3>. QED BY <3>1
  <2>. QED BY <2>1 DEF MetaCuts
<1>. QED BY <1>1, <1>2, <1>3 DEF Sole, Closed, CacheFrom, TodoFrom, MetaNow

(* What a crash leaves of the log.                                           *)
LEMMA DieLog ==
  ASSUME TypeInv, TypeInv', LsnInv, UndoInv, TableInv, LiveCore, phase # "down",
         NEW k \in durable .. Len(log), log' = SubSeq(log, 1, k), phase' = "down", active' = {}
  PROVE  OpenLast' /\ Buys(log') /\ Pairs' /\ TabRolled'
<1>1. /\ Sole /\ Closed /\ OpenLast /\ Buys(log) /\ Pairs /\ TabRolled /\ Ends
  BY DEF LiveCore, Origins, TableInv
<1>2. /\ log \in Seq(Record) /\ Len(log) \in Nat /\ durable \in Nat /\ durable <= Len(log)
      /\ k \in Nat /\ k <= Len(log) /\ durable <= k
  BY LogBasics
<1>3. /\ log' \in Seq(Record) /\ Len(log') = k
      /\ \A i \in 1 .. Len(log') : log'[i] = log[i] /\ i \in 1 .. Len(log)
      /\ Grown(log', log)
  <2>1. Len(log') = k /\ \A i \in 1 .. k : log'[i] = log[i]
    BY <1>2, SubSeqProperties
  <2>2. log' \in Seq(Record)
    BY DEF TypeInv, TypeOK
  <2>. QED BY <1>2, <2>1, <2>2 DEF Grown
<1>4. phase' \notin Normal /\ phase' \notin InStatement
  BY DEF Normal, InStatement
<1>5. \A i \in 1 .. Len(log') : Done(log', i) => Done(log, i)
  BY <1>3 DEF Done, Ended
<1>6. OpenLast'
  <2>1. ASSUME NEW i \in 1 .. Len(log'), NEW j \in 1 .. Len(log'), i < j, ~Finished(log', i)
        PROVE  log'[j].txn = log'[i].txn
    <3>1. i \in 1 .. Len(log) /\ j \in 1 .. Len(log) /\ log'[i] = log[i] /\ log'[j] = log[j]
      BY <1>3
    <3>2. CASE phase \notin Normal
      <4>1. k = Len(log)
        <5>1. phase \in {"redo", "undo", "undo_apply"}
          BY <3>2 DEF Normal, InStatement, TypeInv, TypeOK, Phases
        <5>. QED BY <1>2, <5>1 DEF LsnInv
      <4>2. log' = log
        BY <1>2, <1>3, <4>1, WholeLog
      <4>3. ~Finished(log, i)
        BY <2>1, <4>2
      <4>4. log[j].txn = log[i].txn
        BY ONLY <1>1, <2>1, <3>1, <3>2, <4>3 DEF OpenLast
      <4>. QED BY ONLY <3>1, <4>4
    <3>3. CASE phase \in Normal
      <4>1. i > durable
        <5>1. SUFFICES ASSUME i <= durable PROVE FALSE
          BY <1>2, <3>1
        <5>2. Finished(log, i)
          BY <1>1, <1>2, <3>1, <3>3, <5>1 DEF Closed
        <5>3. PICK e \in 1 .. Len(log) : log[e].kind \in {"commit", "rollback"} /\ log[e].txn = log[i].txn
          BY <5>2 DEF Finished, Done, Ended
        <5>4. e <= durable
          <6>1. CASE phase \in {"idle", "flushing"}
            BY <1>1, <1>2, <6>1 DEF Sole
          <6>2. CASE phase \in Running
            BY <1>1, <1>2, <3>1, <5>1, <5>3, <6>2 DEF Sole
          <6>. QED BY <3>3, <6>1, <6>2 DEF Normal, Running
        <5>5. e \in 1 .. Len(log') /\ log'[e] = log[e]
          BY <1>2, <1>3, <5>4
        <5>6. Finished(log', i)
          <6>1. CASE log[e].kind = "commit"
            BY <3>1, <5>3, <5>5, <6>1 DEF Finished, Done, Ended
          <6>2. CASE log[e].kind = "rollback"
            BY <3>1, <5>3, <5>5, <6>2 DEF Finished, Ended
          <6>. QED BY <5>3, <6>1, <6>2
        <5>. QED BY <2>1, <5>6
      <4>2. phase \in Running
        <5>1. phase \notin {"idle", "flushing"}
          BY <1>1, <1>2, <3>1, <4>1 DEF Sole
        <5>. QED BY <3>3, <5>1 DEF Normal, Running
      <4>3. j > durable
        BY <1>2, <2>1, <3>1, <4>1
      <4>. QED BY <1>1, <3>1, <4>1, <4>2, <4>3 DEF Sole
    <3>. QED BY <3>2, <3>3
  <2>. QED BY <2>1 DEF OpenLast
<1>7. Buys(log')
  BY <1>1, <1>2, <1>3, BuysCut
<1>8. Pairs'
  <2>1. ASSUME NEW j \in 1 .. Len(log'), log'[j].kind \in DataKinds, Done(log', j)
        PROVE  Paired(log', j)
    <3>1. j \in 1 .. Len(log) /\ log'[j] = log[j]
      BY <1>3
    <3>2. j + 1 \in 1 .. Len(log) /\ Tab(log, j + 1) /\ log[j + 1].txn = log[j].txn
      BY <1>1, <1>5, <2>1, <3>1 DEF Pairs, Paired
    <3>3. PICK e \in 1 .. Len(log') : log'[e].kind = "commit" /\ log'[e].txn = log'[j].txn
      BY <2>1 DEF Done, Ended
    <3>4. e \in 1 .. Len(log) /\ log[e].kind = "commit" /\ log[e].txn = log[j].txn
      BY <1>3, <3>1, <3>3
    <3>5. ~(e < j)
      <4>1. SUFFICES ASSUME e < j PROVE FALSE
        OBVIOUS
      <4>2. Follows(log, e, j)
        BY <3>1, <3>4, <4>1 DEF UndoInv, LogInv
      <4>. QED BY <3>4, <4>2 DEF Follows
    <3>6. e # j /\ e # j + 1
      BY <2>1, <3>1, <3>2, <3>4 DEF Tab, DataKinds
    <3>7. j + 1 \in 1 .. Len(log') /\ log'[j + 1] = log[j + 1]
      <4>1. j + 1 < e
        BY <3>1, <3>4, <3>5, <3>6
      <4>2. j + 1 \in 1 .. Len(log')
        BY <1>2, <1>3, <3>1, <3>3, <4>1
      <4>. QED BY <1>3, <4>2
    <3>. QED BY <3>1, <3>2, <3>7 DEF Paired, Tab
  <2>. QED BY <1>4, <2>1 DEF Pairs
<1>9. TabRolled'
  <2>1. ASSUME NEW c \in 1 .. Len(log'), NEW i \in 1 .. Len(log'), log'[c].kind = "clr",
               log'[i].txn = log'[c].txn, i > log'[c].undo_next, Tab(log', i)
        PROVE  TabUndone(log', i)
    <3>1. TabUndone(log, i)
      BY <1>1, <1>3, <2>1 DEF TabRolled, Tab
    <3>2. PICK e \in 1 .. Len(log) : log[e].kind = "clr" /\ log[e].of = i
      BY <3>1 DEF TabUndone
    <3>3. e <= durable
      BY <1>1, <3>2 DEF Ends
    <3>4. e \in 1 .. Len(log')
      BY <1>2, <1>3, <3>2, <3>3
    <3>. QED BY <1>3, <3>2, <3>4 DEF TabUndone
  <2>. QED BY <2>1 DEF TabRolled
<1>. QED BY <1>6, <1>7, <1>8, <1>9

(* The process dies; when it is closed, the metadata is written.             *)
LEMMA DieLive ==
  ASSUME TypeInv, TypeInv', LsnInv, LsnInv', UndoInv, TableInv, LiveCore, phase # "down",
         NEW k \in durable .. Len(log), Die(k),
         mt_file' = mt_file \/ (mt_file' = mt /\ phase = "idle")
  PROVE  LiveCore'
<1>1. /\ Sole /\ DiskFrom /\ Pairs /\ MetaCuts /\ MetaNow /\ Ends
  BY DEF LiveCore, Origins, TableInv
<1>2. /\ phase' = "down" /\ log' = SubSeq(log, 1, k) /\ durable' = k /\ active' = {} /\ disk' = disk
  BY DEF Die
<1>3. OpenLast' /\ Buys(log') /\ Pairs' /\ TabRolled'
  BY <1>2, DieLog
<1>4. TabWalked' /\ MetaFile'
  BY <1>2 DEF TabWalked, MetaFile
<1>5. /\ log \in Seq(Record) /\ Len(log) \in Nat /\ durable \in Nat /\ durable <= Len(log)
      /\ k \in Nat /\ k <= Len(log) /\ durable <= k
  BY LogBasics
<1>6. /\ log' \in Seq(Record) /\ Len(log') = k /\ Grown(log', log)
      /\ \A i \in 1 .. durable : log'[i] = log[i] /\ i \in 1 .. durable'
  <2>1. Len(log') = k /\ \A i \in 1 .. k : log'[i] = log[i]
    BY <1>2, <1>5, SubSeqProperties
  <2>2. log' \in Seq(Record)
    BY DEF TypeInv, TypeOK
  <2>. QED BY <1>2, <1>5, <2>1, <2>2 DEF Grown
<1>7. DiskFrom'
  <2>1. ASSUME NEW p \in DOMAIN disk', NEW d, Has(disk'[p].rows, d)
        PROVE  \E i, e \in 1 .. durable' : /\ MadeOn(log', i, p) /\ log'[i].after.id = d
                                           /\ log'[e].kind = "commit" /\ log'[e].txn = log'[i].txn
    <3>1. PICK i, e \in 1 .. durable : /\ MadeOn(log, i, p) /\ log[i].after.id = d
                                       /\ log[e].kind = "commit" /\ log[e].txn = log[i].txn
      BY <1>1, <1>2, <2>1 DEF DiskFrom
    <3>. QED BY <1>6, <3>1 DEF MadeOn, Makes
  <2>. QED BY <2>1 DEF DiskFrom
<1>8. MetaRight(log', mt_file.live_rows)
  BY <1>1, <1>5, <1>6 DEF MetaCuts
<1>9. MetaRight(log', mt_file'.live_rows)
  <2>1. CASE mt_file' = mt_file
    BY <1>8, <2>1
  <2>2. CASE mt_file' = mt /\ phase = "idle"
    <3>1. durable = Len(log) /\ txn = NoTxn /\ phase \in Normal
      BY <1>1, <2>2 DEF Sole, Ends, Normal
    <3>2. log' = log
      BY <1>5, <1>6, <3>1, WholeLog
    <3>3. ASSUME Fine(log), \A n \in 1 .. Len(log) : ~DueTab(log, n) PROVE mt.live_rows = 0
      <4>1. mt.live_rows = Num(log, NoTxn)
        BY <1>1, <3>1, <3>3 DEF MetaNow
      <4>2. Num(log, NoTxn) = 0
        BY <1>1, <3>3, NothingDue
      <4>. QED BY <4>1, <4>2
    <3>4. MetaRight(log, mt.live_rows)
      <4>1. MetaRight(log, mt_file.live_rows)
        BY <1>8, <3>2
      <4>. QED BY <3>3, <4>1 DEF MetaRight
    <3>. QED BY <2>2, <3>2, <3>4
  <2>. QED BY <2>1, <2>2
<1>10. Sole' /\ Closed' /\ CacheFrom' /\ TodoFrom' /\ MetaCuts' /\ MetaNow'
  BY <1>2, <1>9, NoMemoryLive
<1>. QED BY <1>3, <1>4, <1>7, <1>10 DEF LiveCore, Origins

-----------------------------------------------------------------------------
(* Recovery                                                                *)

(* Steps of the recovery that log nothing.                                   *)
LEMMA QuietLive ==
  ASSUME TypeInv, TypeInv', LsnInv, LsnInv', LiveCore, phase \in Recovery \union {"down"},
         phase' \in Recovery, UNCHANGED <<log, durable>>,
         active' = active \/ \A x \in active' : \E i \in 1 .. Len(log) : log[i].txn = x,
         mt_file' = mt_file \/ \E n \in 1 .. Len(log) : DueTab(log, n),
         DiskFrom', TabWalked', MetaFile'
  PROVE  LiveCore'
<1>1. /\ OpenLast /\ Buys(log) /\ Pairs /\ TabRolled /\ MetaCuts
  BY DEF LiveCore, Origins
<1>2. phase \notin Normal /\ phase' \notin Normal /\ phase' \notin InStatement
  BY DEF Recovery, Normal, InStatement
<1>3. OpenLast' /\ Pairs' /\ TabRolled'
  BY <1>1, <1>2 DEF OpenLast, Pairs, TabRolled
<1>4. MetaRight(log, mt_file.live_rows)
  BY <1>1, GrownSelf DEF MetaCuts
<1>5. MetaRight(log', mt_file'.live_rows)
  BY <1>4 DEF MetaRight
<1>6. Sole' /\ Closed' /\ CacheFrom' /\ TodoFrom' /\ MetaCuts' /\ MetaNow'
  BY <1>5, NoMemoryLive
<1>. QED BY <1>1, <1>3, <1>6 DEF LiveCore, Origins

(* The next start.                                                           *)
LEMMA StartLive ==
  ASSUME TypeInv, TypeInv', LsnInv, LsnInv', UndoInv, TableInv, LiveCore, Start
  PROVE  LiveCore'
<1>1. DiskFrom /\ Ends
  BY DEF LiveCore, Origins, TableInv
<1>2. /\ phase = "down" /\ phase' = "redo" /\ UNCHANGED <<log, durable, disk, mt_file, active, redone>>
      /\ redone = 0
  BY <1>1 DEF Start, files, recovery, Ends
<1>3. DiskFrom' /\ TabWalked' /\ MetaFile'
  BY <1>1, <1>2 DEF DiskFrom, TabWalked, MetaFile, FileShows, LastDue
<1>. QED BY <1>2, <1>3, QuietLive DEF Recovery

(* What redo does to the metadata.                                           *)
LEMMA RedoMeta ==
  ASSUME TypeInv, Redo
  PROVE  LET n == redone + 1
         IN  IF DueTab(log, n) THEN mt_file' = ImageOf(log, n) ELSE mt_file' = mt_file
<1> DEFINE n == redone + 1
<1>1. RedoRecord(n) /\ n \in 1 .. Len(log)
  BY RedoShape DEF Redo
<1>2. \A x : Marked(x, "commit") <=> Ended(log, x, "commit")
  BY MarkedIs
<1>3. PICK r : r = log[n]
  OBVIOUS
<1>. HIDE DEF n
<1>10. IF DueTab(log, n) THEN mt_file' = ImageOf(log, n) ELSE mt_file' = mt_file
  <2>4. CASE r.kind = "clr" /\ log[r.of].kind \in DataKinds /\ mt_file' = mt_file
    BY <1>3, <2>4 DEF DueTab, Tab, DataKinds
  <2>5. CASE r.kind = "clr" /\ log[r.of].kind = "update_table" /\ mt_file' = log[r.of].before
    BY <1>3, <2>5 DEF DueTab, Tab, ImageOf
  <2>6. CASE r.kind \in DataKinds /\ mt_file' = mt_file
    BY <1>3, <2>6 DEF DueTab, Tab, DataKinds
  <2>7. CASE r.kind = "update_table" /\ Marked(r.txn, "commit") /\ mt_file' = r.after
    BY <1>2, <1>3, <2>7 DEF DueTab, Tab, ImageOf, Done
  <2>8. CASE /\ r.kind # "clr" /\ mt_file' = mt_file
             /\ r.kind \in {"begin", "commit", "rollback"} \/ ~Marked(r.txn, "commit")
    BY <1>2, <1>3, <2>8 DEF DueTab, Tab, Done
  <2>9. \/ r.kind = "clr" /\ log[r.of].kind \in DataKinds /\ mt_file' = mt_file
        \/ r.kind = "clr" /\ log[r.of].kind = "update_table" /\ mt_file' = log[r.of].before
        \/ r.kind \in DataKinds /\ mt_file' = mt_file
        \/ r.kind = "update_table" /\ Marked(r.txn, "commit") /\ mt_file' = r.after
        \/ /\ r.kind # "clr" /\ mt_file' = mt_file
           /\ r.kind \in {"begin", "commit", "rollback"} \/ ~Marked(r.txn, "commit")
    BY <1>1, <1>3 DEF RedoRecord, RedoData
  <2>. QED BY <2>4, <2>5, <2>6, <2>7, <2>8, <2>9
<1>. QED BY <1>10 DEF n

(* Pages that REDO or UNDO writes hold rows of committed transactions.       *)
LEMMA RecoveredFrom ==
  ASSUME TypeInv, LsnInv, DiskFrom, phase \in Recovery, UNCHANGED <<log, durable>>,
         NEW p \in Pages, NEW n, NEW rows, Writes(n, p, rows), NEW j \in 1 .. Len(log), RowRec(log, j, p),
         \/ rows = UndoRows(log[j], OldRows(p))
         \/ rows = RedoRows(log[j], OldRows(p)) /\ Done(log, j)
  PROVE  DiskFrom'
<1>1. durable = Len(log) /\ Len(log) \in Nat /\ log \in Seq(Record)
  BY LogBasics DEF LsnInv, Recovery
<1>2. log[j] \in Record /\ log[j].kind \in DataKinds
  BY <1>1, ElementOfSeq DEF RowRec
<1>3. /\ OldRows(p) \in Seq(Row)
      /\ p \in DOMAIN disk => OldRows(p) = disk[p].rows
      /\ p \notin DOMAIN disk => OldRows(p) = <<>>
  BY OldPage
<1>4. ASSUME NEW d, Has(OldRows(p), d)
      PROVE  \E i, k \in 1 .. durable : /\ MadeOn(log, i, p) /\ log[i].after.id = d
                                        /\ log[k].kind = "commit" /\ log[k].txn = log[i].txn
  <2>1. CASE p \in DOMAIN disk
    BY <1>3, <1>4, <2>1 DEF DiskFrom
  <2>2. CASE p \notin DOMAIN disk
    BY <1>3, <1>4, <2>2 DEF Has
  <2>. QED BY <2>1, <2>2
<1>5. ASSUME NEW d, Has(rows, d)
      PROVE  \E i, k \in 1 .. durable : /\ MadeOn(log, i, p) /\ log[i].after.id = d
                                        /\ log[k].kind = "commit" /\ log[k].txn = log[i].txn
  <2>1. PICK m \in 1 .. Len(rows) : rows[m].id = d
    BY <1>5 DEF Has
  <2>2. CASE rows = UndoRows(log[j], OldRows(p))
    <3>1. \A q \in 1 .. Len(UndoRows(log[j], OldRows(p))) :
            q \in 1 .. Len(OldRows(p)) /\ UndoRows(log[j], OldRows(p))[q].id = OldRows(p)[q].id
      BY <1>2, <1>3, RecoveredIds
    <3>2. m \in 1 .. Len(OldRows(p)) /\ OldRows(p)[m].id = d
      BY <2>1, <2>2, <3>1
    <3>3. Has(OldRows(p), d)
      BY <3>2 DEF Has
    <3>. QED BY <1>4, <3>3
  <2>3. CASE rows = RedoRows(log[j], OldRows(p)) /\ Done(log, j)
    <3>1. \A q \in 1 .. Len(RedoRows(log[j], OldRows(p))) :
            \/ q \in 1 .. Len(OldRows(p)) /\ RedoRows(log[j], OldRows(p))[q].id = OldRows(p)[q].id
            \/ log[j].kind # "delete" /\ RedoRows(log[j], OldRows(p))[q].id = log[j].after.id
      BY <1>2, <1>3, RecoveredIds
    <3>2. \/ m \in 1 .. Len(OldRows(p)) /\ OldRows(p)[m].id = d
          \/ log[j].kind # "delete" /\ d = log[j].after.id
      BY <2>1, <2>3, <3>1
    <3>3. CASE m \in 1 .. Len(OldRows(p)) /\ OldRows(p)[m].id = d
      <4>1. Has(OldRows(p), d)
        BY <3>3 DEF Has
      <4>. QED BY <1>4, <4>1
    <3>4. CASE log[j].kind # "delete" /\ d = log[j].after.id
      <4>1. MadeOn(log, j, p)
        BY <1>2, <3>4 DEF MadeOn, Makes, RowRec, DataKinds
      <4>2. PICK k \in 1 .. Len(log) : log[k].kind = "commit" /\ log[k].txn = log[j].txn
        BY <2>3 DEF Done, Ended
      <4>. QED BY <1>1, <3>4, <4>1, <4>2
    <3>. QED BY <3>2, <3>3, <3>4
  <2>. QED BY <2>2, <2>3
<1>6. ASSUME NEW q \in DOMAIN disk', NEW d, Has(disk'[q].rows, d)
      PROVE  \E i, k \in 1 .. durable : /\ MadeOn(log, i, q) /\ log[i].after.id = d
                                        /\ log[k].kind = "commit" /\ log[k].txn = log[i].txn
  <2>1. CASE q = p
    BY <1>5, <1>6, <2>1 DEF Writes
  <2>2. CASE q # p
    <3>1. q \in DOMAIN disk /\ disk'[q] = disk[q]
      BY <1>6, <2>2 DEF Writes
    <3>. QED BY <1>6, <3>1 DEF DiskFrom
  <2>. QED BY <2>1, <2>2
<1>. QED BY <1>6 DEF DiskFrom

(* redo of one record.                                                       *)
LEMMA RedoLive ==
  ASSUME TypeInv, TypeInv', LsnInv, LsnInv', UndoInv, TableInv, LiveCore, Redo
  PROVE  LiveCore'
<1>1. DiskFrom /\ MetaFile
  BY DEF LiveCore, Origins
<1>2. PICK n : n = redone + 1
  OBVIOUS
<1>3. /\ n \in 1 .. Len(log) /\ phase = "redo" /\ redone' = n
      /\ UNCHANGED <<phase, log, durable, txn, active, current>>
      /\ (\E p \in Pages : Redoes(n, p)) \/ disk' = disk
  BY <1>2, RedoShape
<1>4. IF DueTab(log, n) THEN mt_file' = ImageOf(log, n) ELSE mt_file' = mt_file
  BY <1>2, RedoMeta
<1>5. DiskFrom'
  <2>1. CASE disk' = disk
    BY <1>1, <1>3, <2>1 DEF DiskFrom
  <2>2. ASSUME NEW p \in Pages, Redoes(n, p) PROVE DiskFrom'
    <3>1. CASE RowRec(log, n, p) /\ Done(log, n) /\ Writes(n, p, RedoRows(log[n], OldRows(p)))
      BY <1>1, <1>3, <3>1, RecoveredFrom DEF Recovery
    <3>2. CASE Comp(log, n, p) /\ Writes(n, p, UndoRows(log[log[n].of], OldRows(p)))
      <4>1. log[n].of \in 1 .. Len(log) /\ RowRec(log, log[n].of, p)
        <5>1. Len(log) \in Nat /\ LinksBack(log, n) /\ log[n].kind = "clr" /\ RowRec(log, log[n].of, p)
          BY <1>3, <3>2, LogBasics DEF Comp
        <5>2. log[n].of \in 1 .. n - 1
          BY <5>1 DEF LinksBack
        <5>. QED BY <1>3, <5>1, <5>2
      <4>. QED BY <1>1, <1>3, <3>2, <4>1, RecoveredFrom DEF Recovery
    <3>. QED BY <2>2, <3>1, <3>2 DEF Redoes
  <2>. QED BY <1>3, <2>1, <2>2
<1>6. MetaFile'
  <2>1. ASSUME NEW d \in 1 .. Len(log), LastDue(log, n, d) PROVE mt_file' = ImageOf(log, d)
    <3>0. n \in Nat /\ redone \in Nat /\ redone = n - 1 /\ Len(log) \in Nat
      BY <1>2, <1>3, LogBasics DEF TypeInv, TypeOK
    <3>1. CASE DueTab(log, n)
      <4>1. n \in 1 .. n /\ n <= d /\ d \in 1 .. n
        BY <1>3, <2>1, <3>0, <3>1 DEF LastDue
      <4>2. d = n
        BY <3>0, <4>1
      <4>. QED BY <1>4, <3>1, <4>2
    <3>2. CASE ~DueTab(log, n)
      <4>1. d # n /\ DueTab(log, d) /\ d \in 1 .. n
        BY <2>1, <3>2 DEF LastDue
      <4>2. d \in 1 .. redone
        BY <3>0, <4>1
      <4>3. \A e \in 1 .. redone : e \in 1 .. n
        BY <3>0
      <4>4. LastDue(log, redone, d)
        BY <2>1, <4>1, <4>2, <4>3 DEF LastDue
      <4>. QED BY <1>1, <1>3, <1>4, <3>2, <4>4 DEF MetaFile, FileShows
    <3>. QED BY <3>1, <3>2
  <2>. QED BY <1>3, <2>1 DEF MetaFile, FileShows
<1>7. TabWalked'
  BY <1>3 DEF TabWalked
<1>8. mt_file' = mt_file \/ \E m \in 1 .. Len(log) : DueTab(log, m)
  BY <1>3, <1>4
<1>. QED BY <1>3, <1>5, <1>6, <1>7, <1>8, QuietLive DEF Recovery

(* REDO is through.                                                          *)
LEMMA EndRedoLive ==
  ASSUME TypeInv, TypeInv', LsnInv, LsnInv', UndoInv, TableInv, LiveCore, EndRedo
  PROVE  LiveCore'
<1>1. DiskFrom /\ MetaFile
  BY DEF LiveCore, Origins
<1>2. /\ phase = "redo" /\ redone = Len(log) /\ phase' = "undo"
      /\ \A x \in active' : \E i \in DOMAIN log : log[i].txn = x
      /\ UNCHANGED <<log, durable, disk, mt_file, txn, current>> /\ txn = NoTxn
  BY DEF EndRedo, files, statement, UndoInv, WalkInv
<1>3. \A x \in active' : \E i \in 1 .. Len(log) : log[i].txn = x
  BY <1>2, LogBasics
<1>4. DiskFrom' /\ TabWalked' /\ MetaFile'
  BY <1>1, <1>2 DEF DiskFrom, TabWalked, MetaFile, FileShows
<1>. QED BY <1>2, <1>3, <1>4, QuietLive DEF Recovery

(* undo() takes up a transaction.                                            *)
LEMMA UndoTxnLive ==
  ASSUME TypeInv, TypeInv', LsnInv, LsnInv', LiveCore, NEW x \in Txns, UndoTxn(x)
  PROVE  LiveCore'
<1>1. DiskFrom /\ MetaFile
  BY DEF LiveCore, Origins
<1>2. /\ phase = "undo" /\ phase' = "undo" /\ txn' = x /\ current' = LastLsn(x, log)
      /\ UNCHANGED <<log, durable, disk, mt_file, active>>
  BY DEF UndoTxn, files
<1>3. \A i \in 1 .. Len(log) : log[i].txn = x => i <= LastLsn(x, log)
  BY LogBasics, LastLsnIs
<1>4. LastLsn(x, log) \in Nat
  BY LogBasics, LastLsnIs
<1>5. \A i \in 1 .. Len(log) : ~(log[i].txn = x /\ i > LastLsn(x, log))
  BY <1>3, <1>4
<1>6. TabWalked'
  BY <1>2, <1>5 DEF TabWalked
<1>7. DiskFrom' /\ MetaFile'
  BY <1>1, <1>2 DEF DiskFrom, MetaFile, FileShows
<1>. QED BY <1>2, <1>6, <1>7, QuietLive DEF Recovery

(* undo() misses no metadata record between a record and the one before it.  *)
LEMMA TabPassed ==
  ASSUME TypeInv, UndoInv, TabWalked, phase \in {"undo", "undo_apply"}, current # 0,
         log[current].kind # "clr"
  PROVE  /\ current \in 1 .. Len(log) /\ txn # NoTxn /\ log[current].txn = txn
         /\ log[current].prev \in Nat
         /\ \A i \in 1 .. Len(log) :
              log[i].txn = txn /\ i > log[current].prev /\ Tab(log, i) =>
                i = current \/ TabUndone(log, i)
<1>1. current \in 1 .. Len(log) /\ Len(log) \in Nat
  BY PageFields DEF TypeInv, TypeOK
<1>2. txn # NoTxn /\ log[current].txn = txn /\ log[current].kind # "rollback"
  BY <1>1 DEF UndoInv, WalkInv
<1>3. \A j \in 1 .. current - 1 : log[j].txn = txn => j <= log[current].prev
  BY <1>1, <1>2 DEF UndoInv, LogInv, Chained
<1>4. \A i \in 1 .. Len(log) : log[i].txn = txn /\ i > current /\ Tab(log, i) => TabUndone(log, i)
  BY <1>2 DEF TabWalked
<1>5. log[current].prev \in Nat
  <2>1. log[current] \in Record
    BY <1>1, ElementOfSeq DEF TypeInv, TypeOK
  <2>. QED BY <2>1, RecordFields
<1>6. ASSUME NEW i \in 1 .. Len(log), log[i].txn = txn, i > log[current].prev, Tab(log, i)
      PROVE  i = current \/ TabUndone(log, i)
  <2>1. CASE i < current
    <3>1. i \in 1 .. current - 1
      BY <1>1, <2>1
    <3>. QED BY <1>1, <1>3, <1>5, <1>6, <3>1
  <2>2. CASE i > current
    BY <1>4, <1>6, <2>2
  <2>. QED BY <1>1, <2>1, <2>2
<1>. QED BY <1>1, <1>2, <1>5, <1>6

(* undo() passes a record.                                                   *)
LEMMA UndoSkipLive ==
  ASSUME TypeInv, TypeInv', LsnInv, LsnInv', UndoInv, LiveCore, UndoSkip
  PROVE  LiveCore'
<1>1. DiskFrom /\ MetaFile /\ TabRolled /\ TabWalked
  BY DEF LiveCore, Origins
<1>2. /\ phase = "undo" /\ phase' = "undo" /\ current # 0 /\ ~Undoable(log[current])
      /\ current' = IF log[current].kind = "clr" THEN log[current].undo_next ELSE log[current].prev
      /\ UNCHANGED <<log, durable, disk, mt_file, active, txn>>
  BY DEF UndoSkip, files, statement
<1>3. ASSUME NEW i \in 1 .. Len(log), log[i].txn = txn, i > current', Tab(log, i)
      PROVE  TabUndone(log, i)
  <2>1. CASE log[current].kind = "clr"
    <3>1. current \in 1 .. Len(log) /\ log[current].txn = txn
      BY <1>2, PageFields DEF TypeInv, TypeOK, UndoInv, WalkInv
    <3>. QED BY <1>1, <1>2, <1>3, <2>1, <3>1 DEF TabRolled
  <2>2. CASE log[current].kind # "clr"
    <3>1. log[i].txn = txn /\ i > log[current].prev /\ Tab(log, i) => i = current \/ TabUndone(log, i)
      BY <1>1, <1>2, <2>2, TabPassed
    <3>2. ~Tab(log, current)
      BY <1>2 DEF Undoable, Tab
    <3>. QED BY <1>2, <1>3, <2>2, <3>1, <3>2
  <2>. QED BY <2>1, <2>2
<1>4. TabWalked'
  BY <1>2, <1>3 DEF TabWalked
<1>5. DiskFrom' /\ MetaFile'
  BY <1>1, <1>2 DEF DiskFrom, MetaFile, FileShows
<1>. QED BY <1>2, <1>4, <1>5, QuietLive DEF Recovery

(* undo() restores a page, or the metadata.                                  *)
LEMMA UndoAppliesLive ==
  ASSUME TypeInv, TypeInv', LsnInv, LsnInv', UndoInv, LiveCore, UndoApplies
  PROVE  LiveCore'
<1>1. DiskFrom /\ MetaFile /\ TabWalked
  BY DEF LiveCore, Origins
<1>2. PICK n : n = Len(log)
  OBVIOUS
<1>3. /\ current \in 1 .. n /\ log[n].kind = "clr" /\ log[n].of = current
      /\ phase = "undo_apply" /\ phase' = "undo" /\ current' = log[current].prev
      /\ UNCHANGED <<log, durable, txn, active>>
      /\ \/ \E p \in DOMAIN disk : Comp(log, n, p) /\ Writes(n, p, UndoRows(log[log[n].of], OldRows(p)))
         \/ disk' = disk
  BY <1>2, UndoAppliesShape
<1>4. n \in Nat /\ n \in 1 .. Len(log) /\ current # 0
  BY <1>2, <1>3, LogBasics
<1>5. IF Tab(log, current) THEN mt_file' = log[current].before ELSE mt_file' = mt_file
  BY DEF UndoApplies, Tab
<1>6. log[current].kind # "clr"
  BY <1>3 DEF TypeInv, StmtInv, Undoable, DataKinds
<1>7. DiskFrom'
  <2>1. CASE disk' = disk
    BY <1>1, <1>3, <2>1 DEF DiskFrom
  <2>2. ASSUME NEW p \in DOMAIN disk, Comp(log, n, p), Writes(n, p, UndoRows(log[log[n].of], OldRows(p)))
        PROVE  DiskFrom'
    <3>1. p \in Pages
      BY PageFields
    <3>2. current \in 1 .. Len(log) /\ RowRec(log, current, p)
      BY <1>2, <1>3, <2>2 DEF Comp
    <3>3. Writes(n, p, UndoRows(log[current], OldRows(p)))
      BY <1>3, <2>2
    <3>. QED BY <1>1, <1>3, <3>1, <3>2, <3>3, RecoveredFrom DEF Recovery
  <2>. QED BY <1>3, <2>1, <2>2
<1>8. DueTab(log, n) <=> Tab(log, current)
  BY <1>3 DEF DueTab, Tab
<1>9. MetaFile'
  <2>1. ASSUME NEW d \in 1 .. Len(log), LastDue(log, n, d) PROVE mt_file' = ImageOf(log, d)
    <3>1. CASE Tab(log, current)
      <4>1. n \in 1 .. n /\ n <= d /\ d \in 1 .. n
        BY <1>4, <1>8, <2>1, <3>1 DEF LastDue
      <4>2. d = n
        BY <1>4, <4>1
      <4>3. ImageOf(log, n) = log[current].before
        BY <1>3 DEF ImageOf, Tab
      <4>. QED BY <1>5, <3>1, <4>2, <4>3
    <3>2. CASE ~Tab(log, current)
      <4>1. d # n /\ DueTab(log, d) /\ d \in 1 .. n
        BY <1>8, <2>1, <3>2 DEF LastDue
      <4>2. d \in 1 .. n - 1
        BY <1>4, <4>1
      <4>3. \A e \in 1 .. n - 1 : e \in 1 .. n
        BY <1>4
      <4>4. LastDue(log, n - 1, d)
        BY <2>1, <4>1, <4>2, <4>3 DEF LastDue
      <4>. QED BY <1>1, <1>2, <1>3, <1>5, <3>2, <4>4 DEF MetaFile, FileShows
    <3>. QED BY <3>1, <3>2
  <2>. QED BY <1>2, <1>3, <2>1 DEF MetaFile, FileShows
<1>10. TabWalked'
  <2>1. TabUndone(log, current)
    BY <1>3, <1>4 DEF TabUndone
  <2>2. \A i \in 1 .. Len(log) : log[i].txn = txn /\ i > log[current].prev /\ Tab(log, i) =>
          i = current \/ TabUndone(log, i)
    BY <1>1, <1>3, <1>4, <1>6, TabPassed
  <2>. QED BY <1>3, <2>1, <2>2 DEF TabWalked
<1>11. mt_file' = mt_file \/ \E m \in 1 .. Len(log) : DueTab(log, m)
  BY <1>4, <1>5, <1>8
<1>. QED BY <1>3, <1>7, <1>9, <1>10, <1>11, QuietLive DEF Recovery

(* undo() appends a compensation or rollback record.                         *)
LEMMA UndoAddsLive ==
  ASSUME TypeInv, TypeInv', LiveCore, phase = "undo", phase' \in Recovery,
         NEW r, Adds(r), r.kind \in {"clr", "rollback"}, disk' = disk, durable' = Len(log) + 1
  PROVE  /\ Buys(log') /\ Pairs' /\ DiskFrom' /\ Num(log', NoTxn) = Num(log, NoTxn)
         /\ \A n \in 1 .. Len(log) :
              /\ Tab(log', n) <=> Tab(log, n)
              /\ FirstTab(log', n) <=> FirstTab(log, n)
              /\ Done(log', n) <=> Done(log, n)
              /\ DueTab(log', n) <=> DueTab(log, n)
              /\ DueTab(log, n) => ImageOf(log', n) = ImageOf(log, n)
              /\ TabUndone(log, n) => TabUndone(log', n)
         /\ ~Tab(log', Len(log) + 1)
<1>1. Buys(log) /\ Pairs /\ DiskFrom
  BY DEF LiveCore, Origins
<1>2. /\ Len(log) \in Nat /\ Len(log') = Len(log) + 1 /\ log'[Len(log) + 1] = r
      /\ Grown(log, log') /\ log \in Seq(Record) /\ log' \in Seq(Record)
      /\ \A i \in 1 .. Len(log) : i \in 1 .. Len(log') /\ log'[i] = log[i]
      /\ \A m \in 1 .. Len(log') : m > Len(log) => m = Len(log) + 1 /\ log'[m] = r
      /\ \A m \in 1 .. Len(log') : m \in 1 .. Len(log) \/ m > Len(log)
  BY AddsLog
<1>3. r.kind \notin DataKinds /\ r.kind \notin {"commit", "update", "delete", "update_table"}
  BY DEF DataKinds
<1>4. \A x : Ended(log', x, "commit") <=> Ended(log, x, "commit")
  BY <1>3, AddsEnded
<1>5. \A i \in 1 .. Len(log) : (Done(log', i) <=> Done(log, i))
  BY <1>2, <1>4 DEF Done
<1>6. Buys(log')
  <2>1. \A m \in 1 .. Len(log') : m > Len(log) => Bought(log', m)
    BY <1>2, <1>3 DEF Bought
  <2>. QED BY <1>1, <1>2, <2>1, BuysGrow
<1>7. Pairs'
  <2>1. phase \notin InStatement /\ phase' \notin InStatement
    BY DEF Recovery, InStatement
  <2>2. ASSUME NEW j \in 1 .. Len(log'), log'[j].kind \in DataKinds, Done(log', j) PROVE Paired(log', j)
    <3>1. j \in 1 .. Len(log)
      BY <1>2, <1>3, <2>2
    <3>2. Paired(log, j)
      BY <1>1, <1>2, <1>5, <2>2, <3>1 DEF Pairs
    <3>. QED BY <1>2, <3>1, <3>2 DEF Paired, Tab
  <2>. QED BY <2>1, <2>2 DEF Pairs
<1>8. DiskFrom'
  <2>1. durable <= durable'
    BY <1>2, LogBasics
  <2>. QED BY <1>1, <1>2, <2>1, DiskFromStays
<1>9. Num(log', NoTxn) = Num(log, NoTxn)
  <2>1. \A i \in 1 .. Len(log') : log'[i].txn # NoTxn
    BY <1>2, Owned
  <2>2. \A m \in 1 .. Len(log') : m > Len(log) /\ log'[m].kind \in DataKinds => ~Done(log', m)
    BY <1>2, <1>3
  <2>3. Kept(log', NoTxn) = Kept(log, NoTxn)
    BY <1>2, <1>5, <2>1, <2>2, KeptGrows
  <2>. QED BY <2>3 DEF Num
<1>10. \A n \in 1 .. Len(log) :
         /\ Tab(log', n) <=> Tab(log, n)
         /\ FirstTab(log', n) <=> FirstTab(log, n)
         /\ ImageOf(log', n) = ImageOf(log, n) \/ (~Tab(log, n) /\ log[n].kind # "clr")
         /\ DueTab(log', n) <=> DueTab(log, n)
  BY <1>2, <1>5, LogBasics, TabsGrow
<1>11. \A n \in 1 .. Len(log) : DueTab(log, n) => Tab(log, n) \/ log[n].kind = "clr"
  BY DEF DueTab
<1>12. \A n \in 1 .. Len(log) : TabUndone(log, n) => TabUndone(log', n)
  BY <1>2 DEF TabUndone
<1>13. ~Tab(log', Len(log) + 1)
  BY <1>2, <1>3 DEF Tab
<1>. QED BY <1>5, <1>6, <1>7, <1>8, <1>9, <1>10, <1>11, <1>12, <1>13

(* A transaction that is being undone has not ended, and is the only one.    *)
LEMMA OnlyOpen ==
  ASSUME TypeInv, UndoInv, OpenLast, phase = "undo", txn # NoTxn
  PROVE  /\ txn \in active /\ \E k \in 1 .. Len(log) : log[k].txn = txn
         /\ \A k \in 1 .. Len(log) : log[k].txn = txn => ~Finished(log, k) /\ ~Done(log, k)
         /\ \A i \in 1 .. Len(log) : ~Finished(log, i) => log[i].txn = txn
<1>1. /\ txn \in active
      /\ \A i \in 1 .. Len(log) : log[i].txn \in active => log[i].kind \notin {"commit", "rollback"}
  BY DEF UndoInv, WalkInv
<1>2. /\ \A i, j \in 1 .. Len(log) : i < j /\ ~Finished(log, i) => log[j].txn = log[i].txn
      /\ \A x \in active : \E i \in 1 .. Len(log) : log[i].txn = x
  BY DEF OpenLast, Normal, InStatement
<1>3. PICK k \in 1 .. Len(log) : log[k].txn = txn
  BY <1>1, <1>2
<1>4. \A i \in 1 .. Len(log) : log[i].txn = txn => ~Finished(log, i) /\ ~Done(log, i)
  BY <1>1 DEF Finished, Done, Ended
<1>5. ASSUME NEW i \in 1 .. Len(log), ~Finished(log, i) PROVE log[i].txn = txn
  <2>1. i < k \/ i = k \/ k < i
    OBVIOUS
  <2>. QED BY <1>2, <1>3, <1>4, <1>5, <2>1
<1>. QED BY <1>1, <1>3, <1>4, <1>5

(* undo() logs a compensation record.                                        *)
LEMMA UndoLogsLive ==
  ASSUME TypeInv, TypeInv', LsnInv, LsnInv', UndoInv, LiveCore, UndoLogs
  PROVE  LiveCore'
<1>1. OpenLast /\ TabRolled /\ TabWalked /\ MetaCuts /\ MetaFile
  BY DEF LiveCore
<1>2. /\ phase = "undo" /\ phase' = "undo_apply" /\ current # 0 /\ Undoable(log[current])
      /\ log' = Append(log, make_clr(current)) /\ durable' = Len(log) + 1
      /\ UNCHANGED <<disk, mt_file, active, current, txn>>
  BY DEF UndoLogs, statement, recovery
<1>3. log[current].kind # "clr"
  BY <1>2 DEF Undoable, DataKinds
<1>4. /\ current \in 1 .. Len(log) /\ txn # NoTxn /\ log[current].txn = txn
      /\ \A i \in 1 .. Len(log) :
           log[i].txn = txn /\ i > log[current].prev /\ Tab(log, i) => i = current \/ TabUndone(log, i)
  BY <1>1, <1>2, <1>3, TabPassed
<1>5. PICK r : r = make_clr(current)
  OBVIOUS
<1>6. r.kind = "clr" /\ r.of = current /\ r.undo_next = log[current].prev /\ r.txn = txn
  BY <1>4, <1>5 DEF make_clr
<1>7. Adds(r)
  <2>1. log' \in Seq(Record) /\ log \in Seq(Record)
    BY DEF TypeInv, TypeOK
  <2>2. r \in Record
    <3>1. log[current] \in Record
      BY <1>4, <2>1, ElementOfSeq
    <3>2. log[current].txn \in Txns /\ log[current].prev \in Nat
      BY <3>1, RecordFields
    <3>3. current \in Nat
      BY <1>4, LogBasics
    <3>. QED BY <1>5, <3>2, <3>3 DEF make_clr, Record
  <2>. QED BY <1>2, <1>5, <2>1, <2>2, AppendProperties DEF Adds, Grown
<1>8. /\ Len(log) \in Nat /\ Len(log') = Len(log) + 1 /\ log'[Len(log) + 1] = r
      /\ Grown(log, log') /\ log \in Seq(Record) /\ log' \in Seq(Record)
      /\ \A i \in 1 .. Len(log) : i \in 1 .. Len(log') /\ log'[i] = log[i]
      /\ \A m \in 1 .. Len(log') : m > Len(log) => m = Len(log) + 1 /\ log'[m] = r
      /\ \A m \in 1 .. Len(log') : m \in 1 .. Len(log) \/ m > Len(log)
      /\ Len(log) + 1 \in 1 .. Len(log')
  BY <1>7, AddsLog
<1>9. /\ Buys(log') /\ Pairs' /\ DiskFrom' /\ Num(log', NoTxn) = Num(log, NoTxn)
      /\ \A n \in 1 .. Len(log) :
           /\ Tab(log', n) <=> Tab(log, n)
           /\ FirstTab(log', n) <=> FirstTab(log, n)
           /\ Done(log', n) <=> Done(log, n)
           /\ DueTab(log', n) <=> DueTab(log, n)
           /\ DueTab(log, n) => ImageOf(log', n) = ImageOf(log, n)
           /\ TabUndone(log, n) => TabUndone(log', n)
      /\ ~Tab(log', Len(log) + 1)
  BY <1>2, <1>6, <1>7, UndoAddsLive DEF Recovery
<1>10. /\ \A i \in 1 .. Len(log) : ~Finished(log, i) => log[i].txn = txn
       /\ ~Finished(log, current)
  BY <1>1, <1>2, <1>4, OnlyOpen
<1>11. \A i \in 1 .. Len(log) : Finished(log', i) <=> Finished(log, i)
  <2>1. \A m \in 1 .. Len(log') : m > Len(log) => log'[m].kind \notin {"commit", "rollback"}
    BY <1>6, <1>8
  <2>. QED BY <1>8, <2>1, NobodyEnds
<1>12. OpenLast'
  <2>1. phase \notin Normal
    BY <1>2 DEF Normal, InStatement
  <2>2. ASSUME NEW i \in 1 .. Len(log'), NEW j \in 1 .. Len(log'), i < j, ~Finished(log', i)
        PROVE  log'[j].txn = log'[i].txn
    <3>1. i \in 1 .. Len(log) /\ log'[i] = log[i] /\ log[i].txn = txn /\ ~Finished(log, i)
      BY <1>8, <1>10, <1>11, <2>2
    <3>2. CASE j \in 1 .. Len(log)
      BY <1>1, <1>8, <2>1, <2>2, <3>1, <3>2 DEF OpenLast
    <3>3. CASE j > Len(log)
      BY <1>6, <1>8, <3>1, <3>3
    <3>. QED BY <1>8, <3>2, <3>3
  <2>3. \A x \in active : \E i \in 1 .. Len(log') : log'[i].txn = x
    BY <1>1, <1>8, <2>1 DEF OpenLast
  <2>. QED BY <1>2, <2>2, <2>3 DEF OpenLast
<1>13. TabUndone(log', current)
  BY <1>6, <1>8 DEF TabUndone
<1>14. TabRolled'
  <2>1. ASSUME NEW c \in 1 .. Len(log'), NEW i \in 1 .. Len(log'), log'[c].kind = "clr",
               log'[i].txn = log'[c].txn, i > log'[c].undo_next, Tab(log', i)
        PROVE  TabUndone(log', i)
    <3>1. i \in 1 .. Len(log) /\ log'[i] = log[i] /\ Tab(log, i)
      BY <1>8, <1>9, <2>1
    <3>2. CASE c \in 1 .. Len(log)
      BY <1>1, <1>8, <1>9, <2>1, <3>1, <3>2 DEF TabRolled
    <3>3. CASE c > Len(log)
      BY <1>4, <1>6, <1>8, <1>9, <1>13, <2>1, <3>1, <3>3
    <3>. QED BY <1>8, <3>2, <3>3
  <2>. QED BY <2>1 DEF TabRolled
<1>15. TabWalked'
  <2>1. \A i \in 1 .. Len(log) : log[i].txn = txn /\ i > current /\ Tab(log, i) => TabUndone(log, i)
    BY <1>1, <1>2, <1>3, <1>4 DEF TabWalked
  <2>2. ASSUME NEW i \in 1 .. Len(log'), log'[i].txn = txn, i > current, Tab(log', i)
        PROVE  TabUndone(log', i)
    <3>1. i \in 1 .. Len(log) /\ log'[i] = log[i] /\ Tab(log, i)
      BY <1>8, <1>9, <2>2
    <3>. QED BY <1>9, <2>1, <2>2, <3>1
  <2>. QED BY <1>2, <2>2 DEF TabWalked
<1>16. MetaFile'
  <2>1. ASSUME NEW d \in 1 .. Len(log'), LastDue(log', Len(log), d) PROVE mt_file = ImageOf(log', d)
    <3>1. d \in 1 .. Len(log) /\ LastDue(log, Len(log), d) /\ DueTab(log, d)
      BY <1>9, <2>1 DEF LastDue
    <3>. QED BY <1>1, <1>2, <1>9, <3>1 DEF MetaFile, FileShows
  <2>2. Len(log') - 1 = Len(log)
    BY <1>8
  <2>. QED BY <1>2, <2>1, <2>2 DEF MetaFile, FileShows
<1>17. MetaRight(log', mt_file.live_rows)
  <2>. SUFFICES ASSUME Fine(log')
                PROVE  /\ \A n \in 1 .. Len(log') : FirstTab(log', n) /\ ~Finished(log', n) =>
                            log'[n].before.live_rows = Num(log', NoTxn)
                       /\ (\A n \in 1 .. Len(log') : Tab(log', n) => Finished(log', n)) =>
                            \A d \in 1 .. Len(log') : LastDue(log', Len(log'), d) =>
                              ImageOf(log', d).live_rows = Num(log', NoTxn)
                       /\ (\A n \in 1 .. Len(log') : ~DueTab(log', n)) => mt_file.live_rows = 0
    BY DEF MetaRight
  <2>1. MetaRight(log, mt_file.live_rows) /\ Fine(log)
    BY <1>1, <1>8, GrownSelf, GrownFine DEF MetaCuts
  <2>2. /\ \A n \in 1 .. Len(log) : FirstTab(log, n) /\ ~Finished(log, n) =>
             log[n].before.live_rows = Num(log, NoTxn)
        /\ (\A n \in 1 .. Len(log) : Tab(log, n) => Finished(log, n)) =>
             \A d \in 1 .. Len(log) : LastDue(log, Len(log), d) =>
               ImageOf(log, d).live_rows = Num(log, NoTxn)
        /\ (\A n \in 1 .. Len(log) : ~DueTab(log, n)) => mt_file.live_rows = 0
    BY <2>1 DEF MetaRight
  <2>3. ASSUME NEW n \in 1 .. Len(log'), FirstTab(log', n), ~Finished(log', n)
        PROVE  log'[n].before.live_rows = Num(log', NoTxn)
    <3>1. n \in 1 .. Len(log)
      BY <1>8, <1>9, <2>3 DEF FirstTab
    <3>. QED BY <1>8, <1>9, <1>11, <2>2, <2>3, <3>1
  <2>4. ASSUME \A n \in 1 .. Len(log') : Tab(log', n) => Finished(log', n),
               NEW d \in 1 .. Len(log'), LastDue(log', Len(log'), d)
        PROVE  ImageOf(log', d).live_rows = Num(log', NoTxn)
    <3>1. \A n \in 1 .. Len(log) : Tab(log, n) => Finished(log, n)
      BY <1>8, <1>9, <1>11, <2>4
    <3>2. ~Tab(log, current)
      BY <1>4, <1>10, <3>1
    <3>3. ~DueTab(log', Len(log) + 1)
      BY <1>4, <1>6, <1>8, <1>9, <3>2 DEF DueTab
    <3>4. d \in 1 .. Len(log) /\ LastDue(log, Len(log), d) /\ DueTab(log, d)
      <4>1. DueTab(log', d) /\ \A e \in 1 .. Len(log') : DueTab(log', e) => e <= d
        BY <2>4 DEF LastDue
      <4>2. d \in 1 .. Len(log)
        BY <1>8, <3>3, <4>1
      <4>. QED BY <1>8, <1>9, <4>1, <4>2 DEF LastDue
    <3>. QED BY <1>9, <2>2, <3>1, <3>4
  <2>5. (\A n \in 1 .. Len(log') : ~DueTab(log', n)) => mt_file.live_rows = 0
    BY <1>8, <1>9, <2>2
  <2>. QED BY <2>3, <2>4, <2>5
<1>18. Sole' /\ Closed' /\ CacheFrom' /\ TodoFrom' /\ MetaCuts' /\ MetaNow'
  BY <1>2, <1>17, NoMemoryLive DEF Recovery
<1>. QED BY <1>9, <1>12, <1>14, <1>15, <1>16, <1>18 DEF LiveCore, Origins

(* When a transaction has been undone, the last image of the metadata is the *)
(* one of before its first change.                                           *)
LEMMA UndoneImage ==
  ASSUME TypeInv, UndoInv, LiveCore, Fine(log), phase = "undo", txn # NoTxn, current = 0,
         NEW d \in 1 .. Len(log), LastDue(log, Len(log), d)
  PROVE  ImageOf(log, d).live_rows = Num(log, NoTxn)
<1>1. OpenLast /\ TabWalked /\ MetaCuts
  BY DEF LiveCore
<1>2. /\ Len(log) \in Nat /\ log \in Seq(Record) /\ \A c \in 1 .. Len(log) : LinksBack(log, c)
  BY LogBasics
<1>3. /\ \A n \in 1 .. Len(log) : FirstTab(log, n) /\ ~Finished(log, n) =>
           log[n].before.live_rows = Num(log, NoTxn)
      /\ (\A n \in 1 .. Len(log) : Tab(log, n) => Finished(log, n)) =>
           \A e \in 1 .. Len(log) : LastDue(log, Len(log), e) =>
             ImageOf(log, e).live_rows = Num(log, NoTxn)
  <2>1. MetaRight(log, mt_file.live_rows)
    BY <1>1, GrownSelf DEF MetaCuts
  <2>. QED BY <2>1 DEF MetaRight
<1>4. /\ \A k \in 1 .. Len(log) : log[k].txn = txn => ~Finished(log, k) /\ ~Done(log, k)
      /\ \A i \in 1 .. Len(log) : ~Finished(log, i) => log[i].txn = txn
  BY <1>1, OnlyOpen
<1> DEFINE T == {n \in 1 .. Len(log) : Tab(log, n) /\ log[n].txn = txn}
<1>5. CASE T = {}
  <2>1. \A n \in 1 .. Len(log) : Tab(log, n) => Finished(log, n)
    BY <1>4, <1>5
  <2>. QED BY <1>3, <2>1
<1>6. CASE T # {}
  <2>1. T \subseteq Nat
    BY <1>2
  <2>2. PICK f \in T : \A k \in T : f <= k
    <3>. HIDE DEF T
    <3>. QED BY <1>6, <2>1, MinExists
  <2>3. f \in 1 .. Len(log) /\ Tab(log, f) /\ log[f].txn = txn /\ f \in Nat
    BY <1>2, <2>2
  <2>4. FirstTab(log, f)
    <3>1. ASSUME NEW m \in 1 .. f - 1, Tab(log, m), log[m].txn = txn PROVE FALSE
      <4>1. m \in 1 .. Len(log) /\ m < f
        BY <1>2, <2>3
      <4>2. f <= m
        BY <2>2, <3>1, <4>1
      <4>. QED BY <2>3, <4>1, <4>2
    <3>. QED BY <2>3, <3>1 DEF FirstTab
  <2>5. log[f].before.live_rows = Num(log, NoTxn)
    BY <1>3, <1>4, <2>3, <2>4
  <2>6. PICK c \in 1 .. Len(log) : log[c].kind = "clr" /\ log[c].of = f
    <3>1. f > 0
      BY <2>3
    <3>2. TabUndone(log, f)
      BY <1>1, <2>3, <3>1 DEF TabWalked
    <3>. QED BY <3>2 DEF TabUndone
  <2>7. log[c].txn = txn /\ log[c].undo_next = log[f].prev
    BY <2>3, <2>6 DEF UndoInv, LogInv, Compensates
  <2>8. log[f].prev < f /\ log[f].prev \in Nat
    <3>1. log[f] \in Record
      BY <1>2, <2>3, ElementOfSeq
    <3>. QED BY <1>2, <2>3, <3>1, RecordFields DEF LinksBack
  <2>9. c <= d
    BY <2>3, <2>6 DEF LastDue, DueTab
  <2>10. DueTab(log, d)
    BY DEF LastDue
  <2>11. CASE c = d
    BY <2>5, <2>6, <2>11 DEF ImageOf, Tab
  <2>12. CASE c < d
    <3>1. log[d].txn = txn
      BY <1>1, <1>4, <2>7, <2>12 DEF OpenLast, Normal, InStatement
    <3>2. log[d].kind = "clr" /\ Tab(log, log[d].of)
      BY <1>4, <2>10, <3>1 DEF DueTab
    <3>3. log[d].of \in 1 .. Len(log)
      <4>1. log[d].of \in 1 .. d - 1
        BY <1>2, <3>2 DEF LinksBack
      <4>. QED BY <1>2, <4>1
    <3>4. log[log[d].of].txn = txn
      BY <3>1, <3>2 DEF UndoInv, LogInv, Compensates
    <3>5. f <= log[d].of
      BY <2>2, <3>2, <3>3, <3>4
    <3>6. log[d].of <= log[f].prev
      <4>1. Follows(log, c, d)
        BY <2>12 DEF UndoInv, LogInv
      <4>. QED BY <2>6, <2>7, <3>1, <3>2, <4>1 DEF Follows
    <3>. QED BY <2>3, <2>8, <3>3, <3>5, <3>6
  <2>. QED BY <1>2, <2>9, <2>11, <2>12
<1>. QED BY <1>5, <1>6

(* undo() is through with a transaction.                                     *)
LEMMA UndoEndLive ==
  ASSUME TypeInv, TypeInv', LsnInv, LsnInv', UndoInv, LiveCore, UndoEnd
  PROVE  LiveCore'
<1>1. OpenLast /\ TabRolled /\ TabWalked /\ MetaCuts /\ MetaFile
  BY DEF LiveCore
<1>2. /\ phase = "undo" /\ phase' = "undo" /\ txn # NoTxn /\ current = 0 /\ durable' = Len(log) + 1
      /\ log' = Append(log, [kind |-> "rollback", txn |-> txn, prev |-> 0])
      /\ active' = active \ {txn} /\ txn' = NoTxn
      /\ UNCHANGED <<disk, mt_file, current>>
  BY DEF UndoEnd
<1>3. PICK r : r = [kind |-> "rollback", txn |-> txn, prev |-> 0]
  OBVIOUS
<1>4. r.kind = "rollback" /\ r.txn = txn /\ r \in Record
  <2>1. txn \in Txns
    BY <1>2 DEF TypeInv, TypeOK
  <2>. QED BY <1>3, <2>1 DEF Record
<1>5. Adds(r)
  <2>1. log' \in Seq(Record) /\ log \in Seq(Record)
    BY DEF TypeInv, TypeOK
  <2>. QED BY <1>2, <1>3, <1>4, <2>1, AppendProperties DEF Adds, Grown
<1>6. /\ Len(log) \in Nat /\ Len(log') = Len(log) + 1 /\ log'[Len(log) + 1] = r
      /\ Grown(log, log') /\ log \in Seq(Record) /\ log' \in Seq(Record)
      /\ \A i \in 1 .. Len(log) : i \in 1 .. Len(log') /\ log'[i] = log[i]
      /\ \A m \in 1 .. Len(log') : m > Len(log) => m = Len(log) + 1 /\ log'[m] = r
      /\ \A m \in 1 .. Len(log') : m \in 1 .. Len(log) \/ m > Len(log)
      /\ Len(log) + 1 \in 1 .. Len(log')
  BY <1>5, AddsLog
<1>7. /\ Buys(log') /\ Pairs' /\ DiskFrom' /\ Num(log', NoTxn) = Num(log, NoTxn)
      /\ \A n \in 1 .. Len(log) :
           /\ Tab(log', n) <=> Tab(log, n)
           /\ Done(log', n) <=> Done(log, n)
           /\ DueTab(log', n) <=> DueTab(log, n)
           /\ DueTab(log, n) => ImageOf(log', n) = ImageOf(log, n)
           /\ TabUndone(log, n) => TabUndone(log', n)
      /\ ~Tab(log', Len(log) + 1)
  BY <1>2, <1>4, <1>5, UndoAddsLive DEF Recovery
<1>8. \A i \in 1 .. Len(log') : Finished(log', i)
  <2>1. Ended(log', txn, "rollback")
    BY <1>4, <1>6 DEF Ended
  <2>2. ASSUME NEW i \in 1 .. Len(log), Finished(log, i) PROVE Finished(log', i)
    BY <1>6, <2>2, DoneGrows DEF Finished, Done
  <2>3. \A i \in 1 .. Len(log) : ~Finished(log, i) => log[i].txn = txn
    BY <1>1, <1>2, OnlyOpen
  <2>4. ASSUME NEW i \in 1 .. Len(log'), log'[i].txn = txn PROVE Finished(log', i)
    BY <2>1, <2>4 DEF Finished
  <2>. QED BY <1>4, <1>6, <2>2, <2>3, <2>4
<1>9. ~DueTab(log', Len(log) + 1)
  BY <1>4, <1>6 DEF DueTab, Tab
<1>10. ASSUME NEW d \in 1 .. Len(log'), LastDue(log', Len(log'), d)
       PROVE  d \in 1 .. Len(log) /\ LastDue(log, Len(log), d) /\ DueTab(log, d)
  <2>1. DueTab(log', d) /\ \A e \in 1 .. Len(log') : DueTab(log', e) => e <= d
    BY <1>10 DEF LastDue
  <2>2. d \in 1 .. Len(log)
    BY <1>6, <1>9, <2>1
  <2>. QED BY <1>6, <1>7, <2>1, <2>2 DEF LastDue
<1>11. OpenLast'
  <2>1. phase \notin Normal
    BY <1>2 DEF Normal, InStatement
  <2>2. \A x \in active' : \E i \in 1 .. Len(log') : log'[i].txn = x
    BY <1>1, <1>2, <1>6, <2>1 DEF OpenLast
  <2>. QED BY <1>8, <2>2 DEF OpenLast
<1>12. TabRolled'
  <2>1. ASSUME NEW c \in 1 .. Len(log'), NEW i \in 1 .. Len(log'), log'[c].kind = "clr",
               log'[i].txn = log'[c].txn, i > log'[c].undo_next, Tab(log', i)
        PROVE  TabUndone(log', i)
    <3>1. /\ i \in 1 .. Len(log) /\ log'[i] = log[i] /\ Tab(log, i)
          /\ c \in 1 .. Len(log) /\ log'[c] = log[c]
      BY <1>4, <1>6, <1>7, <2>1
    <3>. QED BY <1>1, <1>7, <2>1, <3>1 DEF TabRolled
  <2>. QED BY <2>1 DEF TabRolled
<1>13. TabWalked'
  BY <1>2 DEF TabWalked
<1>14. MetaFile'
  <2>1. \A d \in 1 .. Len(log') : LastDue(log', Len(log'), d) => mt_file = ImageOf(log', d)
    BY <1>1, <1>2, <1>7, <1>10 DEF MetaFile, FileShows
  <2>. QED BY <1>2, <2>1 DEF MetaFile, FileShows
<1>15. MetaRight(log', mt_file.live_rows)
  <2>. SUFFICES ASSUME Fine(log')
                PROVE  /\ \A d \in 1 .. Len(log') : LastDue(log', Len(log'), d) =>
                            ImageOf(log', d).live_rows = Num(log', NoTxn)
                       /\ (\A n \in 1 .. Len(log') : ~DueTab(log', n)) => mt_file.live_rows = 0
    BY <1>8 DEF MetaRight
  <2>1. MetaRight(log, mt_file.live_rows) /\ Fine(log)
    BY <1>1, <1>6, GrownSelf, GrownFine DEF MetaCuts
  <2>2. (\A n \in 1 .. Len(log) : ~DueTab(log, n)) => mt_file.live_rows = 0
    BY <2>1 DEF MetaRight
  <2>3. ASSUME NEW d \in 1 .. Len(log'), LastDue(log', Len(log'), d)
        PROVE  ImageOf(log', d).live_rows = Num(log', NoTxn)
    <3>1. d \in 1 .. Len(log) /\ LastDue(log, Len(log), d) /\ DueTab(log, d)
      BY <1>10, <2>3
    <3>2. ImageOf(log, d).live_rows = Num(log, NoTxn)
      BY <1>2, <2>1, <3>1, UndoneImage
    <3>. QED BY <1>7, <3>1, <3>2
  <2>4. (\A n \in 1 .. Len(log') : ~DueTab(log', n)) => mt_file.live_rows = 0
    BY <1>6, <1>7, <2>2
  <2>. QED BY <2>3, <2>4
<1>16. Sole' /\ Closed' /\ CacheFrom' /\ TodoFrom' /\ MetaCuts' /\ MetaNow'
  BY <1>2, <1>15, NoMemoryLive DEF Recovery
<1>. QED BY <1>7, <1>11, <1>12, <1>13, <1>14, <1>16 DEF LiveCore, Origins

(* The instance is up again: what REDO and UNDO left in the metadata file is *)
(* the number of rows.                                                       *)
LEMMA RecoveredLive ==
  ASSUME TypeInv, TypeInv', LsnInv, UndoInv, UndoInv', TableInv, LiveCore, Recovered
  PROVE  LiveCore'
<1>1. /\ Buys(log) /\ DiskFrom /\ Pairs /\ TabRolled /\ MetaCuts /\ MetaFile
  BY DEF LiveCore, Origins
<1>2. /\ phase = "undo" /\ phase' = "idle" /\ active = {} /\ mt' = mt_file
      /\ UNCHANGED <<log, durable, disk, mt_file, cache, txn, todo>>
  BY DEF Recovered, files, statement
<1>3. DOMAIN cache = {} /\ txn = NoTxn /\ todo = {} /\ durable = Len(log)
  BY <1>2 DEF LsnInv, TypeInv, StmtInv, UndoInv, WalkInv
<1>4. phase' \in Normal /\ phase' \notin Running /\ phase' \notin InStatement /\ phase \notin InStatement
  BY <1>2 DEF Normal, Running, InStatement
<1>5. Len(log) \in Nat /\ Grown(log, log)
  BY LogBasics, GrownSelf
<1>6. OpenLast' /\ TabRolled' /\ TabWalked' /\ MetaFile'
  <2>1. \A m \in 1 .. Len(log) : ~(m > Len(log))
    BY <1>5
  <2>. QED BY <1>1, <1>2, <1>4, <1>5, <2>1, NormalLive
<1>7. \A i \in 1 .. Len(log) : Finished(log, i)
  BY <1>2 DEF TableInv, Walked, Finished, Done
<1>8. Sole' /\ Closed'
  BY <1>2, <1>3, <1>4, <1>7 DEF Sole, Closed
<1>9. Origins'
  <2>1. CacheFrom' /\ TodoFrom'
    BY <1>2, <1>3 DEF CacheFrom, TodoFrom
  <2>2. DiskFrom'
    BY <1>1, <1>2 DEF DiskFrom
  <2>. QED BY <1>1, <1>2, <2>1, <2>2 DEF Origins
<1>10. Pairs'
  BY <1>1, <1>2, <1>4 DEF Pairs
<1>11. MetaCuts'
  BY <1>1, <1>2 DEF MetaCuts
<1>12. Fine(log) => mt_file.live_rows = Num(log, NoTxn)
  <2>. SUFFICES ASSUME Fine(log) PROVE mt_file.live_rows = Num(log, NoTxn)
    OBVIOUS
  <2>1. MetaRight(log, mt_file.live_rows)
    BY <1>1, GrownSelf DEF MetaCuts
  <2>2. /\ \A d \in 1 .. Len(log) : LastDue(log, Len(log), d) =>
             ImageOf(log, d).live_rows = Num(log, NoTxn)
        /\ (\A n \in 1 .. Len(log) : ~DueTab(log, n)) => mt_file.live_rows = 0
    BY <1>7, <2>1 DEF MetaRight
  <2> DEFINE D == {n \in 1 .. Len(log) : DueTab(log, n)}
             f == [n \in 1 .. Len(log) |-> n]
  <2>3. CASE D = {}
    <3>1. \A n \in 1 .. Len(log) : ~DueTab(log, n)
      BY <2>3
    <3>. QED BY <1>1, <2>2, <3>1, NothingDue
  <2>4. CASE D # {}
    <3>1. D \subseteq 1 .. Len(log) /\ \A n \in D : f[n] = n /\ f[n] \in Nat
      BY <1>5
    <3>2. PICK d \in D : \A e \in D : f[e] <= f[d]
      <4>. HIDE DEF D, f
      <4>. QED BY <1>5, <2>4, <3>1, ArgMaxExists
    <3>3. LastDue(log, Len(log), d) /\ d \in 1 .. Len(log)
      BY <3>1, <3>2 DEF LastDue
    <3>4. mt_file = ImageOf(log, d)
      BY <1>1, <1>2, <3>3 DEF MetaFile, FileShows
    <3>. QED BY <2>2, <3>3, <3>4
  <2>. QED BY <2>3, <2>4
<1>13. MetaNow'
  BY <1>2, <1>3, <1>4, <1>12 DEF MetaNow, InStatement
<1>. QED BY <1>6, <1>8, <1>9, <1>10, <1>11, <1>13 DEF LiveCore

-----------------------------------------------------------------------------
(* The invariant holds throughout                                          *)

(* The initial state.                                                        *)
LEMMA InitLive == Init => LiveInv
<1>. SUFFICES ASSUME Init PROVE LiveCore
  BY DEF LiveInv
<1>0. TypeInv
  BY InitType
<1>1. /\ phase = "idle" /\ Len(log) = 0 /\ durable = 0 /\ DOMAIN disk = {} /\ DOMAIN cache = {}
      /\ todo = {} /\ txn = NoTxn /\ mt.live_rows = 0 /\ mt_file.live_rows = 0
  BY DEF Init, NewTable
<1>2. \A i \in 1 .. Len(log) : FALSE
  BY <1>1
<1>3. phase \in Normal /\ phase \notin Running /\ phase \notin InStatement
  BY <1>1 DEF Normal, Running, InStatement
<1>4. Sole /\ Closed /\ OpenLast
  BY <1>1, <1>2, <1>3 DEF Sole, Closed, OpenLast
<1>5. Origins
  BY <1>1, <1>2 DEF Origins, Buys, CacheFrom, DiskFrom, TodoFrom
<1>6. Pairs /\ TabRolled /\ TabWalked
  BY <1>2 DEF Pairs, TabRolled, TabWalked
<1>7. MetaFile
  BY <1>1 DEF MetaFile
<1>8. MetaCuts
  <2>1. ASSUME NEW lg \in Seq(Record), Grown(lg, log) PROVE MetaRight(lg, mt_file.live_rows)
    <3>1. Len(lg) \in Nat /\ Len(lg) <= 0
      BY <1>1, <2>1, LenProperties DEF Grown
    <3>2. \A i \in 1 .. Len(lg) : FALSE
      BY <3>1
    <3>. QED BY <1>1, <3>2 DEF MetaRight
  <2>. QED BY <2>1 DEF MetaCuts
<1>9. MetaNow
  <2>1. Num(log, NoTxn) = 0
    BY <1>0, <1>2, <1>6, NothingDue
  <2>. QED BY <1>1, <1>3, <2>1 DEF MetaNow
<1>. QED BY <1>4, <1>5, <1>6, <1>7, <1>8, <1>9 DEF LiveCore

(* A step that changes nothing.                                              *)
LEMMA StutterLive == ASSUME LiveCore, UNCHANGED vars PROVE LiveCore'
<1>1. UNCHANGED <<phase, log, durable, disk, mt_file, mt, cache, txn, unchanged_mt, todo,
                  redone, active, current>>
  BY DEF vars, files, memory, statement, recovery
<1>2. /\ Sole /\ Closed /\ OpenLast /\ Buys(log) /\ CacheFrom /\ DiskFrom /\ TodoFrom
      /\ Pairs /\ TabRolled /\ TabWalked /\ MetaCuts /\ MetaFile /\ MetaNow
  BY DEF LiveCore, Origins
<1>3. Sole' /\ Closed' /\ OpenLast'
  BY <1>1, <1>2 DEF Sole, Closed, OpenLast
<1>4. Origins'
  BY <1>1, <1>2 DEF Origins, CacheFrom, DiskFrom, TodoFrom
<1>5. Pairs' /\ TabRolled' /\ TabWalked'
  BY <1>1, <1>2 DEF Pairs, TabRolled, TabWalked
<1>6. MetaCuts' /\ MetaFile' /\ MetaNow'
  BY <1>1, <1>2 DEF MetaCuts, MetaFile, FileShows, MetaNow
<1>. QED BY <1>3, <1>4, <1>5, <1>6 DEF LiveCore

(* Failed statements are counted.                                            *)
LEMMA ThrowsCounted ==
  ASSUME [Next]_vars PROVE throws' = throws \/ throws' = throws + 1
<1>1. CASE Statement
  <2>1. ASSUME NEW x \in Txns, BeginInsert(x) PROVE throws' = throws
    BY <2>1 DEF BeginInsert, history
  <2>2. ASSUME NEW v \in Vals, InsertRow(v) PROVE throws' = throws
    BY <2>2 DEF InsertRow, history
  <2>3. CASE InsertThrows
    BY <2>3 DEF InsertThrows
  <2>4. ASSUME NEW x \in Txns, NEW kind \in {"update", "delete"}, BeginOnRows(x, kind) PROVE throws' = throws
    BY <2>4 DEF BeginOnRows, history
  <2>5. ASSUME NEW t \in todo, NEW v \in Vals, UpdateRow(t, v) PROVE throws' = throws
    BY <2>5 DEF UpdateRow
  <2>6. ASSUME NEW t \in todo, NEW v \in Vals, UpdateThrows(t, v) PROVE throws' = throws + 1
    BY <2>6 DEF UpdateThrows
  <2>7. ASSUME NEW t \in todo, DeleteRow(t) PROVE throws' = throws
    BY <2>7 DEF DeleteRow, history
  <2>. QED BY <1>1, <2>1, <2>2, <2>3, <2>4, <2>5, <2>6, <2>7 DEF Statement
<1>2. CASE Committing
  BY <1>2 DEF Committing, Commit, WaitForDurable, CommitDone, FlushDirty, history
<1>3. CASE Recovering
  BY <1>3 DEF Recovering, Start, Redo, EndRedo, UndoTxn, UndoSkip, UndoLogs, UndoApplies, UndoEnd,
              Recovered, history
<1>4. CASE (\E p \in Pages : Evict(p)) \/ Crash \/ Close
  BY <1>4 DEF Evict, Crash, Close, Die
<1>5. CASE UNCHANGED vars
  BY <1>5 DEF vars, history
<1>. QED BY <1>1, <1>2, <1>3, <1>4, <1>5 DEF Next

(* A statement that does not fail goes on after each row.                    *)
LEMMA WorkGoesOn ==
  ASSUME throws \in Nat, RowWork, throws' = throws PROVE phase' = phase /\ txn' = txn
<1>1. ASSUME NEW v \in Vals, InsertRow(v) PROVE phase' = phase /\ txn' = txn
  BY <1>1 DEF InsertRow, statement
<1>2. ASSUME NEW t \in todo, NEW v \in Vals, UpdateRow(t, v) PROVE phase' = phase /\ txn' = txn
  BY <1>2 DEF UpdateRow
<1>3. ASSUME NEW t \in todo, NEW v \in Vals, UpdateThrows(t, v) PROVE FALSE
  BY <1>3 DEF UpdateThrows
<1>4. ASSUME NEW t \in todo, DeleteRow(t) PROVE phase' = phase /\ txn' = txn
  BY <1>4 DEF DeleteRow
<1>. QED BY <1>1, <1>2, <1>3, <1>4 DEF RowWork

(* Every step keeps it, as long as a full cache only drops clean pages and   *)
(* no flag of update_row has been lost.                                      *)
LEMMA NextLive ==
  ASSUME Evictions # "any", lost_flags' = 0, TypeInv, LsnInv, UndoInv, TableInv, LiveInv, [Next]_vars
  PROVE  LiveInv'
<1>. SUFFICES ASSUME throws' = 0 PROVE LiveCore'
  BY DEF LiveInv
<1>0. TypeInv' /\ LsnInv' /\ UndoInv'
  BY NextType, NextLsn, NextUndo
<1>1. throws \in Nat /\ throws = 0 /\ throws' = throws /\ LiveCore
  <2>1. throws \in Nat
    BY DEF TypeInv, TypeOK
  <2>. QED BY <2>1, ThrowsCounted DEF LiveInv
<1>2. ASSUME NEW x \in Txns, BeginInsert(x) \/ \E kind \in {"update", "delete"} : BeginOnRows(x, kind)
      PROVE  LiveCore'
  <2>1. Begins(x)
    BY <1>0, <1>2, BeginBegins
  <2>2. mt' = mt /\ mt_file' = mt_file /\ (phase' \in {"update", "delete"} => unchanged_mt' = mt)
    BY <1>2, BeginMeta
  <2>. QED BY <1>0, <1>1, <2>1, <2>2, BeginsLive
<1>3. CASE RowWork
  <2>1. phase \in Normal
    BY <1>3, RowWorkLogs DEF Normal
  <2>2. Tasks /\ \A q \in DOMAIN cache : Lists(pages, q)
    BY <2>1 DEF TableInv, Listed
  <2>3. PICK c, p, r : Works(c, p, r)
    BY <1>0, <1>3, <2>2, RowWorks
  <2>4. RowMeta
    BY <1>1, <1>3, RowWorkMeta
  <2>5. phase' = phase /\ txn' = txn
    BY <1>1, <1>3, WorkGoesOn
  <2>. QED BY <1>0, <1>1, <2>3, <2>4, <2>5, WorksLive
<1>4. CASE InsertThrows
  BY <1>1, <1>4 DEF InsertThrows
<1>5. CASE Commit
  BY <1>0, <1>1, <1>5, CommitLive
<1>6. CASE WaitForDurable
  BY <1>0, <1>1, <1>6, WaitLive
<1>7. CASE CommitDone \/ \E p \in Pages : Evict(p)
  BY <1>0, <1>1, <1>7, ReturnLive
<1>8. ASSUME NEW p \in Pages, FlushDirty(p) PROVE LiveCore'
  BY <1>0, <1>1, <1>8, FlushLive
<1>9. CASE Start
  BY <1>0, <1>1, <1>9, StartLive
<1>10. CASE Redo
  BY <1>0, <1>1, <1>10, RedoLive
<1>11. CASE EndRedo
  BY <1>0, <1>1, <1>11, EndRedoLive
<1>12. ASSUME NEW x \in Txns, UndoTxn(x) PROVE LiveCore'
  BY <1>0, <1>1, <1>12, UndoTxnLive
<1>13. CASE UndoSkip
  BY <1>0, <1>1, <1>13, UndoSkipLive
<1>14. CASE UndoLogs
  BY <1>0, <1>1, <1>14, UndoLogsLive
<1>15. CASE UndoApplies
  BY <1>0, <1>1, <1>15, UndoAppliesLive
<1>16. CASE UndoEnd
  BY <1>0, <1>1, <1>16, UndoEndLive
<1>17. CASE Recovered
  BY <1>0, <1>1, <1>17, RecoveredLive
<1>18. CASE Crash
  <2>1. PICK k \in durable .. Len(log) : Die(k)
    BY <1>18 DEF Crash
  <2>2. phase # "down" /\ mt_file' = mt_file
    BY <1>18 DEF Crash
  <2>. QED BY <1>0, <1>1, <2>1, <2>2, DieLive
<1>19. CASE Close
  <2>1. durable \in durable .. Len(log)
    BY PageFields
  <2>2. phase # "down" /\ Die(durable) /\ mt_file' = mt /\ phase = "idle"
    BY <1>19 DEF Close
  <2>. QED BY <1>0, <1>1, <2>1, <2>2, DieLive
<1>20. CASE UNCHANGED vars
  BY <1>1, <1>20, StutterLive
<1>. QED BY <1>2, <1>3, <1>4, <1>5, <1>6, <1>7, <1>8, <1>9, <1>10, <1>11, <1>12, <1>13, <1>14, <1>15,
            <1>16, <1>17, <1>18, <1>19, <1>20
         DEF Next, Statement, Committing, Recovering, RowWork

(* The invariants hold throughout, until a flag is lost.                     *)
LEMMA LiveInvHolds ==
  ASSUME Evictions # "any"
  PROVE  Spec => [](TypeInv /\ LsnInv /\ UndoInv /\ (lost_flags = 0 => TableInv /\ LiveInv))
<1>1. TypeInv /\ LsnInv /\ UndoInv /\ (lost_flags = 0 => TableInv /\ LiveInv) /\ [Next]_vars
        => (TypeInv /\ LsnInv /\ UndoInv /\ (lost_flags = 0 => TableInv /\ LiveInv))'
  BY NextType, NextLsn, NextUndo, NextTable, NextLive, LostStays
<1>. QED BY <1>1, InitType, InitLsn, InitUndo, InitTable, InitLive, PTL DEF Spec

-----------------------------------------------------------------------------
(* The counter and the table                                               *)

(* The slots that LiveRowsCounted counts.                                    *)
LEMMA LiveSlotsAre ==
  ASSUME NEW c, \A p \in DOMAIN c : c[p].rows \in Seq(Row), NEW t
  PROVE  t \in LiveSlots(c, DOMAIN c) <=>
           \E p \in DOMAIN c : \E n \in 1 .. Len(c[p].rows) : t = <<p, n>> /\ Live(c, p, n)
<1>1. \A p \in DOMAIN c : DOMAIN c[p].rows = 1 .. Len(c[p].rows)
  BY LenProperties
<1>. QED BY <1>1 DEF LiveSlots, Live

(* A settled table has as many rows as the committed statements left.        *)
LEMMA SettledSize ==
  ASSUME NEW c, Settled(c)
  PROVE  Cardinality(LiveSlots(c, DOMAIN c)) = Cardinality(Kept(log, NoTxn))
<1> DEFINE S == LiveSlots(c, DOMAIN c)
           T == {m \in 1 .. Len(log) : Left(m)}
           For(t, m) == Stands(c, t[1], t[2], m)
           f == [t \in S |-> CHOOSE m \in T : For(t, m)]
<1>0. T = Kept(log, NoTxn)
  <2>1. \A i \in 1 .. Len(log) : log[i].txn # NoTxn
    BY DEF Settled
  <2>2. \A i \in 1 .. Len(log) : Counts(log, NoTxn, i) <=> Done(log, i)
    BY <2>1 DEF Counts
  <2>. QED BY <2>2 DEF Kept, Left
<1>1. IsFiniteSet(T)
  <2>1. log \in Seq(Record)
    BY DEF Settled
  <2>. QED BY <1>0, <2>1, KeptFinite
<1>2. \A p \in DOMAIN c : c[p].rows \in Seq(Row)
  BY DEF Settled
<1>3. ASSUME NEW t \in S
      PROVE  /\ t = <<t[1], t[2]>> /\ t[1] \in DOMAIN c /\ t[2] \in 1 .. Len(c[t[1]].rows)
             /\ Live(c, t[1], t[2])
  <2>0. PICK p \in DOMAIN c : \E n \in 1 .. Len(c[p].rows) : t = <<p, n>> /\ Live(c, p, n)
    BY <1>2, LiveSlotsAre
  <2>1. PICK n \in 1 .. Len(c[p].rows) : t = <<p, n>> /\ Live(c, p, n)
    BY <2>0
  <2>2. t[1] = p /\ t[2] = n
    BY <2>1
  <2>. QED BY <2>1, <2>2
<1>4. ASSUME NEW t \in S PROVE \E m \in T : For(t, m)
  BY <1>3, LiveStands
<1>. HIDE DEF S
<1>5. \A t \in S : f[t] \in T /\ For(t, f[t])
  BY <1>4
<1>6. f \in [S -> T]
  BY <1>5
<1>7. ASSUME NEW s \in S, NEW t \in S, f[s] = f[t] PROVE s = t
  <2>1. f[s] \in T /\ For(s, f[s]) /\ For(t, f[s])
    BY <1>5, <1>7
  <2>. HIDE DEF f
  <2>2. f[s] \in 1 .. Len(log)
    BY <2>1
  <2>3. s[1] = t[1] /\ s[2] = t[2]
    BY <1>3, <2>1, <2>2, OneStands
  <2>. QED BY <1>3, <2>3
<1>8. ASSUME NEW m \in T PROVE \E s \in S : f[s] = m
  <2>0. PICK p \in DOMAIN c : \E n \in 1 .. Len(c[p].rows) : Live(c, p, n) /\ Stands(c, p, n, m)
    BY LeftStands
  <2>1. PICK n \in 1 .. Len(c[p].rows) : Live(c, p, n) /\ Stands(c, p, n, m)
    BY <2>0
  <2>2. PICK s : s = <<p, n>>
    OBVIOUS
  <2>3. s \in S /\ s[1] = p /\ s[2] = n
    BY <1>2, <2>1, <2>2, LiveSlotsAre DEF S
  <2>4. f[s] \in T /\ Stands(c, p, n, f[s])
    BY <1>5, <2>3
  <2>. HIDE DEF f
  <2>5. f[s] = m
    BY <2>1, <2>4, StandsForOne
  <2>. QED BY <2>3, <2>5
<1>. HIDE DEF f, T
<1>9. Cardinality(S) = Cardinality(T)
  BY <1>1, <1>6, <1>7, <1>8, OneToOne
<1>. QED BY <1>0, <1>9 DEF S

(* Without failed statements every transaction of the log has ended when     *)
(* none runs, and none has changed another's rows before it had.             *)
LEMMA NothingOpen ==
  ASSUME TypeInv, TableInv, LiveCore, phase = "idle", RowIdsDistinct
  PROVE  AllFinished /\ NoDirtyWrite
<1>1. Sole /\ Closed /\ Buys(log)
  BY DEF LiveCore, Origins
<1>2. DOMAIN log = 1 .. Len(log) /\ Len(log) \in Nat /\ durable = Len(log)
  BY <1>1, LenProperties DEF TypeInv, TypeOK, Sole
<1>3. \A x, k : Marked(x, k) <=> Ended(log, x, k)
  BY MarkedIs
<1>4. \A i \in 1 .. Len(log) : Finished(log, i)
  BY <1>1, <1>2 DEF Closed, Normal
<1>5. AllFinished
  BY <1>2, <1>3, <1>4 DEF AllFinished, Finished, Done
<1>6. ASSUME NEW i \in 1 .. Len(log), NEW j \in 1 .. Len(log), Supersedes(j, i)
      PROVE  Ended(log, log[i].txn, "commit")
  <2>1. Bought(log, j) /\ log[j].kind \in {"update", "delete"} /\ Creates(i)
    BY <1>1, <1>6 DEF Buys, Supersedes
  <2>2. PICK m \in 1 .. j - 1, k \in 1 .. j - 1 :
          /\ MadeOn(log, m, log[j].page) /\ log[m].after.id = log[j].before.id
          /\ log[k].kind = "commit" /\ log[k].txn = log[m].txn
    BY <2>1 DEF Bought
  <2>3. m \in 1 .. Len(log) /\ k \in 1 .. Len(log)
    BY <1>2
  <2>4. Creates(m) /\ log[m].after.id = log[i].after.id
    BY <1>6, <2>2 DEF Creates, Supersedes, MadeOn, Makes
  <2>5. m = i
    BY <1>2, <2>1, <2>3, <2>4 DEF RowIdsDistinct
  <2>. QED BY <2>2, <2>3, <2>5 DEF Ended
<1>7. NoDirtyWrite
  BY <1>2, <1>3, <1>6 DEF NoDirtyWrite
<1>. QED BY <1>5, <1>7

(* The invariants give LiveRowsCounted.                                      *)
LEMMA LiveCounts ==
  ASSUME TypeInv, LsnInv, UndoInv, lost_flags = 0 => TableInv /\ LiveInv PROVE LiveRowsCounted
<1>. SUFFICES ASSUME phase = "idle", throws = 0, lost_flags = 0, RowIdsDistinct
              PROVE  mt.live_rows = Cardinality(LiveSlots(get_table_data, DOMAIN get_table_data)) % Counter
  BY DEF LiveRowsCounted
<1>1. LiveCore
  BY DEF LiveInv
<1>2. AllFinished /\ NoDirtyWrite
  BY <1>1, NothingOpen
<1>3. PICK c : c = get_table_data
  OBVIOUS
<1>4. Settled(c)
  BY <1>2, <1>3, TableSettled
<1>5. Cardinality(LiveSlots(c, DOMAIN c)) = Cardinality(Kept(log, NoTxn))
  BY <1>4, SettledSize
<1>6. History(log) /\ txn = NoTxn /\ MetaNow /\ phase \in Normal
  BY <1>1 DEF TableInv, Ends, LiveCore, Normal
<1>7. Fine(log)
  BY <1>2, <1>6, LogIsFine
<1>8. mt.live_rows = Cardinality(Kept(log, NoTxn)) % Counter
  BY <1>6, <1>7 DEF MetaNow, Num
<1>. QED BY <1>3, <1>5, <1>8

(* The counter of a table's rows is right: in every state between statements *)
(* of a history without failed statements, without reused row ids and        *)
(* without an OBSOLETE flag that update_row lost in memory it had freed, the *)
(* live_rows of the metadata in memory is, in the width of the counter, the  *)
(* number of rows that are live in the pages get_table_data returns,         *)
(* whatever crashes, also inside redo and undo, restarts, undone statements  *)
(* and evictions of clean pages came before: the images of the metadata in   *)
(* the log, of which redo repeats the last and undo restores the oldest,     *)
(* keep up with the rows (make_row, update_row, delete_rows,                 *)
(* UpdateTableRecord, make_clr, hydrate).  The condition on the constant is  *)
(* that of TableMatchesLogHolds.                                             *)
THEOREM LiveRowsCountedHolds ==
  ASSUME Evictions # "any"
  PROVE  Spec => []LiveRowsCounted
BY LiveInvHolds, LiveCounts, PTL

=============================================================================
