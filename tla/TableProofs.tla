---------------------------- MODULE TableProofs ----------------------------
(* Proofs about the rows of Storage: for every number of pages, values,      *)
(* transactions, crashes (also inside recovery), restarts and failing        *)
(* statements, the pages of the table hold what the committed statements of  *)
(* the log left in it.                                                       *)
EXTENDS UndoProofs, FunctionTheorems, FiniteSetTheorems

-----------------------------------------------------------------------------
(* The log as a table's history                                            *)

(* Record i of lg is about a row of page p; it adds a version of a row; j    *)
(* replaces or deletes the version that i added.                             *)
RowRec(lg, i, p) == lg[i].kind \in DataKinds /\ lg[i].page = p
Makes(lg, i) == lg[i].kind \in {"insert", "update"}
MadeOn(lg, i, p) == Makes(lg, i) /\ lg[i].page = p
Replaces(lg, j, i) == /\ lg[j].kind \in {"update", "delete"} /\ Makes(lg, i)
                      /\ lg[j].before.id = lg[i].after.id

(* Transaction x has an end of this kind in lg; record i's has committed.    *)
Ended(lg, x, kind) == \E k \in 1 .. Len(lg) : lg[k].kind = kind /\ lg[k].txn = x
Done(lg, i) == Ended(lg, lg[i].txn, "commit")

(* What TableMatchesLog supposes, so that every prefix of the log has it: no *)
(* row id is used twice, and a row is only changed after the transaction     *)
(* that wrote it has committed.                                              *)
IdsDistinct(lg) ==
  \A i, j \in 1 .. Len(lg) :
    Makes(lg, i) /\ Makes(lg, j) /\ lg[i].after.id = lg[j].after.id => i = j
OnCommitted(lg) ==
  \A i, j \in 1 .. Len(lg) : Replaces(lg, j, i) =>
    i < j /\ \E k \in 1 .. j - 1 : lg[k].kind = "commit" /\ lg[k].txn = lg[i].txn
Fine(lg) == IdsDistinct(lg) /\ OnCommitted(lg)

(* lg2 continues lg                                                          *)
Grown(lg, lg2) == Len(lg) <= Len(lg2) /\ \A i \in 1 .. Len(lg) : lg2[i] = lg[i]

(* A new version is not obsolete.                                            *)
BornLive(lg) == \A i \in 1 .. Len(lg) : Makes(lg, i) => lg[i].after.obsolete = FALSE

-----------------------------------------------------------------------------
(* What the rows of a page are, given a log                                *)

(* Some row has id d; no two rows have the same id.                          *)
Has(rows, d) == \E n \in 1 .. Len(rows) : rows[n].id = d
Once(rows) == \A m, n \in 1 .. Len(rows) : rows[m].id = rows[n].id => m = n

(* Every row of the page was added to it by one of the first m records.      *)
KnownBy(lg, m, rows, p) ==
  \A n \in 1 .. Len(rows) :
    \E i \in 1 .. m : MadeOn(lg, i, p) /\ lg[i].after.id = rows[n].id

(* Record j's change of an older version is in rows: the deletes that are    *)
(* are those in S, an update's new version is there or not.                  *)
Applied(lg, S, rows, j) ==
  IF lg[j].kind = "delete" THEN j \in S
  ELSE lg[j].kind = "update" /\ Has(rows, lg[j].after.id)

(* A version is obsolete when it was replaced, or inserted and undone; the   *)
(* undo of an update keeps the new version, with the old values.             *)
Versions(lg, S, U, rows, p) ==
  \A n \in 1 .. Len(rows), i \in 1 .. Len(lg) :
    MadeOn(lg, i, p) /\ lg[i].after.id = rows[n].id =>
      /\ rows[n].obsolete <=> \/ \E j \in 1 .. Len(lg) : Replaces(lg, j, i) /\ Applied(lg, S, rows, j)
                              \/ lg[i].kind = "insert" /\ i \in U
      /\ rows[n].val = IF lg[i].kind = "update" /\ i \in U THEN lg[i].before.val
                                                           ELSE lg[i].after.val

(* A replaced version is there, and what replaced it is the last to do so.   *)
LastWins(lg, S, rows) ==
  \A i, j \in 1 .. Len(lg) : Replaces(lg, j, i) /\ Applied(lg, S, rows, j) =>
    /\ Has(rows, lg[i].after.id)
    /\ \A k \in 1 .. Len(lg) : Replaces(lg, k, i) => k <= j

(* The versions that the records in S added are there.                       *)
Present(lg, S, rows) == \A j \in S : Makes(lg, j) => Has(rows, lg[j].after.id)

(* rows are those of page p once the records in S have been applied to it    *)
(* and the ones in U undone; rows of failed statements may be there too.     *)
Content(lg, S, U, rows, p) ==
  /\ Once(rows) /\ Versions(lg, S, U, rows, p)
  /\ LastWins(lg, S, rows) /\ Present(lg, S, rows)

(* rows2 is rows with the change of record r; with its change undone         *)
Applies(r, rows, rows2) ==
  /\ rows2 \in Seq(Row)
  /\ Len(rows2) = IF r.kind = "delete" THEN Len(rows) ELSE Len(rows) + 1
  /\ \A n \in 1 .. Len(rows) :
       /\ rows2[n].id = rows[n].id /\ rows2[n].val = rows[n].val
       /\ rows2[n].obsolete <=> \/ r.kind # "insert" /\ rows[n].id = r.before.id
                                \/ rows[n].obsolete
  /\ r.kind # "delete" => rows2[Len(rows) + 1] = r.after
Undoes(r, rows, rows2) ==
  /\ rows2 \in Seq(Row) /\ Len(rows2) = Len(rows)
  /\ \A n \in 1 .. Len(rows) :
       /\ rows2[n].id = rows[n].id
       /\ rows2[n].val = IF r.kind = "update" /\ rows[n].id = r.after.id THEN r.before.val
                         ELSE rows[n].val
       /\ rows2[n].obsolete <=>
            CASE r.kind = "insert" -> rows[n].id = r.after.id \/ rows[n].obsolete
              [] r.kind = "update" -> rows[n].id # r.after.id /\ rows[n].obsolete
              [] r.kind = "delete" -> rows[n].id # r.before.id /\ rows[n].obsolete

(* Fields of the rows of a page.                                             *)
LEMMA RowFields ==
  ASSUME NEW rows \in Seq(Row)
  PROVE  /\ Len(rows) \in Nat /\ DOMAIN rows = 1 .. Len(rows)
         /\ \A n \in 1 .. Len(rows) : /\ rows[n] \in Row /\ rows[n].id \in Nat
                                      /\ rows[n].val \in Vals /\ rows[n].obsolete \in BOOLEAN
<1>1. Len(rows) \in Nat /\ DOMAIN rows = 1 .. Len(rows)
  BY LenProperties
<1>2. \A n \in 1 .. Len(rows) : rows[n] \in Row
  BY ElementOfSeq
<1>. QED BY <1>1, <1>2 DEF Row

(* The loops with the flag they set.                                         *)
Flagged(rows, d) == FlagFirst(rows, d, TRUE)
Unflagged(rows, d) == FlagFirst(rows, d, FALSE)

(* With one row per id, the loops that look for the first row with an id     *)
(* change the one that has it (redo, undo_record).                           *)
LEMMA FlagShape ==
  ASSUME NEW rows \in Seq(Row), Once(rows), NEW d
  PROVE  /\ Flagged(rows, d) \in Seq(Row) /\ Len(Flagged(rows, d)) = Len(rows)
         /\ Unflagged(rows, d) \in Seq(Row) /\ Len(Unflagged(rows, d)) = Len(rows)
         /\ \A n \in 1 .. Len(rows) :
              /\ Flagged(rows, d)[n].id = rows[n].id
              /\ Flagged(rows, d)[n].val = rows[n].val
              /\ Flagged(rows, d)[n].obsolete <=> (rows[n].id = d \/ rows[n].obsolete)
              /\ Unflagged(rows, d)[n].id = rows[n].id
              /\ Unflagged(rows, d)[n].val = rows[n].val
              /\ Unflagged(rows, d)[n].obsolete <=> (rows[n].id # d /\ rows[n].obsolete)
<1>1. /\ Len(rows) \in Nat /\ DOMAIN rows = 1 .. Len(rows)
      /\ \A n \in 1 .. Len(rows) : rows[n] \in Row
  BY RowFields
<1>2. ASSUME NEW n \in 1 .. Len(rows), rows[n].id = d
      PROVE  \A j \in 1 .. n - 1 : rows[j].id # d
  BY <1>1, <1>2 DEF Once
<1>3. ASSUME NEW n \in 1 .. Len(rows)
      PROVE  /\ Flagged(rows, d)[n] =
                  IF rows[n].id = d THEN [rows[n] EXCEPT !.obsolete = TRUE] ELSE rows[n]
             /\ Unflagged(rows, d)[n] =
                  IF rows[n].id = d THEN [rows[n] EXCEPT !.obsolete = FALSE] ELSE rows[n]
  BY <1>1, <1>2 DEF FlagFirst, Flagged, Unflagged
<1>4. ASSUME NEW n \in 1 .. Len(rows)
      PROVE  /\ [rows[n] EXCEPT !.obsolete = TRUE].id = rows[n].id
             /\ [rows[n] EXCEPT !.obsolete = TRUE].val = rows[n].val
             /\ [rows[n] EXCEPT !.obsolete = TRUE].obsolete = TRUE
             /\ [rows[n] EXCEPT !.obsolete = FALSE].id = rows[n].id
             /\ [rows[n] EXCEPT !.obsolete = FALSE].val = rows[n].val
             /\ [rows[n] EXCEPT !.obsolete = FALSE].obsolete = FALSE
  BY <1>1 DEF Row
<1>5. ASSUME NEW b \in BOOLEAN, NEW v \in Vals
      PROVE  FlagFirst(rows, d, b) \in Seq(Row) /\ Len(FlagFirst(rows, d, b)) = Len(rows)
  BY RowsType
<1>6. CASE Len(rows) = 0
  <2>1. Flagged(rows, d) = rows /\ Unflagged(rows, d) = rows
    BY <1>1, <1>6 DEF Flagged, Unflagged, FlagFirst
  <2>. QED BY <1>1, <1>6, <2>1
<1>7. CASE Len(rows) # 0
  <2>1. rows[1].val \in Vals
    BY <1>1, <1>7 DEF Row
  <2>2. /\ Flagged(rows, d) \in Seq(Row) /\ Len(Flagged(rows, d)) = Len(rows)
        /\ Unflagged(rows, d) \in Seq(Row) /\ Len(Unflagged(rows, d)) = Len(rows)
    BY <1>5, <2>1 DEF Flagged, Unflagged
  <2>. QED BY <1>3, <1>4, <2>2
<1>. QED BY <1>1, <1>6, <1>7

(* The same for the loop that restores a row's values.                       *)
LEMMA RestoreShape ==
  ASSUME NEW rows \in Seq(Row), Once(rows), NEW d, NEW v \in Vals
  PROVE  \A n \in 1 .. Len(rows) :
           /\ RestoreFirst(rows, d, v)[n].id = rows[n].id
           /\ RestoreFirst(rows, d, v)[n].val = IF rows[n].id = d THEN v ELSE rows[n].val
           /\ RestoreFirst(rows, d, v)[n].obsolete <=> (rows[n].id # d /\ rows[n].obsolete)
<1>1. /\ Len(rows) \in Nat /\ DOMAIN rows = 1 .. Len(rows)
      /\ \A n \in 1 .. Len(rows) : rows[n] \in Row
  BY RowFields
<1>2. ASSUME NEW n \in 1 .. Len(rows), rows[n].id = d
      PROVE  \A j \in 1 .. n - 1 : rows[j].id # d
  BY <1>1, <1>2 DEF Once
<1>3. ASSUME NEW n \in 1 .. Len(rows)
      PROVE  RestoreFirst(rows, d, v)[n] =
               IF rows[n].id = d THEN [rows[n] EXCEPT !.obsolete = FALSE, !.val = v] ELSE rows[n]
  BY <1>1, <1>2 DEF RestoreFirst
<1>4. ASSUME NEW n \in 1 .. Len(rows)
      PROVE  /\ [rows[n] EXCEPT !.obsolete = FALSE, !.val = v].id = rows[n].id
             /\ [rows[n] EXCEPT !.obsolete = FALSE, !.val = v].val = v
             /\ [rows[n] EXCEPT !.obsolete = FALSE, !.val = v].obsolete = FALSE
  BY <1>1 DEF Row
<1>. QED BY <1>3, <1>4

(* redo and undo_record of a row record.                                     *)
LEMMA RecoveredShape ==
  ASSUME NEW r \in Record, r.kind \in DataKinds, NEW rows \in Seq(Row), Once(rows)
  PROVE  Applies(r, rows, RedoRows(r, rows)) /\ Undoes(r, rows, UndoRows(r, rows))
<1>1. r.before \in Row /\ r.after \in Row
  BY RecordFields
<1>2. /\ r.before.id \in Nat /\ r.before.val \in Vals /\ r.after.id \in Nat
      /\ r.after.val \in Vals
  BY <1>1 DEF Row
<1>3. RedoRows(r, rows) \in Seq(Row) /\ UndoRows(r, rows) \in Seq(Row)
  BY RecoveredRowsType
<1>4. Len(rows) \in Nat /\ \A n \in 1 .. Len(rows) : rows[n].obsolete \in BOOLEAN
  BY RowFields
<1> DEFINE FB == Flagged(rows, r.before.id)
           FA == Flagged(rows, r.after.id)
           UB == Unflagged(rows, r.before.id)
           R == RestoreFirst(rows, r.after.id, r.before.val)
<1>5. /\ FB \in Seq(Row) /\ Len(FB) = Len(rows) /\ FA \in Seq(Row) /\ Len(FA) = Len(rows)
      /\ UB \in Seq(Row) /\ Len(UB) = Len(rows)
  BY FlagShape
<1>51. R \in Seq(Row) /\ Len(R) = Len(rows)
  <2>1. TRUE \in BOOLEAN
    OBVIOUS
  <2>. QED BY <1>2, <2>1, RowsType
<1>6. \A n \in 1 .. Len(rows) :
        /\ FB[n].id = rows[n].id /\ FB[n].val = rows[n].val
        /\ FB[n].obsolete <=> (rows[n].id = r.before.id \/ rows[n].obsolete)
  BY FlagShape
<1>7. \A n \in 1 .. Len(rows) :
        /\ FA[n].id = rows[n].id /\ FA[n].val = rows[n].val
        /\ FA[n].obsolete <=> (rows[n].id = r.after.id \/ rows[n].obsolete)
  BY FlagShape
<1>71. \A n \in 1 .. Len(rows) :
        /\ UB[n].id = rows[n].id /\ UB[n].val = rows[n].val
        /\ UB[n].obsolete <=> (rows[n].id # r.before.id /\ rows[n].obsolete)
  BY FlagShape
<1>72. \A n \in 1 .. Len(rows) :
        /\ R[n].id = rows[n].id
        /\ R[n].val = IF rows[n].id = r.after.id THEN r.before.val ELSE rows[n].val
        /\ R[n].obsolete <=> (rows[n].id # r.after.id /\ rows[n].obsolete)
  BY <1>2, RestoreShape
<1>8. CASE r.kind = "insert"
  <2>1. RedoRows(r, rows) = Append(rows, r.after) /\ UndoRows(r, rows) = FA
    BY <1>8 DEF RedoRows, UndoRows, Flagged, Unflagged
  <2>. HIDE DEF FA
  <2>2. Applies(r, rows, RedoRows(r, rows))
    BY <1>1, <1>3, <1>4, <1>8, <2>1, AppendProperties DEF Applies
  <2>3. Undoes(r, rows, UndoRows(r, rows))
    BY <1>3, <1>5, <1>7, <1>8, <2>1 DEF Undoes
  <2>. QED BY <2>2, <2>3
<1>9. CASE r.kind = "update"
  <2>1. RedoRows(r, rows) = Append(FB, r.after) /\ UndoRows(r, rows) = R
    BY <1>9 DEF RedoRows, UndoRows, Flagged, Unflagged
  <2>. HIDE DEF FB, R
  <2>2. Applies(r, rows, RedoRows(r, rows))
    <3>1. /\ Len(RedoRows(r, rows)) = Len(rows) + 1
          /\ \A n \in 1 .. Len(rows) : RedoRows(r, rows)[n] = FB[n]
          /\ RedoRows(r, rows)[Len(rows) + 1] = r.after
      BY <1>1, <1>5, <2>1, AppendProperties
    <3>. QED BY <1>3, <1>4, <1>6, <1>9, <3>1 DEF Applies
  <2>3. Undoes(r, rows, UndoRows(r, rows))
    BY <1>3, <1>51, <1>72, <1>9, <2>1 DEF Undoes
  <2>. QED BY <2>2, <2>3
<1>10. CASE r.kind = "delete"
  <2>1. RedoRows(r, rows) = FB /\ UndoRows(r, rows) = UB
    BY <1>10 DEF RedoRows, UndoRows, Flagged, Unflagged
  <2>. HIDE DEF FB, UB
  <2>2. Applies(r, rows, RedoRows(r, rows))
    BY <1>3, <1>5, <1>6, <1>10, <2>1 DEF Applies
  <2>3. Undoes(r, rows, UndoRows(r, rows))
    BY <1>3, <1>5, <1>71, <1>10, <2>1 DEF Undoes
  <2>. QED BY <2>2, <2>3
<1>. QED BY <1>8, <1>9, <1>10 DEF DataKinds

(* The rows of a page after a record was applied to it.                      *)
LEMMA HasNow ==
  ASSUME NEW r, r.kind \in DataKinds, NEW rows \in Seq(Row), NEW rows2, Applies(r, rows, rows2), NEW d
  PROVE  Has(rows2, d) <=> Has(rows, d) \/ (r.kind # "delete" /\ d = r.after.id)
<1>1. Len(rows) \in Nat
  BY LenProperties
<1>2. CASE r.kind = "delete"
  BY <1>2 DEF Has, Applies
<1>3. CASE r.kind # "delete"
  <2>1. Len(rows2) = Len(rows) + 1 /\ rows2[Len(rows) + 1] = r.after
    BY <1>3 DEF Applies
  <2>2. \A n \in 1 .. Len(rows2) : n \in 1 .. Len(rows) \/ n = Len(rows) + 1
    BY <1>1, <2>1
  <2>3. \A n \in 1 .. Len(rows) : rows2[n].id = rows[n].id /\ n \in 1 .. Len(rows2)
    BY <1>1, <2>1 DEF Applies
  <2>4. Len(rows) + 1 \in 1 .. Len(rows2)
    BY <1>1, <2>1
  <2>. QED BY <1>3, <2>1, <2>2, <2>3, <2>4 DEF Has
<1>. QED BY <1>2, <1>3

(* A record applied to a page whose rows are right for the records before.   *)
LEMMA ApplyRecord ==
  ASSUME NEW lg \in Seq(Record), Fine(lg), BornLive(lg), NEW p, NEW S, NEW U,
         NEW rows \in Seq(Row), NEW rows2, NEW j \in 1 .. Len(lg),
         RowRec(lg, j, p), Content(lg, S, U, rows, p), Applies(lg[j], rows, rows2),
         j \notin U,
         Makes(lg, j) => ~Has(rows, lg[j].after.id),
         \A i \in 1 .. Len(lg) : Replaces(lg, j, i) =>
           /\ Has(rows, lg[i].after.id)
           /\ \A k \in 1 .. Len(lg) : Replaces(lg, k, i) => k <= j /\ ~Applied(lg, S, rows, k)
  PROVE  Content(lg, S \union {j}, U, rows2, p)
<1>1. Len(rows) \in Nat /\ Len(lg) \in Nat
  BY LenProperties
<1>2. lg[j].kind \in {"insert", "update", "delete"}
  BY DEF RowRec, DataKinds
<1>3. \A d : Has(rows2, d) <=> Has(rows, d) \/ (Makes(lg, j) /\ d = lg[j].after.id)
  <2>1. lg[j].kind \in DataKinds
    BY DEF RowRec
  <2>2. ASSUME NEW d
        PROVE  Has(rows2, d) <=> Has(rows, d) \/ (lg[j].kind # "delete" /\ d = lg[j].after.id)
    BY <2>1, HasNow
  <2>. QED BY <1>2, <2>2 DEF Makes
<1>4. \A k \in 1 .. Len(lg) : lg[k].kind \in {"update", "delete"} =>
        (Applied(lg, S \union {j}, rows2, k) <=> Applied(lg, S, rows, k) \/ k = j)
  <2>1. SUFFICES ASSUME NEW k \in 1 .. Len(lg), lg[k].kind \in {"update", "delete"}
                 PROVE  Applied(lg, S \union {j}, rows2, k) <=> Applied(lg, S, rows, k) \/ k = j
    OBVIOUS
  <2>2. CASE lg[k].kind = "delete"
    BY <2>2 DEF Applied
  <2>3. CASE lg[k].kind = "update"
    <3>1. Makes(lg, j) /\ lg[k].after.id = lg[j].after.id <=> k = j
      BY <2>3 DEF Fine, IdsDistinct, Makes
    <3>. QED BY <1>3, <2>3, <3>1 DEF Applied
  <2>. QED BY <2>1, <2>2, <2>3
<1>5. \A k \in 1 .. Len(lg) : Replaces(lg, k, j) => ~Applied(lg, S, rows, k)
  BY DEF Content, LastWins, Replaces
<1>6. \A n \in 1 .. Len(rows2) :
        \/ n \in 1 .. Len(rows)
        \/ n = Len(rows) + 1 /\ Makes(lg, j) /\ rows2[n] = lg[j].after
  <2>1. CASE lg[j].kind = "delete"
    BY <2>1 DEF Applies
  <2>2. CASE lg[j].kind # "delete"
    BY <1>1, <1>2, <2>2 DEF Applies, Makes
  <2>. QED BY <2>1, <2>2
<1>7. Once(rows2)
  <2>1. SUFFICES ASSUME NEW m \in 1 .. Len(rows2), NEW n \in 1 .. Len(rows2),
                        rows2[m].id = rows2[n].id
                 PROVE  m = n
    BY DEF Once
  <2>2. \A i \in 1 .. Len(rows) : rows2[i].id = rows[i].id
    BY DEF Applies
  <2>3. CASE m \in 1 .. Len(rows) /\ n \in 1 .. Len(rows)
    BY <2>1, <2>2, <2>3 DEF Content, Once
  <2>4. CASE m \in 1 .. Len(rows) /\ n = Len(rows) + 1 /\ Makes(lg, j) /\ rows2[n] = lg[j].after
    BY <2>1, <2>2, <2>4 DEF Has
  <2>5. CASE n \in 1 .. Len(rows) /\ m = Len(rows) + 1 /\ Makes(lg, j) /\ rows2[m] = lg[j].after
    BY <2>1, <2>2, <2>5 DEF Has
  <2>. QED BY <1>6, <2>3, <2>4, <2>5
<1>8. Versions(lg, S \union {j}, U, rows2, p)
  <2>1. SUFFICES ASSUME NEW n \in 1 .. Len(rows2), NEW i \in 1 .. Len(lg), MadeOn(lg, i, p),
                        lg[i].after.id = rows2[n].id
                 PROVE  /\ rows2[n].obsolete <=>
                             \/ \E k \in 1 .. Len(lg) :
                                  Replaces(lg, k, i) /\ Applied(lg, S \union {j}, rows2, k)
                             \/ lg[i].kind = "insert" /\ i \in U
                        /\ rows2[n].val = IF lg[i].kind = "update" /\ i \in U
                                            THEN lg[i].before.val ELSE lg[i].after.val
    BY DEF Versions
  <2>2. CASE n \in 1 .. Len(rows)
    <3>1. /\ rows2[n].id = rows[n].id /\ rows2[n].val = rows[n].val
          /\ rows2[n].obsolete <=> \/ lg[j].kind # "insert" /\ rows[n].id = lg[j].before.id
                                   \/ rows[n].obsolete
      BY <2>2 DEF Applies
    <3>2. /\ rows[n].obsolete <=>
               \/ \E k \in 1 .. Len(lg) : Replaces(lg, k, i) /\ Applied(lg, S, rows, k)
               \/ lg[i].kind = "insert" /\ i \in U
          /\ rows[n].val = IF lg[i].kind = "update" /\ i \in U
                             THEN lg[i].before.val ELSE lg[i].after.val
      BY <2>1, <2>2, <3>1 DEF Content, Versions
    <3>3. lg[j].kind # "insert" /\ rows[n].id = lg[j].before.id <=> Replaces(lg, j, i)
      BY <1>2, <2>1, <3>1 DEF Replaces, MadeOn
    <3>4. (\E k \in 1 .. Len(lg) : Replaces(lg, k, i) /\ Applied(lg, S \union {j}, rows2, k))
          <=> \/ \E k \in 1 .. Len(lg) : Replaces(lg, k, i) /\ Applied(lg, S, rows, k)
              \/ Replaces(lg, j, i)
      <4>1. \A k \in 1 .. Len(lg) : Replaces(lg, k, i) =>
              (Applied(lg, S \union {j}, rows2, k) <=> Applied(lg, S, rows, k) \/ k = j)
        BY <1>4 DEF Replaces
      <4>. QED BY <4>1
    <3>. QED BY <3>1, <3>2, <3>3, <3>4
  <2>3. CASE n = Len(rows) + 1 /\ Makes(lg, j) /\ rows2[n] = lg[j].after
    <3>1. i = j
      BY <2>1, <2>3 DEF MadeOn, Fine, IdsDistinct
    <3>2. rows2[n].obsolete = FALSE
      BY <2>3 DEF BornLive
    <3>3. \A k \in 1 .. Len(lg) : Replaces(lg, k, j) => ~Applied(lg, S \union {j}, rows2, k)
      <4>1. SUFFICES ASSUME NEW k \in 1 .. Len(lg), Replaces(lg, k, j)
                     PROVE  ~Applied(lg, S \union {j}, rows2, k)
        OBVIOUS
      <4>2. k # j
        BY <1>1, <4>1 DEF Fine, OnCommitted
      <4>3. lg[k].kind \in {"update", "delete"}
        BY <4>1 DEF Replaces
      <4>. QED BY <1>4, <1>5, <4>1, <4>2, <4>3
    <3>. QED BY <2>3, <3>1, <3>2, <3>3
  <2>. QED BY <1>6, <2>2, <2>3
<1>9. LastWins(lg, S \union {j}, rows2)
  <2>1. SUFFICES ASSUME NEW i \in 1 .. Len(lg), NEW k \in 1 .. Len(lg), Replaces(lg, k, i),
                        Applied(lg, S \union {j}, rows2, k)
                 PROVE  /\ Has(rows2, lg[i].after.id)
                        /\ \A m \in 1 .. Len(lg) : Replaces(lg, m, i) => m <= k
    BY DEF LastWins
  <2>2. Applied(lg, S, rows, k) \/ k = j
    BY <1>4, <2>1 DEF Replaces
  <2>3. CASE k = j
    BY <1>3, <2>1, <2>3
  <2>4. CASE Applied(lg, S, rows, k)
    BY <1>3, <2>1, <2>4 DEF Content, LastWins
  <2>. QED BY <2>2, <2>3, <2>4
<1>10. Present(lg, S \union {j}, rows2)
  BY <1>3 DEF Content, Present
<1>. QED BY <1>7, <1>8, <1>9, <1>10 DEF Content

(* The change of record j undone.                                            *)
LEMMA UndoRecord ==
  ASSUME NEW lg \in Seq(Record), Fine(lg), NEW p, NEW S, NEW U,
         NEW rows \in Seq(Row), NEW rows2, NEW j \in 1 .. Len(lg),
         RowRec(lg, j, p), Content(lg, S, U, rows, p), Undoes(lg[j], rows, rows2),
         \A k \in 1 .. Len(lg) : lg[j].kind = "update" => ~Replaces(lg, k, j),
         \A i \in 1 .. Len(lg) : lg[j].kind = "delete" /\ Replaces(lg, j, i) =>
           /\ i \notin U
           /\ \A k \in 1 .. Len(lg) : Replaces(lg, k, i) => ~Applied(lg, S, rows, k)
  PROVE  Content(lg, S, U \union {j}, rows2, p)
<1>1. Len(rows) \in Nat /\ Len(lg) \in Nat /\ Len(rows2) = Len(rows)
  BY LenProperties DEF Undoes
<1>2. lg[j].kind \in {"insert", "update", "delete"}
  BY DEF RowRec, DataKinds
<1>3. \A n \in 1 .. Len(rows) : rows2[n].id = rows[n].id
  BY DEF Undoes
<1>4. \A d : Has(rows2, d) <=> Has(rows, d)
  BY <1>1, <1>3 DEF Has
<1>5. \A k : Applied(lg, S, rows2, k) <=> Applied(lg, S, rows, k)
  BY <1>4 DEF Applied
<1>6. Once(rows2)
  BY <1>1, <1>3 DEF Once, Content
<1>7. Versions(lg, S, U \union {j}, rows2, p)
  <2>1. SUFFICES ASSUME NEW n \in 1 .. Len(rows), NEW i \in 1 .. Len(lg), MadeOn(lg, i, p),
                        lg[i].after.id = rows[n].id
                 PROVE  /\ rows2[n].obsolete <=>
                             \/ \E k \in 1 .. Len(lg) : Replaces(lg, k, i) /\ Applied(lg, S, rows, k)
                             \/ lg[i].kind = "insert" /\ i \in U \union {j}
                        /\ rows2[n].val = IF lg[i].kind = "update" /\ i \in U \union {j}
                                            THEN lg[i].before.val ELSE lg[i].after.val
    BY <1>1, <1>3, <1>5 DEF Versions
  <2>2. /\ rows[n].obsolete <=>
             \/ \E k \in 1 .. Len(lg) : Replaces(lg, k, i) /\ Applied(lg, S, rows, k)
             \/ lg[i].kind = "insert" /\ i \in U
        /\ rows[n].val = IF lg[i].kind = "update" /\ i \in U
                           THEN lg[i].before.val ELSE lg[i].after.val
    BY <2>1 DEF Content, Versions
  <2>3. /\ rows2[n].val = IF lg[j].kind = "update" /\ rows[n].id = lg[j].after.id
                            THEN lg[j].before.val ELSE rows[n].val
        /\ lg[j].kind = "insert" => (rows2[n].obsolete <=> rows[n].id = lg[j].after.id \/ rows[n].obsolete)
        /\ lg[j].kind = "update" => (rows2[n].obsolete <=> rows[n].id # lg[j].after.id /\ rows[n].obsolete)
        /\ lg[j].kind = "delete" => (rows2[n].obsolete <=> rows[n].id # lg[j].before.id /\ rows[n].obsolete)
    BY DEF Undoes
  <2>4. lg[j].kind # "delete" => (rows[n].id = lg[j].after.id <=> i = j)
    BY <1>2, <2>1 DEF MadeOn, Makes, Fine, IdsDistinct
  <2>5. CASE lg[j].kind = "insert"
    BY <2>2, <2>3, <2>4, <2>5
  <2>6. CASE lg[j].kind = "update"
    BY <2>2, <2>3, <2>4, <2>6
  <2>7. CASE lg[j].kind = "delete"
    <3>1. rows[n].id = lg[j].before.id <=> Replaces(lg, j, i)
      BY <2>1, <2>7 DEF Replaces, MadeOn
    <3>2. i # j
      BY <2>1, <2>7 DEF MadeOn, Makes
    <3>. QED BY <2>2, <2>3, <2>7, <3>1, <3>2
  <2>. QED BY <1>2, <2>5, <2>6, <2>7
<1>8. LastWins(lg, S, rows2) /\ Present(lg, S, rows2)
  BY <1>4, <1>5 DEF Content, LastWins, Present
<1>. QED BY <1>6, <1>7, <1>8 DEF Content

(* A prefix of a log without reuse or dirty writes is one.                   *)
LEMMA GrownFine ==
  ASSUME NEW lg \in Seq(Record), NEW lg2 \in Seq(Record), Grown(lg, lg2), Fine(lg2)
  PROVE  Fine(lg)
<1>1. Len(lg) \in Nat /\ Len(lg2) \in Nat
  BY LenProperties
<1>2. \A i \in 1 .. Len(lg) : i \in 1 .. Len(lg2) /\ lg2[i] = lg[i]
  BY <1>1 DEF Grown
<1>3. IdsDistinct(lg)
  BY <1>2 DEF Fine, IdsDistinct, Makes
<1>4. OnCommitted(lg)
  <2>1. SUFFICES ASSUME NEW i \in 1 .. Len(lg), NEW j \in 1 .. Len(lg), Replaces(lg, j, i)
                 PROVE  i < j /\ \E k \in 1 .. j - 1 : lg[k].kind = "commit" /\ lg[k].txn = lg[i].txn
    BY DEF OnCommitted
  <2>2. Replaces(lg2, j, i)
    BY <1>2, <2>1 DEF Replaces, Makes
  <2>3. i < j /\ \E k \in 1 .. j - 1 : lg2[k].kind = "commit" /\ lg2[k].txn = lg2[i].txn
    BY <1>2, <2>2 DEF Fine, OnCommitted
  <2>4. \A k \in 1 .. j - 1 : lg2[k] = lg[k]
    BY <1>1, <1>2
  <2>. QED BY <1>2, <2>3, <2>4
<1>. QED BY <1>3, <1>4 DEF Fine

(* Rows stay right when the log goes on, unless a new record is about a      *)
(* version that has been replaced in them.                                   *)
LEMMA ContentGrows ==
  ASSUME NEW lg \in Seq(Record), NEW lg2 \in Seq(Record), Grown(lg, lg2), Fine(lg2),
         NEW p, NEW S, NEW U, NEW rows, S \subseteq 1 .. Len(lg),
         Content(lg, S, U, rows, p), KnownBy(lg, Len(lg), rows, p),
         \A m \in 1 .. Len(lg2), i, j \in 1 .. Len(lg) :
           m \notin 1 .. Len(lg) /\ Replaces(lg2, m, i) /\ Replaces(lg, j, i) =>
             ~Applied(lg, S, rows, j)
  PROVE  Content(lg2, S, U, rows, p)
<1>1. Len(lg) \in Nat /\ Len(lg2) \in Nat
  BY LenProperties
<1>2. \A i \in 1 .. Len(lg) : i \in 1 .. Len(lg2) /\ lg2[i] = lg[i]
  BY <1>1 DEF Grown
<1>3. ASSUME NEW i \in 1 .. Len(lg2), Makes(lg2, i), Has(rows, lg2[i].after.id)
      PROVE  i \in 1 .. Len(lg)
  <2>1. PICK n \in 1 .. Len(rows) : rows[n].id = lg2[i].after.id
    BY <1>3 DEF Has
  <2>2. PICK k \in 1 .. Len(lg) : MadeOn(lg, k, p) /\ lg[k].after.id = rows[n].id
    BY DEF KnownBy
  <2>3. Makes(lg2, k) /\ lg2[k].after.id = lg2[i].after.id /\ k \in 1 .. Len(lg2)
    BY <1>2, <2>1, <2>2 DEF MadeOn, Makes
  <2>. QED BY <1>3, <2>3 DEF Fine, IdsDistinct
<1>4. \A j \in 1 .. Len(lg2) :
        Applied(lg2, S, rows, j) <=> j \in 1 .. Len(lg) /\ Applied(lg, S, rows, j)
  <2>1. SUFFICES ASSUME NEW j \in 1 .. Len(lg2)
                 PROVE  Applied(lg2, S, rows, j) <=> j \in 1 .. Len(lg) /\ Applied(lg, S, rows, j)
    OBVIOUS
  <2>2. CASE j \in 1 .. Len(lg)
    BY <1>2, <2>2 DEF Applied
  <2>3. CASE j \notin 1 .. Len(lg)
    BY <1>3, <2>3 DEF Applied, Makes
  <2>. QED BY <2>2, <2>3
<1>5. \A i, j \in 1 .. Len(lg) : Replaces(lg2, j, i) <=> Replaces(lg, j, i)
  BY <1>2 DEF Replaces, Makes
<1>6. Versions(lg2, S, U, rows, p)
  <2>1. SUFFICES ASSUME NEW n \in 1 .. Len(rows), NEW i \in 1 .. Len(lg2), MadeOn(lg2, i, p),
                        lg2[i].after.id = rows[n].id
                 PROVE  /\ rows[n].obsolete <=>
                             \/ \E j \in 1 .. Len(lg2) : Replaces(lg2, j, i) /\ Applied(lg2, S, rows, j)
                             \/ lg2[i].kind = "insert" /\ i \in U
                        /\ rows[n].val = IF lg2[i].kind = "update" /\ i \in U
                                           THEN lg2[i].before.val ELSE lg2[i].after.val
    BY DEF Versions
  <2>2. i \in 1 .. Len(lg)
    BY <1>3, <2>1 DEF MadeOn, Has
  <2>3. lg2[i] = lg[i] /\ MadeOn(lg, i, p)
    BY <1>2, <2>1, <2>2 DEF MadeOn, Makes
  <2>4. /\ rows[n].obsolete <=>
             \/ \E j \in 1 .. Len(lg) : Replaces(lg, j, i) /\ Applied(lg, S, rows, j)
             \/ lg[i].kind = "insert" /\ i \in U
        /\ rows[n].val = IF lg[i].kind = "update" /\ i \in U
                           THEN lg[i].before.val ELSE lg[i].after.val
    BY <2>1, <2>2, <2>3 DEF Content, Versions
  <2>5. (\E j \in 1 .. Len(lg2) : Replaces(lg2, j, i) /\ Applied(lg2, S, rows, j))
        <=> (\E j \in 1 .. Len(lg) : Replaces(lg, j, i) /\ Applied(lg, S, rows, j))
    BY <1>2, <1>4, <1>5, <2>2
  <2>. QED BY <2>3, <2>4, <2>5
<1>7. LastWins(lg2, S, rows)
  <2>1. SUFFICES ASSUME NEW i \in 1 .. Len(lg2), NEW j \in 1 .. Len(lg2), Replaces(lg2, j, i),
                        Applied(lg2, S, rows, j)
                 PROVE  /\ Has(rows, lg2[i].after.id)
                        /\ \A m \in 1 .. Len(lg2) : Replaces(lg2, m, i) => m <= j
    BY DEF LastWins
  <2>2. j \in 1 .. Len(lg) /\ Applied(lg, S, rows, j)
    BY <1>4, <2>1
  <2>3. i < j
    BY <2>1 DEF Fine, OnCommitted
  <2>4. i \in 1 .. Len(lg) /\ Replaces(lg, j, i) /\ lg2[i] = lg[i]
    BY <1>1, <1>2, <1>5, <2>1, <2>2, <2>3
  <2>5. /\ Has(rows, lg[i].after.id)
        /\ \A m \in 1 .. Len(lg) : Replaces(lg, m, i) => m <= j
    BY <2>2, <2>4 DEF Content, LastWins
  <2>6. ASSUME NEW m \in 1 .. Len(lg2), Replaces(lg2, m, i) PROVE m <= j
    <3>1. m \in 1 .. Len(lg)
      BY <2>2, <2>4, <2>6
    <3>. QED BY <1>5, <2>4, <2>5, <2>6, <3>1
  <2>. QED BY <2>4, <2>5, <2>6
<1>8. Present(lg2, S, rows)
  BY <1>2 DEF Content, Present, Makes
<1>. QED BY <1>6, <1>7, <1>8 DEF Content

(* A failed statement's inserts and updates need not be there.               *)
LEMMA ContentShrinks ==
  ASSUME NEW lg, NEW p, NEW S, NEW T, NEW U, NEW rows, Content(lg, S, U, rows, p), T \subseteq S,
         \A j \in S \ T : lg[j].kind # "delete"
  PROVE  Content(lg, T, U, rows, p)
<1>1. \A j : Applied(lg, T, rows, j) <=> Applied(lg, S, rows, j)
  BY DEF Applied
<1>. QED BY <1>1 DEF Content, Versions, LastWins, Present

-----------------------------------------------------------------------------
(* The shape of steps                                                      *)

(* The log gets record r; r and the table's metadata.                        *)
Adds(r) ==
  /\ log' \in Seq(Record) /\ Len(log') = Len(log) + 1 /\ Grown(log, log')
  /\ log'[Len(log) + 1] = r
AddsPair(r) ==
  /\ log' \in Seq(Record) /\ Len(log') = Len(log) + 2 /\ Grown(log, log')
  /\ log'[Len(log) + 1] = r
  /\ log'[Len(log) + 2].kind = "update_table" /\ log'[Len(log) + 2].txn = r.txn

(* Page p is in the list.                                                    *)
Lists(pgs, p) == \E k \in 1 .. Len(pgs) : pgs[k] = p

(* c is the cache after pages were read, or a new one was made               *)
(* (get_table_data, prepare_dp); pgs are then the pages of the table, dty    *)
(* the dirty ones.                                                           *)
SamePage(pg, pg2) == pg.rows = pg2.rows /\ pg.last_lsn = pg2.last_lsn
NewIn(c, q) ==
  /\ q \notin DOMAIN disk /\ c[q].rows = <<>> /\ c[q].last_lsn = 0
  /\ \A i \in 1 .. Len(log) : log[i].kind \in DataKinds => log[i].page # q
Loads(c, pgs, dty) ==
  /\ PageMap(c) /\ DOMAIN cache \subseteq DOMAIN c /\ dirty \subseteq dty
  /\ \A q \in DOMAIN cache : SamePage(c[q], cache[q])
  /\ \A q \in DOMAIN c \ DOMAIN cache :
       (q \in DOMAIN disk /\ SamePage(c[q], disk[q])) \/ NewIn(c, q)
  /\ \A q : Lists(pages, q) => Lists(pgs, q)
  /\ \A q \in DOMAIN c \ DOMAIN cache : Lists(pgs, q)

(* get_table_data reads pages of the table.                                  *)
LEMMA TableLoads == ASSUME TypeInv PROVE Loads(get_table_data, pages, dirty)
<1>1. PageMap(cache) /\ PageMap(disk) /\ DOMAIN pages = 1 .. Len(pages)
  BY LenProperties DEF TypeInv, TypeOK, PageMap
<1>2. /\ PageMap(get_table_data)
      /\ DOMAIN cache \subseteq DOMAIN get_table_data
      /\ \A p \in DOMAIN cache : get_table_data[p] = cache[p]
      /\ \A p \in DOMAIN get_table_data \ DOMAIN cache :
           p \in DOMAIN disk /\ get_table_data[p] = disk[p]
  BY <1>1, TableDataType
<1>3. \A q \in DOMAIN get_table_data \ DOMAIN cache : Lists(pages, q)
  BY <1>1 DEF get_table_data, Lists
<1>. QED BY <1>2, <1>3 DEF Loads, SamePage

(* A new page that is in neither the list of pages nor the cache.            *)
LEMMA PutLoads ==
  ASSUME TypeInv, NEW c, PageMap(c), Loads(c, pages, dirty), NEW p \in Pages, p \notin DOMAIN cache,
         p \notin DOMAIN disk, \A i \in 1 .. Len(log) : log[i].kind \in DataKinds => log[i].page # p,
         NEW dty, dirty \subseteq dty
  PROVE  /\ Loads(Put(c, p, NewPage), Append(pages, p), dty)
         /\ p \in DOMAIN Put(c, p, NewPage)
<1> DEFINE e == Put(c, p, NewPage)
           s == Append(pages, p)
<1>1. NewPage \in Page /\ NewPage.last_lsn = 0 /\ NewPage.rows = <<>>
  BY DEF NewPage, Page
<1>2. /\ PageMap(e) /\ DOMAIN e = DOMAIN c \union {p} /\ e[p] = NewPage
      /\ \A q \in DOMAIN c \ {p} : e[q] = c[q]
  <2>1. /\ PageMap(Put(c, p, NewPage)) /\ DOMAIN Put(c, p, NewPage) = DOMAIN c \union {p}
        /\ Put(c, p, NewPage)[p] = NewPage
        /\ \A q \in DOMAIN c \ {p} : Put(c, p, NewPage)[q] = c[q]
    BY <1>1, PutType
  <2>. QED BY <2>1
<1>3. /\ Len(s) = Len(pages) + 1 /\ Len(pages) \in Nat
      /\ \A i \in 1 .. Len(pages) : s[i] = pages[i]
      /\ s[Len(pages) + 1] = p
  BY AppendProperties, LenProperties DEF TypeInv, TypeOK
<1>4. \A q : Lists(pages, q) => Lists(s, q)
  BY <1>3 DEF Lists
<1>5. Lists(s, p)
  BY <1>3 DEF Lists
<1>. HIDE DEF e, s
<1>6. NewIn(e, p)
  BY <1>1, <1>2 DEF NewIn
<1>7. \A q \in DOMAIN cache : SamePage(e[q], cache[q])
  BY <1>2 DEF Loads, SamePage
<1>8. ASSUME NEW q \in DOMAIN e \ DOMAIN cache
      PROVE  /\ (q \in DOMAIN disk /\ SamePage(e[q], disk[q])) \/ NewIn(e, q)
             /\ Lists(s, q)
  <2>1. CASE q = p
    BY <1>5, <1>6, <2>1
  <2>2. CASE q # p
    <3>1. q \in DOMAIN c \ DOMAIN cache /\ e[q] = c[q]
      BY <1>2, <1>8, <2>2
    <3>2. (q \in DOMAIN disk /\ SamePage(c[q], disk[q])) \/ NewIn(c, q)
      BY <3>1 DEF Loads
    <3>. QED BY <1>4, <3>1, <3>2 DEF Loads, NewIn
  <2>. QED BY <2>1, <2>2
<1>9. DOMAIN cache \subseteq DOMAIN e
  BY <1>2 DEF Loads
<1>. QED BY <1>2, <1>4, <1>7, <1>8, <1>9 DEF Loads, e, s

(* prepare_dp and the linking of a new page.                                 *)
LEMMA PrepareLoads ==
  ASSUME TypeInv, \A q \in DOMAIN cache : Lists(pages, q), NEW p \in Pages, MayPrepare(p)
  PROVE  LET d == PrepareDp(p)
         IN  Loads(d.cache, d.pages, d.dirty) /\ p \in DOMAIN d.cache
<1> DEFINE c == get_table_data
           q == pages[TailPos(c)]
<1>0. /\ Loads(c, pages, dirty) /\ PageMap(cache) /\ PageMap(disk) /\ DOMAIN log = 1 .. Len(log)
      /\ DOMAIN pages = 1 .. Len(pages) /\ pages \in Seq(Pages)
  BY TableLoads, LenProperties DEF TypeInv, TypeOK, PageMap
<1>1. PageMap(c)
  BY <1>0 DEF Loads
<1>. HIDE DEF c
<1>2. CASE WithRoom(c) # {}
  <2>1. PrepareDp(p) = [cache |-> c, pages |-> pages, dirty |-> dirty]
    BY <1>2 DEF PrepareDp, c
  <2>2. WithRoom(c) \subseteq Nat
    BY <1>0 DEF WithRoom, Loaded
  <2>3. p = pages[First(WithRoom(c))] /\ First(WithRoom(c)) \in WithRoom(c)
    BY <1>2, <2>2, FirstIn DEF MayPrepare, c
  <2>4. p \in DOMAIN c
    BY <2>3 DEF WithRoom, Loaded
  <2>. QED BY <1>0, <2>1, <2>4
<1>3. ASSUME WithRoom(c) = {}
      PROVE  /\ p \notin DOMAIN disk /\ p \notin DOMAIN cache
             /\ \A i \in 1 .. Len(log) : log[i].kind \in DataKinds => log[i].page # p
  BY <1>0, <1>3 DEF MayPrepare, c, Lists
<1>5. CASE WithRoom(c) = {} /\ Tails(c) = {}
  <2>1. PrepareDp(p) = [cache |-> Put(c, p, NewPage), pages |-> Append(pages, p), dirty |-> dirty]
    BY <1>5 DEF PrepareDp, c
  <2>2. Loads(Put(c, p, NewPage), Append(pages, p), dirty) /\ p \in DOMAIN Put(c, p, NewPage)
    BY <1>0, <1>1, <1>3, <1>5, PutLoads
  <2>. QED BY <2>1, <2>2
<1>6. CASE WithRoom(c) = {} /\ Tails(c) # {}
  <2> DEFINE e == [c EXCEPT ![q].next = p]
  <2>1. PrepareDp(p) = [cache |-> Put(e, p, NewPage), pages |-> Append(pages, p),
                        dirty |-> dirty \union {q}]
    BY <1>6 DEF PrepareDp, c
  <2>3. q \in DOMAIN c
    BY <1>0, <1>1, <1>6, TailPosIn DEF Tails, Loaded
  <2>. HIDE DEF q
  <2>4. PageMap(e) /\ DOMAIN e = DOMAIN c /\ \A s \in DOMAIN c : SamePage(e[s], c[s])
    BY <1>1, <2>3 DEF PageMap, Page, SamePage
  <2>. HIDE DEF e
  <2>5. Loads(e, pages, dirty)
    BY <1>0, <2>4 DEF Loads, SamePage, NewIn
  <2>6. /\ Loads(Put(e, p, NewPage), Append(pages, p), dirty \union {q})
        /\ p \in DOMAIN Put(e, p, NewPage)
    BY <1>3, <1>6, <2>4, <2>5, PutLoads
  <2>. QED BY <2>1, <2>6
<1>. QED BY <1>2, <1>5, <1>6

(* A begin or commit record.                                                 *)
LEMMA MarkAdds ==
  ASSUME TypeInv, NEW x \in Txns, NEW k \in {"begin", "commit"}, log' = LogMark(log, x, k)
  PROVE  \E r \in Record : Adds(r) /\ r.kind = k /\ r.txn = x
<1> DEFINE l == LastLsn(x, log)
           r == [kind |-> k, txn |-> x, prev |-> l]
<1>1. l \in Nat /\ log \in Seq(Record) /\ Len(log) \in Nat
  BY LastLsnType, LenProperties DEF TypeInv, TypeOK
<1>2. log' = Append(log, r)
  BY DEF LogMark
<1>. HIDE DEF l
<1>3. r \in Record /\ r.kind = k /\ r.txn = x
  BY <1>1 DEF Record
<1>. HIDE DEF r
<1>4. Adds(r)
  BY <1>1, <1>2, <1>3, AppendProperties DEF Adds, Grown
<1>. QED BY <1>3, <1>4

(* The records of a row and of the table.                                    *)
LEMMA PairAdds ==
  ASSUME TypeInv, NEW x \in Txns, NEW k \in DataKinds, NEW p \in Pages, NEW b \in Row, NEW a \in Row,
         NEW tb \in MetaTable, NEW ta \in MetaTable,
         log' = LogTable(LogRow(log, x, k, p, b, a), x, tb, ta)
  PROVE  \E r \in Record : /\ AddsPair(r) /\ r.kind = k /\ r.txn = x /\ r.page = p
                           /\ r.before = b /\ r.after = a
<1> DEFINE m == LogRow(log, x, k, p, b, a)
           l == LastLsn(x, log)
           r == [kind |-> k, txn |-> x, prev |-> l, page |-> p, before |-> b, after |-> a]
           l2 == LastLsn(x, m)
           u == [kind |-> "update_table", txn |-> x, prev |-> l2, before |-> tb, after |-> ta]
<1>1. l \in Nat /\ log \in Seq(Record) /\ Len(log) \in Nat
  BY LastLsnType, LenProperties DEF TypeInv, TypeOK
<1>2. m = Append(log, r)
  BY DEF LogRow
<1>3. log' = Append(m, u)
  BY DEF LogTable
<1>. HIDE DEF l
<1>4. /\ r \in Record /\ r.kind = k /\ r.txn = x /\ r.page = p /\ r.before = b /\ r.after = a
  BY <1>1 DEF Record, DataKinds
<1>. HIDE DEF r
<1>5. m \in Seq(Record) /\ Len(m) = Len(log) + 1 /\ m[Len(log) + 1] = r
      /\ \A i \in 1 .. Len(log) : m[i] = log[i]
  BY <1>1, <1>2, <1>4, AppendProperties
<1>. HIDE DEF m
<1>6. l2 \in Nat
  BY <1>5, LastLsnType, LenProperties
<1>. HIDE DEF l2
<1>7. u \in Record /\ u.kind = "update_table" /\ u.txn = x
  BY <1>6 DEF Record
<1>. HIDE DEF u
<1>8. /\ log' \in Seq(Record) /\ Len(log') = Len(m) + 1 /\ log'[Len(m) + 1] = u
      /\ \A i \in 1 .. Len(m) : log'[i] = m[i]
  BY <1>3, <1>5, <1>7, AppendProperties
<1>9. AddsPair(r)
  <2>1. Len(log') = Len(log) + 2 /\ log'[Len(log) + 2] = u
    BY <1>1, <1>5, <1>8
  <2>2. log'[Len(log) + 1] = r
    BY <1>1, <1>5, <1>8
  <2>3. Grown(log, log')
    BY <1>1, <1>5, <1>8, <2>1 DEF Grown
  <2>. QED BY <1>4, <1>7, <1>8, <2>1, <2>2, <2>3 DEF AddsPair
<1>. QED BY <1>4, <1>9

(* The rows an UPDATE or DELETE is yet to visit are current versions, made   *)
(* by other transactions.                                                    *)
Tasks ==
  \A t \in todo :
    /\ t = <<t[1], t[2]>> /\ ~RowAt(cache, t).obsolete
    /\ \E i \in 1 .. Len(log) : /\ MadeOn(log, i, t[1]) /\ log[i].txn # txn
                                /\ log[i].after.id = RowAt(cache, t).id

(* One row of a statement: record r is logged for page p of cache c, and     *)
(* applied to it; the statement goes on or fails.                            *)
Works(c, p, r) ==
  /\ phase \in InStatement /\ txn \in Txns
  /\ Loads(c, pages', dirty') /\ p \in DOMAIN c
  /\ r \in Record /\ AddsPair(r) /\ r.kind = phase /\ r.page = p /\ r.txn = txn
  /\ DOMAIN cache' = DOMAIN c /\ \A q \in DOMAIN c \ {p} : SamePage(cache'[q], c[q])
  /\ Once(c[p].rows) => Applies(r, c[p].rows, cache'[p].rows)
  /\ \A d : Has(cache'[p].rows, d) <=> Has(c[p].rows, d) \/ (r.kind # "delete" /\ d = r.after.id)
  /\ r.kind # "delete" => r.after.obsolete = FALSE
  /\ r.kind # "insert" =>
       \E t \in todo : /\ t[1] = p /\ r.before.id = RowAt(cache, t).id
                       /\ r.before.val = RowAt(cache, t).val
  /\ \/ cache'[p].last_lsn \in {Len(log) + 1, Len(log) + 2} /\ p \in dirty'
     \/ cache'[p].last_lsn = c[p].last_lsn /\ (phase' = phase => \E t \in todo' : t[1] = p)
  /\ \A t \in todo : t \in todo' \/ t[1] = p \/ phase' = "idle"
  /\ \A t \in todo' : /\ t \in todo /\ RowAt(cache', t).id = RowAt(cache, t).id
                      /\ (RowAt(cache', t).obsolete <=> RowAt(cache, t).obsolete)
  /\ \/ phase' = phase /\ txn' = txn
     \/ phase' = "idle" /\ txn' = NoTxn /\ todo' = {} /\ phase = "update"
  /\ UNCHANGED <<durable, disk, redone, active, current>>

(* The cache as it is.                                                       *)
LEMMA SelfLoads == ASSUME TypeInv, NEW dty, dirty \subseteq dty PROVE Loads(cache, pages, dty)
<1>1. PageMap(cache)
  BY DEF TypeInv, TypeOK, PageMap
<1>. QED BY <1>1 DEF Loads, SamePage

(* insert_row.                                                               *)
LEMMA InsertWorks ==
  ASSUME TypeInv, \A q \in DOMAIN cache : Lists(pages, q), NEW v \in Vals, InsertRow(v)
  PROVE  \E c, p, r : Works(c, p, r)
<1> DEFINE row == [id |-> mt.last_rid, val |-> v, obsolete |-> FALSE]
<1>1. PICK p \in Pages :
        /\ MayPrepare(p)
        /\ log' = LogTable(LogRow(log, txn, "insert", p, row, row), txn, mt, TableAfterInsert)
        /\ cache' = [PrepareDp(p).cache EXCEPT
                       ![p] = WithRows(@, Append(@.rows, row), Len(log'))]
        /\ dirty' = PrepareDp(p).dirty \union {p}
        /\ pages' = PrepareDp(p).pages
  BY DEF InsertRow
<1>2. /\ mt \in MetaTable /\ TableAfterInsert \in MetaTable /\ txn \in Txns /\ row \in Row
      /\ row.obsolete = FALSE /\ phase = "insert" /\ todo = {}
  BY CountersType DEF InsertRow, TypeInv, TypeOK, StmtInv, InStatement, MetaTable, Row
<1>. HIDE DEF row
<1>3. PICK r \in Record : /\ AddsPair(r) /\ r.kind = "insert" /\ r.txn = txn /\ r.page = p
                          /\ r.before = row /\ r.after = row
  <2>1. "insert" \in DataKinds
    BY DEF DataKinds
  <2>. QED BY <1>1, <1>2, <2>1, PairAdds
<1> DEFINE c == PrepareDp(p).cache
<1>4. Loads(c, pages', PrepareDp(p).dirty) /\ p \in DOMAIN c
  BY <1>1, PrepareLoads
<1>5. Loads(c, pages', dirty')
  BY <1>1, <1>4 DEF Loads
<1>6. cache' = [c EXCEPT ![p] = WithRows(c[p], Append(c[p].rows, row), Len(log'))]
  BY <1>1
<1>. HIDE DEF c
<1>7. c[p] \in Page /\ c[p].rows \in Seq(Row)
  BY <1>4 DEF Loads, PageMap, Page
<1> DEFINE rows == c[p].rows
           rows2 == Append(c[p].rows, row)
<1>8. rows2 \in Seq(Row) /\ Len(rows2) = Len(rows) + 1 /\ Len(rows) \in Nat
      /\ rows2[Len(rows) + 1] = row /\ \A n \in 1 .. Len(rows) : rows2[n] = rows[n]
  BY <1>2, <1>7, AppendProperties, LenProperties
<1>9. Len(log') = Len(log) + 2 /\ Len(log') \in Nat
  BY <1>3, LenProperties DEF AddsPair
<1>10. /\ DOMAIN cache' = DOMAIN c /\ cache'[p].rows = rows2 /\ cache'[p].last_lsn = Len(log) + 2
       /\ \A q \in DOMAIN c \ {p} : cache'[q] = c[q]
  <2>. HIDE DEF rows2
  <2>1. /\ WithRows(c[p], rows2, Len(log')).last_lsn = Len(log')
        /\ WithRows(c[p], rows2, Len(log')).rows = rows2
    <3>1. c[p] \in Page /\ rows2 \in Seq(Row) /\ Len(log') \in Nat
      BY <1>7, <1>8, <1>9
    <3>. QED BY <3>1, PageExcept
  <2>. QED BY <1>4, <1>6, <1>9, <2>1 DEF rows2
<1>. HIDE DEF rows2
<1>11. Applies(r, rows, rows2)
  BY <1>3, <1>8 DEF Applies
<1>12. \A d : Has(rows2, d) <=> Has(rows, d) \/ (r.kind # "delete" /\ d = r.after.id)
  <2>1. r.kind \in DataKinds
    BY <1>3 DEF DataKinds
  <2>2. ASSUME NEW d
        PROVE  Has(rows2, d) <=> Has(rows, d) \/ (r.kind # "delete" /\ d = r.after.id)
    BY <1>7, <1>11, <2>1, HasNow
  <2>. QED BY <2>2
<1>13. UNCHANGED <<phase, txn, todo, durable, disk, redone, active, current>>
  BY DEF InsertRow, statement, recovery
<1>14. p \in dirty'
  BY <1>1
<1>15. Works(c, p, r)
  BY <1>2, <1>3, <1>4, <1>5, <1>10, <1>11, <1>12, <1>13, <1>14
     DEF Works, SamePage, InStatement
<1>. QED BY <1>15

(* A slot to be visited holds a row.                                         *)
LEMMA RowAtType == ASSUME TypeInv, NEW t \in todo PROVE RowAt(cache, t) \in Row
<1>1. cache[t[1]] \in Page /\ cache[t[1]].rows \in Seq(Row) /\ t[2] \in DOMAIN cache[t[1]].rows
  BY DEF TypeInv, TypeOK, Page
<1>. QED BY <1>1, RowFields DEF RowAt

(* The rows of the page of t, and what update_row leaves of them.            *)
RowsOf(t) == cache[t[1]].rows
NewRowsOf(t, v) == PageAfterUpdate(t, v, FALSE).rows

(* what record r of an UPDATE says of the page on which it puts a new row  *)
PageUpdated(t, v, r) ==
  /\ RowsOf(t) \in Seq(Row) /\ t[2] \in 1 .. Len(RowsOf(t))
  /\ r.before.id = RowAt(cache, t).id /\ r.before.val = RowAt(cache, t).val
  /\ r.after.obsolete = FALSE
  /\ Once(RowsOf(t)) => Applies(r, RowsOf(t), NewRowsOf(t, v))
  /\ \A d : Has(NewRowsOf(t, v), d) <=> Has(RowsOf(t), d) \/ d = r.after.id
  /\ \A n \in 1 .. Len(RowsOf(t)) : n # t[2] => NewRowsOf(t, v)[n] = RowsOf(t)[n]

(* What update_row leaves of a page, the flag it set not being lost.         *)
LEMMA UpdatedPage ==
  ASSUME TypeInv, NEW t \in todo, RowAt(cache, t).obsolete = FALSE, NEW v \in Vals,
         NEW r, r.kind = "update", r.before = OldVersion(t), r.after = NewVersion(t, v)
  PROVE  PageUpdated(t, v, r)
<1> DEFINE rows == cache[t[1]].rows
           rows2 == PageAfterUpdate(t, v, FALSE).rows
           old == [rows EXCEPT ![t[2]].obsolete = TRUE]
<1>1. /\ cache[t[1]] \in Page /\ rows \in Seq(Row) /\ t[2] \in DOMAIN rows
  BY DEF TypeInv, TypeOK, Page
<1>2. /\ Len(rows) \in Nat /\ DOMAIN rows = 1 .. Len(rows)
      /\ \A n \in 1 .. Len(rows) : rows[n] \in Row
  BY <1>1, RowFields
<1>3. RowAt(cache, t) = rows[t[2]] /\ rows[t[2]] \in Row /\ t[2] \in 1 .. Len(rows)
  BY <1>1, <1>2 DEF RowAt
<1>4. PageAfterUpdate(t, v, FALSE) \in Page /\ NewVersion(t, v) \in Row
  <2>1. FALSE \in BOOLEAN
    OBVIOUS
  <2>. QED BY <2>1, PageAfterUpdateType
<1>5. rows2 = Append(old, NewVersion(t, v))
  <2>1. rows2 = RowsAfterUpdate(t, v, FALSE)
    BY <1>1 DEF PageAfterUpdate, Page
  <2>2. RowsAfterUpdate(t, v, FALSE) = Append(old, NewVersion(t, v))
    BY DEF RowsAfterUpdate
  <2>. QED BY <2>1, <2>2
<1>6. rows2 \in Seq(Row)
  BY <1>4 DEF Page
<1>. HIDE DEF rows2
<1>7. old \in Seq(Row) /\ Len(old) = Len(rows)
      /\ \A n \in 1 .. Len(rows) :
           old[n] = IF n = t[2] THEN [rows[t[2]] EXCEPT !.obsolete = TRUE] ELSE rows[n]
  <2> DEFINE o == [rows[t[2]] EXCEPT !.obsolete = TRUE]
  <2>1. o \in Row
    BY <1>3 DEF Row
  <2>2. old = [rows EXCEPT ![t[2]] = o]
    OBVIOUS
  <2>. HIDE DEF o, rows
  <2>3. [rows EXCEPT ![t[2]] = o] \in Seq(Row) /\ Len([rows EXCEPT ![t[2]] = o]) = Len(rows)
    BY <1>1, <1>3, <2>1, ExceptSeq
  <2>4. \A n \in 1 .. Len(rows) : [rows EXCEPT ![t[2]] = o][n] = IF n = t[2] THEN o ELSE rows[n]
    BY <1>2
  <2>. QED BY <2>2, <2>3, <2>4 DEF o
<1>. HIDE DEF old
<1>8. /\ Len(rows2) = Len(rows) + 1 /\ rows2[Len(rows) + 1] = r.after
      /\ \A n \in 1 .. Len(rows) : rows2[n] = old[n]
  BY <1>2, <1>4, <1>5, <1>7, AppendProperties
<1>9. /\ [rows[t[2]] EXCEPT !.obsolete = TRUE].id = rows[t[2]].id
      /\ [rows[t[2]] EXCEPT !.obsolete = TRUE].val = rows[t[2]].val
      /\ [rows[t[2]] EXCEPT !.obsolete = TRUE].obsolete = TRUE
  BY <1>3 DEF Row
<1>10. r.before.id = rows[t[2]].id /\ r.before.val = rows[t[2]].val
  BY <1>3, <1>9 DEF OldVersion
<1>11. r.after.obsolete = FALSE
  <2>1. NewVersion(t, v) = [rows[t[2]] EXCEPT !.id = mt.last_rid + 1, !.val = v]
    BY <1>3 DEF NewVersion
  <2>2. NewVersion(t, v).obsolete = rows[t[2]].obsolete /\ rows[t[2]].obsolete \in BOOLEAN
    BY <1>3, <2>1 DEF Row
  <2>. QED BY <1>3, <2>2
<1>12. \A n \in 1 .. Len(rows) :
         /\ rows2[n].id = rows[n].id /\ rows2[n].val = rows[n].val
         /\ rows2[n].obsolete <=> n = t[2] \/ rows[n].obsolete
         /\ n # t[2] => rows2[n] = rows[n]
  BY <1>7, <1>8, <1>9
<1>13. ASSUME Once(rows) PROVE Applies(r, rows, rows2)
  <2>1. \A n \in 1 .. Len(rows) : n = t[2] <=> rows[n].id = r.before.id
    BY <1>3, <1>10, <1>13 DEF Once
  <2>. QED BY <1>6, <1>8, <1>12, <2>1 DEF Applies
<1>14. ASSUME NEW d PROVE Has(rows2, d) <=> Has(rows, d) \/ d = r.after.id
  <2>1. \A n \in 1 .. Len(rows2) : n \in 1 .. Len(rows) \/ n = Len(rows) + 1
    BY <1>2, <1>8
  <2>2. Len(rows) + 1 \in 1 .. Len(rows2) /\ \A n \in 1 .. Len(rows) : n \in 1 .. Len(rows2)
    BY <1>2, <1>8
  <2>. QED BY <1>8, <1>12, <2>1, <2>2 DEF Has
<1>. QED BY <1>1, <1>3, <1>10, <1>11, <1>12, <1>13, <1>14 DEF rows2, RowsOf, NewRowsOf, PageUpdated

(* update_row, also when it throws.                                          *)
LEMMA UpdateWorks ==
  ASSUME TypeInv, TypeInv', lost_flags' = 0, Tasks, NEW t \in todo, NEW v \in Vals,
         UpdateRow(t, v) \/ UpdateThrows(t, v)
  PROVE  \E c, p, r : Works(c, p, r)
<1>1. /\ log' = LogAfterUpdate(t, v) /\ phase = "update"
      /\ UNCHANGED <<pages, durable, disk, redone, active, current>>
  BY DEF UpdateRow, UpdateThrows, recovery
<1>2. /\ t[1] \in Pages /\ t[1] \in DOMAIN cache /\ mt \in MetaTable /\ unchanged_mt \in MetaTable
      /\ [mt EXCEPT !.last_rid = @ + 1] \in MetaTable /\ txn \in Txns /\ Len(log) \in Nat
      /\ PageMap(cache) /\ ~RowAt(cache, t).obsolete
  BY <1>1, CountersType, LenProperties DEF TypeInv, TypeOK, StmtInv, InStatement, PageMap, Tasks
<1>3. OldVersion(t) \in Row /\ NewVersion(t, v) \in Row
  <2>1. FALSE \in BOOLEAN
    OBVIOUS
  <2>. QED BY <2>1, PageAfterUpdateType
<1>4. PICK r \in Record : /\ AddsPair(r) /\ r.kind = "update" /\ r.txn = txn /\ r.page = t[1]
                          /\ r.before = OldVersion(t) /\ r.after = NewVersion(t, v)
  <2>1. "update" \in DataKinds
    BY DEF DataKinds
  <2>. QED BY <1>1, <1>2, <1>3, <2>1, PairAdds DEF LogAfterUpdate
<1> DEFINE pg == PageAfterUpdate(t, v, FALSE)
<1>5. pg \in Page /\ pg.last_lsn = cache[t[1]].last_lsn
  <2>1. FALSE \in BOOLEAN
    OBVIOUS
  <2>. QED BY <2>1, PageAfterUpdateType
<1>6. /\ cache[t[1]].rows \in Seq(Row) /\ t[2] \in 1 .. Len(cache[t[1]].rows)
      /\ r.before.id = RowAt(cache, t).id /\ r.before.val = RowAt(cache, t).val
      /\ r.after.obsolete = FALSE
      /\ Once(cache[t[1]].rows) => Applies(r, cache[t[1]].rows, pg.rows)
      /\ \A d : Has(pg.rows, d) <=> Has(cache[t[1]].rows, d) \/ d = r.after.id
      /\ \A n \in 1 .. Len(cache[t[1]].rows) : n # t[2] => pg.rows[n] = cache[t[1]].rows[n]
  <2>1. /\ RowsOf(t) \in Seq(Row) /\ t[2] \in 1 .. Len(RowsOf(t))
        /\ r.before.id = RowAt(cache, t).id /\ r.before.val = RowAt(cache, t).val
        /\ r.after.obsolete = FALSE
        /\ Once(RowsOf(t)) => Applies(r, RowsOf(t), NewRowsOf(t, v))
        /\ \A d : Has(NewRowsOf(t, v), d) <=> Has(RowsOf(t), d) \/ d = r.after.id
        /\ \A n \in 1 .. Len(RowsOf(t)) : n # t[2] => NewRowsOf(t, v)[n] = RowsOf(t)[n]
    <3>0. RowAt(cache, t) \in Row
      BY RowAtType
    <3>1. RowAt(cache, t).obsolete = FALSE
      BY <1>2, <3>0 DEF Row
    <3>2. r.kind = "update" /\ r.before = OldVersion(t) /\ r.after = NewVersion(t, v)
      BY <1>4
    <3>3. PageUpdated(t, v, r)
      BY <3>1, <3>2, UpdatedPage
    <3>. HIDE DEF pg
    <3>. QED BY ONLY <3>3 DEF PageUpdated
  <2>2. NewRowsOf(t, v) = pg.rows /\ RowsOf(t) = cache[t[1]].rows
    BY DEF NewRowsOf, RowsOf
  <2>. HIDE DEF pg
  <2>. QED BY <2>1, <2>2
<1>7. ASSUME NEW lost \in MayLose(t), lost_flags' = IF lost THEN lost_flags + 1 ELSE lost_flags
      PROVE  lost = FALSE
  BY <1>7 DEF MayLose, TypeInv, TypeOK
<1>. HIDE DEF pg
<1>8. \/ /\ cache' = [cache EXCEPT ![t[1]] = IF PageDone(t) THEN [pg EXCEPT !.last_lsn = Len(log) + 1] ELSE pg]
         /\ dirty' = IF PageDone(t) THEN dirty \union {t[1]} ELSE dirty
         /\ todo' = todo \ {t} /\ phase' = phase /\ txn' = txn
      \/ /\ cache' = [cache EXCEPT ![t[1]] = pg] /\ dirty' = dirty
         /\ todo' = {} /\ phase' = "idle" /\ txn' = NoTxn
  <2>1. CASE UpdateRow(t, v)
    BY <1>7, <2>1 DEF UpdateRow, pg
  <2>2. CASE UpdateThrows(t, v)
    BY <1>7, <2>2 DEF UpdateThrows, pg
  <2>. QED BY <2>1, <2>2
<1>9. [pg EXCEPT !.last_lsn = Len(log) + 1].rows = pg.rows
      /\ [pg EXCEPT !.last_lsn = Len(log) + 1].last_lsn = Len(log) + 1
  BY <1>2, <1>5 DEF Page
<1>10. /\ DOMAIN cache' = DOMAIN cache /\ \A q \in DOMAIN cache \ {t[1]} : cache'[q] = cache[q]
       /\ cache'[t[1]].rows = pg.rows
  BY <1>2, <1>8, <1>9
<1>11. dirty \subseteq dirty'
  BY <1>8
<1>12. Loads(cache, pages', dirty')
  BY <1>1, <1>11, SelfLoads
<1>13. \/ cache'[t[1]].last_lsn \in {Len(log) + 1, Len(log) + 2} /\ t[1] \in dirty'
       \/ cache'[t[1]].last_lsn = cache[t[1]].last_lsn /\ (phase' = phase => \E u \in todo' : u[1] = t[1])
  <2>1. CASE phase' = phase /\ PageDone(t)
    BY <1>1, <1>2, <1>8, <1>9, <2>1
  <2>2. CASE phase' = phase /\ ~PageDone(t)
    BY <1>1, <1>2, <1>5, <1>8, <2>2 DEF PageDone
  <2>3. CASE phase' # phase
    BY <1>1, <1>2, <1>5, <1>8, <2>3
  <2>. QED BY <2>1, <2>2, <2>3
<1>14. ASSUME NEW u \in todo' PROVE u \in todo /\ RowAt(cache', u) = RowAt(cache, u)
  <2>1. u \in todo /\ u # t
    BY <1>8, <1>14
  <2>2. CASE u[1] # t[1]
    <3>1. u[1] \in DOMAIN cache
      BY <2>1 DEF TypeInv, TypeOK
    <3>. QED BY <1>10, <2>1, <2>2, <3>1 DEF RowAt
  <2>3. CASE u[1] = t[1]
    <3>1. u[2] \in 1 .. Len(cache[t[1]].rows)
      BY <1>6, <2>1, <2>3, LenProperties DEF TypeInv, TypeOK
    <3>2. u[2] # t[2]
      BY <2>1, <2>3 DEF Tasks
    <3>. QED BY <1>6, <1>10, <2>1, <2>3, <3>1, <3>2 DEF RowAt
  <2>. QED BY <2>2, <2>3
<1>15. \A u \in todo : u \in todo' \/ u[1] = t[1] \/ phase' = "idle"
  BY <1>8
<1>16. Works(cache, t[1], r)
  BY <1>1, <1>2, <1>4, <1>6, <1>8, <1>10, <1>12, <1>13, <1>14, <1>15 DEF Works, SamePage, InStatement
<1>. QED BY <1>16

(* delete_rows.                                                              *)
LEMMA DeleteWorks ==
  ASSUME TypeInv, TypeInv', Tasks, NEW t \in todo, DeleteRow(t)
  PROVE  \E c, p, r : Works(c, p, r)
<1> DEFINE row == OldVersion(t)
           rows == cache[t[1]].rows
           rows2 == [rows EXCEPT ![t[2]] = row]
           pg == [cache[t[1]] EXCEPT !.rows[t[2]] = row]
<1>1. /\ log' = LogTable(LogRow(log, txn, "delete", t[1], row, row), txn, unchanged_mt, TableAfterDelete)
      /\ phase = "delete" /\ UNCHANGED <<phase, txn, pages, durable, disk, redone, active, current>>
      /\ dirty' = IF PageDone(t) THEN dirty \union {t[1]} ELSE dirty
      /\ todo' = todo \ {t}
      /\ cache' = [cache EXCEPT ![t[1]] = IF PageDone(t) THEN [pg EXCEPT !.last_lsn = Len(log) + 1] ELSE pg]
  BY DEF DeleteRow, recovery
<1>2. /\ t[1] \in Pages /\ t[1] \in DOMAIN cache /\ mt \in MetaTable /\ unchanged_mt \in MetaTable
      /\ TableAfterDelete \in MetaTable /\ txn \in Txns /\ Len(log) \in Nat
      /\ PageMap(cache) /\ ~RowAt(cache, t).obsolete /\ cache[t[1]] \in Page /\ rows \in Seq(Row)
      /\ t[2] \in DOMAIN rows
  BY <1>1, CountersType, LenProperties DEF TypeInv, TypeOK, StmtInv, InStatement, PageMap, Tasks, Page
<1>3. /\ Len(rows) \in Nat /\ DOMAIN rows = 1 .. Len(rows)
      /\ \A n \in 1 .. Len(rows) : rows[n] \in Row
  BY <1>2, RowFields
<1>4. RowAt(cache, t) = rows[t[2]] /\ rows[t[2]] \in Row /\ t[2] \in 1 .. Len(rows)
  BY <1>2, <1>3 DEF RowAt
<1>5. /\ row \in Row /\ row.id = rows[t[2]].id /\ row.val = rows[t[2]].val /\ row.obsolete = TRUE
  BY <1>4 DEF OldVersion, Row
<1>. HIDE DEF row
<1>6. PICK r \in Record : /\ AddsPair(r) /\ r.kind = "delete" /\ r.txn = txn /\ r.page = t[1]
                          /\ r.before = row /\ r.after = row
  <2>1. "delete" \in DataKinds
    BY DEF DataKinds
  <2>. QED BY <1>1, <1>2, <1>5, <2>1, PairAdds
<1>7. /\ rows2 \in Seq(Row) /\ Len(rows2) = Len(rows)
      /\ \A n \in 1 .. Len(rows) : rows2[n] = IF n = t[2] THEN row ELSE rows[n]
  <2>. HIDE DEF rows
  <2>1. rows2 \in Seq(Row) /\ Len(rows2) = Len(rows)
    BY <1>2, <1>4, <1>5, ExceptSeq
  <2>. QED BY <1>3, <2>1
<1>8. pg \in Page /\ pg.rows = rows2 /\ pg.last_lsn = cache[t[1]].last_lsn
  <2>1. pg = [cache[t[1]] EXCEPT !.rows = rows2]
    OBVIOUS
  <2>. HIDE DEF rows2, pg
  <2>. QED BY <1>2, <1>7, <2>1 DEF Page
<1>. HIDE DEF pg, rows2
<1>9. [pg EXCEPT !.last_lsn = Len(log) + 1].rows = rows2
      /\ [pg EXCEPT !.last_lsn = Len(log) + 1].last_lsn = Len(log) + 1
  BY <1>2, <1>8 DEF Page
<1>10. /\ DOMAIN cache' = DOMAIN cache /\ \A q \in DOMAIN cache \ {t[1]} : cache'[q] = cache[q]
       /\ cache'[t[1]].rows = rows2
  BY <1>1, <1>2, <1>8, <1>9
<1>11. dirty \subseteq dirty'
  BY <1>1
<1>12. Loads(cache, pages', dirty')
  BY <1>1, <1>11, SelfLoads
<1>13. \/ cache'[t[1]].last_lsn \in {Len(log) + 1, Len(log) + 2} /\ t[1] \in dirty'
       \/ cache'[t[1]].last_lsn = cache[t[1]].last_lsn /\ (phase' = phase => \E u \in todo' : u[1] = t[1])
  <2>1. CASE PageDone(t)
    BY <1>1, <1>2, <1>9, <2>1
  <2>2. CASE ~PageDone(t)
    BY <1>1, <1>2, <1>8, <2>2 DEF PageDone
  <2>. QED BY <2>1, <2>2
<1>14. ASSUME NEW u \in todo' PROVE u \in todo /\ RowAt(cache', u) = RowAt(cache, u)
  <2>1. u \in todo /\ u # t
    BY <1>1, <1>14
  <2>2. CASE u[1] # t[1]
    <3>1. u[1] \in DOMAIN cache
      BY <2>1 DEF TypeInv, TypeOK
    <3>. QED BY <1>10, <2>1, <2>2, <3>1 DEF RowAt
  <2>3. CASE u[1] = t[1]
    <3>1. u[2] \in 1 .. Len(rows)
      BY <1>3, <2>1, <2>3 DEF TypeInv, TypeOK
    <3>2. u[2] # t[2]
      BY <2>1, <2>3 DEF Tasks
    <3>. QED BY <1>7, <1>10, <2>1, <2>3, <3>1, <3>2 DEF RowAt
  <2>. QED BY <2>2, <2>3
<1>15. \A u \in todo : u \in todo' \/ u[1] = t[1]
  BY <1>1
<1>16. \A n \in 1 .. Len(rows) :
         /\ rows2[n].id = rows[n].id /\ rows2[n].val = rows[n].val
         /\ rows2[n].obsolete <=> n = t[2] \/ rows[n].obsolete
  BY <1>5, <1>7
<1>17. ASSUME Once(rows) PROVE Applies(r, rows, rows2)
  <2>1. \A n \in 1 .. Len(rows) : n = t[2] <=> rows[n].id = r.before.id
    BY <1>4, <1>5, <1>6, <1>17 DEF Once
  <2>. QED BY <1>6, <1>7, <1>16, <2>1 DEF Applies
<1>18. \A d : Has(rows2, d) <=> Has(rows, d)
  BY <1>7, <1>16 DEF Has
<1>19. r.before.id = RowAt(cache, t).id /\ r.before.val = RowAt(cache, t).val
  BY <1>4, <1>5, <1>6
<1>20. Works(cache, t[1], r)
  BY <1>1, <1>2, <1>6, <1>10, <1>12, <1>13, <1>14, <1>15, <1>17, <1>18, <1>19
     DEF Works, SamePage, InStatement
<1>. QED BY <1>20

(* Every row of a statement is such a step.                                  *)
LEMMA RowWorks ==
  ASSUME TypeInv, TypeInv', lost_flags' = 0, Tasks, \A q \in DOMAIN cache : Lists(pages, q), RowWork
  PROVE  \E c, p, r : Works(c, p, r)
BY InsertWorks, UpdateWorks, DeleteWorks DEF RowWork

-----------------------------------------------------------------------------
(* What the statements put into the log                                    *)

(* Fine, of the first n records.                                             *)
FineTo(lg, n) ==
  /\ \A i, j \in 1 .. n :
       Makes(lg, i) /\ Makes(lg, j) /\ lg[i].after.id = lg[j].after.id => i = j
  /\ \A i, j \in 1 .. n : Replaces(lg, j, i) =>
       i < j /\ \E k \in 1 .. j - 1 : lg[k].kind = "commit" /\ lg[k].txn = lg[i].txn

(* What an UPDATE or DELETE changes is a row of its page, which some other   *)
(* transaction wrote.                                                        *)
Sourced(lg, n) ==
  lg[n].kind \in {"update", "delete"} =>
    \E i \in 1 .. n - 1 : /\ MadeOn(lg, i, lg[n].page) /\ lg[i].after.id = lg[n].before.id
                          /\ lg[i].txn # lg[n].txn

(* A transaction that commits has had the log to itself since it began.      *)
Alone(lg, n) ==
  lg[n].kind = "commit" =>
    \A i, j \in 1 .. n - 1 : i < j /\ lg[i].txn = lg[n].txn => lg[j].txn = lg[n].txn

(* A version that record n replaces has the values it was written with, and  *)
(* what replaced it before belongs to a transaction that had not committed.  *)
Rightful(lg, n) ==
  \A i \in 1 .. n - 1 : Replaces(lg, n, i) =>
    /\ lg[n].before.val = lg[i].after.val
    /\ \A j \in 1 .. n - 1 : Replaces(lg, j, i) =>
         /\ lg[j].txn # lg[n].txn
         /\ \A k \in 1 .. n - 1 : ~(lg[k].kind = "commit" /\ lg[k].txn = lg[j].txn)

(* What the log says at record n, and everywhere.                            *)
Told(lg, n) ==
  /\ Sourced(lg, n) /\ Alone(lg, n)
  /\ Makes(lg, n) => lg[n].after.obsolete = FALSE
  /\ FineTo(lg, n) => Rightful(lg, n)

History(lg) == \A n \in 1 .. Len(lg) : Told(lg, n)

(* Told is about a prefix.                                                   *)
LEMMA ToldSame ==
  ASSUME NEW lg, NEW lg2, NEW n \in Nat, \A i \in 1 .. n : lg2[i] = lg[i], n > 0, Told(lg, n)
  PROVE  Told(lg2, n)
<1>1. lg2[n] = lg[n] /\ \A i \in 1 .. n - 1 : lg2[i] = lg[i]
  OBVIOUS
<1>2. Sourced(lg2, n)
  BY <1>1 DEF Told, Sourced, MadeOn, Makes
<1>3. Alone(lg2, n)
  BY <1>1 DEF Told, Alone
<1>4. Makes(lg2, n) => lg2[n].after.obsolete = FALSE
  BY <1>1 DEF Told, Makes
<1>5. ASSUME FineTo(lg2, n) PROVE FineTo(lg, n)
  <2>1. \A i, j \in 1 .. n : Makes(lg, i) /\ Makes(lg, j) /\ lg[i].after.id = lg[j].after.id => i = j
    BY <1>5 DEF FineTo, Makes
  <2>2. ASSUME NEW i \in 1 .. n, NEW j \in 1 .. n, Replaces(lg, j, i)
        PROVE  i < j /\ \E k \in 1 .. j - 1 : lg[k].kind = "commit" /\ lg[k].txn = lg[i].txn
    <3>1. Replaces(lg2, j, i)
      BY <2>2 DEF Replaces, Makes
    <3>2. i < j /\ \E k \in 1 .. j - 1 : lg2[k].kind = "commit" /\ lg2[k].txn = lg2[i].txn
      BY <1>5, <3>1 DEF FineTo
    <3>3. \A k \in 1 .. j - 1 : lg2[k] = lg[k]
      OBVIOUS
    <3>. QED BY <3>2, <3>3
  <2>. QED BY <2>1, <2>2 DEF FineTo
<1>6. ASSUME Rightful(lg, n) PROVE Rightful(lg2, n)
  BY <1>1, <1>6 DEF Rightful, Replaces, Makes
<1>. QED BY <1>2, <1>3, <1>4, <1>5, <1>6 DEF Told

(* A prefix of a history is one.                                             *)
LEMMA HistoryCut ==
  ASSUME NEW lg \in Seq(Record), NEW lg2 \in Seq(Record), Grown(lg, lg2), History(lg2)
  PROVE  History(lg)
<1>1. Len(lg) \in Nat /\ Len(lg2) \in Nat
  BY LenProperties
<1>2. ASSUME NEW n \in 1 .. Len(lg) PROVE Told(lg, n)
  <2>1. n \in Nat /\ n > 0 /\ n \in 1 .. Len(lg2) /\ \A i \in 1 .. n : lg[i] = lg2[i]
    BY <1>1 DEF Grown
  <2>. QED BY <2>1, ToldSame DEF History
<1>. QED BY <1>2 DEF History

(* So is one that goes on with records that fit.                             *)
LEMMA HistoryGrows ==
  ASSUME NEW lg \in Seq(Record), NEW lg2 \in Seq(Record), Grown(lg, lg2), History(lg),
         \A n \in 1 .. Len(lg2) : n > Len(lg) => Told(lg2, n)
  PROVE  History(lg2)
<1>1. Len(lg) \in Nat /\ Len(lg2) \in Nat
  BY LenProperties
<1>2. ASSUME NEW n \in 1 .. Len(lg2), n <= Len(lg) PROVE Told(lg2, n)
  <2>1. n \in Nat /\ n > 0 /\ n \in 1 .. Len(lg) /\ \A i \in 1 .. n : lg2[i] = lg[i]
    BY <1>1, <1>2 DEF Grown
  <2>. QED BY <2>1, ToldSame DEF History
<1>. QED BY <1>1, <1>2 DEF History

(* A record that is about no row, and ends no transaction, fits.             *)
LEMMA PlainTold ==
  ASSUME NEW lg, NEW n, lg[n].kind \notin DataKinds, lg[n].kind # "commit"
  PROVE  Told(lg, n)
BY DEF Told, Sourced, Alone, Rightful, Replaces, Makes, DataKinds

(* The first n records of a fine log are fine.                               *)
LEMMA FinePrefix ==
  ASSUME NEW lg \in Seq(Record), Fine(lg), NEW n \in 1 .. Len(lg)
  PROVE  FineTo(lg, n)
<1>1. Len(lg) \in Nat /\ \A i \in 1 .. n : i \in 1 .. Len(lg)
  BY LenProperties
<1>2. \A i, j \in 1 .. n : Makes(lg, i) /\ Makes(lg, j) /\ lg[i].after.id = lg[j].after.id => i = j
  BY <1>1 DEF Fine, IdsDistinct
<1>3. \A i, j \in 1 .. n : Replaces(lg, j, i) =>
       i < j /\ \E k \in 1 .. j - 1 : lg[k].kind = "commit" /\ lg[k].txn = lg[i].txn
  BY <1>1 DEF Fine, OnCommitted
<1>. QED BY <1>2, <1>3 DEF FineTo

(* In a fine history: what record j replaces is of its page and committed,   *)
(* and the row it took it for.                                               *)
LEMMA ReplacedRow ==
  ASSUME NEW lg \in Seq(Record), Fine(lg), History(lg), NEW i \in 1 .. Len(lg),
         NEW j \in 1 .. Len(lg), Replaces(lg, j, i)
  PROVE  /\ i < j /\ lg[j].page = lg[i].page /\ Done(lg, i)
         /\ lg[j].before.val = lg[i].after.val
<1>1. Len(lg) \in Nat
  BY LenProperties
<1>2. i < j /\ \E k \in 1 .. j - 1 : lg[k].kind = "commit" /\ lg[k].txn = lg[i].txn
  BY DEF Fine, OnCommitted
<1>3. PICK m \in 1 .. j - 1 : MadeOn(lg, m, lg[j].page) /\ lg[m].after.id = lg[j].before.id
  BY DEF History, Told, Sourced, Replaces
<1>4. m = i
  BY <1>1, <1>3 DEF Fine, IdsDistinct, MadeOn, Replaces
<1>5. Rightful(lg, j)
  BY FinePrefix DEF History, Told
<1>. QED BY <1>1, <1>2, <1>3, <1>4, <1>5 DEF MadeOn, Done, Ended, Rightful

(* ... no two records of a transaction replace the same version, ...         *)
LEMMA ReplacedByOthers ==
  ASSUME NEW lg \in Seq(Record), Fine(lg), History(lg), NEW i \in 1 .. Len(lg),
         NEW j \in 1 .. Len(lg), Replaces(lg, j, i),
         NEW k \in 1 .. Len(lg), Replaces(lg, k, i), j < k
  PROVE  /\ lg[j].txn # lg[k].txn
         /\ \A c \in 1 .. k - 1 : ~(lg[c].kind = "commit" /\ lg[c].txn = lg[j].txn)
<1>1. Len(lg) \in Nat
  BY LenProperties
<1>2. i < j /\ i < k
  BY ReplacedRow
<1>3. Rightful(lg, k)
  BY FinePrefix DEF History, Told
<1>4. i \in 1 .. k - 1 /\ j \in 1 .. k - 1
  BY <1>1, <1>2
<1>. QED BY <1>3, <1>4 DEF Rightful

(* ... and a committed replacement is the last.                              *)
LEMMA CommittedLast ==
  ASSUME NEW lg \in Seq(Record), Fine(lg), History(lg), NEW i \in 1 .. Len(lg),
         NEW j \in 1 .. Len(lg), Replaces(lg, j, i), Done(lg, j),
         NEW k \in 1 .. Len(lg), Replaces(lg, k, i)
  PROVE  k <= j
<1>1. Len(lg) \in Nat
  BY LenProperties
<1>2. SUFFICES ASSUME j < k PROVE FALSE
  BY <1>1
<1>3. /\ lg[j].txn # lg[k].txn
      /\ \A c \in 1 .. k - 1 : ~(lg[c].kind = "commit" /\ lg[c].txn = lg[j].txn)
  BY <1>2, ReplacedByOthers
<1>4. PICK c \in 1 .. Len(lg) : lg[c].kind = "commit" /\ lg[c].txn = lg[j].txn
  BY DEF Done, Ended
<1>5. k \in 1 .. c - 1 /\ j \in 1 .. c - 1
  <2>1. k # c
    BY <1>4 DEF Replaces
  <2>. QED BY <1>1, <1>2, <1>3, <1>4, <2>1
<1>6. Alone(lg, c)
  BY DEF History, Told
<1>. QED BY <1>2, <1>3, <1>4, <1>5, <1>6 DEF Alone

(* A transaction with a compensation record does not commit.                 *)
LEMMA UndoneNotDone ==
  ASSUME NEW lg \in Seq(Record), LogInv(lg), \A i \in 1 .. Len(lg) : LinksBack(lg, i),
         NEW c \in 1 .. Len(lg), lg[c].kind = "clr"
  PROVE  /\ lg[c].of \in 1 .. Len(lg) /\ lg[c].of < c
         /\ ~Ended(lg, lg[c].txn, "commit") /\ ~Done(lg, lg[c].of)
<1>1. Len(lg) \in Nat
  BY LenProperties
<1>2. lg[c].of \in 1 .. c - 1 /\ lg[lg[c].of].txn = lg[c].txn
  BY DEF LogInv, Compensates, LinksBack
<1>3. ASSUME NEW k \in 1 .. Len(lg), lg[k].kind = "commit", lg[k].txn = lg[c].txn PROVE FALSE
  <2>1. k # c
    BY <1>3
  <2>2. CASE k < c
    BY <1>3, <2>2 DEF LogInv, Follows
  <2>3. CASE c < k
    BY <1>3, <2>3 DEF LogInv, Follows
  <2>. QED BY <1>1, <2>1, <2>2, <2>3
<1>. QED BY <1>1, <1>2, <1>3 DEF Done, Ended

-----------------------------------------------------------------------------
(* The records that a page has seen                                        *)

(* of page p: those of committed transactions up to LSN L; those of          *)
(* committed transactions and of transaction x; and what compensation        *)
(* records up to L undo                                                      *)
InFile(lg, p, L) == {j \in 1 .. Len(lg) : RowRec(lg, j, p) /\ Done(lg, j) /\ j <= L}
InCache(lg, x, p) == {j \in 1 .. Len(lg) : RowRec(lg, j, p) /\ (Done(lg, j) \/ lg[j].txn = x)}
Undone(lg, L) == {i \in 1 .. Len(lg) : \E c \in 1 .. Len(lg) : c <= L /\ lg[c].kind = "clr" /\ lg[c].of = i}

(* Compensation record c is about a row of page p.                           *)
Comp(lg, c, p) == lg[c].kind = "clr" /\ RowRec(lg, lg[c].of, p)

(* rows are right for a page file of LSN L; later rows are not in it.        *)
FileOK(lg, rows, L, p) ==
  /\ Content(lg, InFile(lg, p, L), Undone(lg, L), rows, p)
  /\ \A j \in 1 .. Len(lg) : MadeOn(lg, j, p) /\ Done(lg, j) /\ j > L => ~Has(rows, lg[j].after.id)

(* rows are right for a page of the cache while transaction x runs.          *)
CachedOK(lg, x, rows, p) == Content(lg, InCache(lg, x, p), Undone(lg, Len(lg)), rows, p)

(* A log that continues another: its transactions have committed, and more   *)
(* may have.                                                                 *)
LEMMA DoneGrows ==
  ASSUME NEW lg \in Seq(Record), NEW lg2 \in Seq(Record), Grown(lg, lg2), NEW x, NEW k, Ended(lg, x, k)
  PROVE  Ended(lg2, x, k)
BY LenProperties DEF Grown, Ended

(* Nobody commits but by a commit record.                                    *)
LEMMA DoneBefore ==
  ASSUME NEW lg \in Seq(Record), NEW lg2 \in Seq(Record), Grown(lg, lg2), NEW x, NEW kind,
         \A m \in 1 .. Len(lg2) : m > Len(lg) => ~(lg2[m].kind = kind /\ lg2[m].txn = x)
  PROVE  Ended(lg2, x, kind) <=> Ended(lg, x, kind)
<1>1. Len(lg) \in Nat /\ Len(lg2) \in Nat
  BY LenProperties
<1>2. \A k \in 1 .. Len(lg2) : k > Len(lg) \/ (k \in 1 .. Len(lg) /\ lg2[k] = lg[k])
  BY <1>1 DEF Grown
<1>3. \A k \in 1 .. Len(lg) : k \in 1 .. Len(lg2) /\ lg2[k] = lg[k]
  BY <1>1 DEF Grown
<1>. QED BY <1>1, <1>2, <1>3 DEF Ended

(* What is undone up to an LSN, as the log goes on.                          *)
LEMMA UndoneStays ==
  ASSUME NEW lg \in Seq(Record), NEW lg2 \in Seq(Record), Grown(lg, lg2),
         NEW L \in Nat, L <= Len(lg), \A c \in 1 .. Len(lg) : LinksBack(lg, c)
  PROVE  Undone(lg2, L) = Undone(lg, L)
<1>1. Len(lg) \in Nat /\ Len(lg2) \in Nat /\ Len(lg) <= Len(lg2)
  BY LenProperties DEF Grown
<1>2. ASSUME NEW i \in Undone(lg2, L) PROVE i \in Undone(lg, L)
  <2>1. PICK c \in 1 .. Len(lg2) : c <= L /\ lg2[c].kind = "clr" /\ lg2[c].of = i
    BY <1>2 DEF Undone
  <2>2. c \in 1 .. Len(lg) /\ c <= L
    BY <1>1, <2>1
  <2>3. lg[c] = lg2[c]
    BY <2>2 DEF Grown
  <2>4. i \in 1 .. c - 1
    BY <2>1, <2>2, <2>3 DEF LinksBack
  <2>5. i \in 1 .. Len(lg)
    BY <1>1, <2>2, <2>4
  <2>. QED BY <2>1, <2>2, <2>3, <2>5 DEF Undone
<1>3. ASSUME NEW i \in Undone(lg, L) PROVE i \in Undone(lg2, L)
  <2>1. PICK c \in 1 .. Len(lg) : c <= L /\ lg[c].kind = "clr" /\ lg[c].of = i
    BY <1>3 DEF Undone
  <2>2. c \in 1 .. Len(lg2) /\ lg2[c] = lg[c] /\ i \in 1 .. Len(lg2)
    BY <1>1, <1>3, <2>1 DEF Undone, Grown
  <2>. QED BY <2>1, <2>2 DEF Undone
<1>. QED BY <1>2, <1>3

(* What is undone at all, when no compensation record is added.              *)
LEMMA UndoneGrows ==
  ASSUME NEW lg \in Seq(Record), NEW lg2 \in Seq(Record), Grown(lg, lg2),
         \A m \in 1 .. Len(lg2) : m > Len(lg) => lg2[m].kind # "clr",
         \A c \in 1 .. Len(lg) : LinksBack(lg, c)
  PROVE  Undone(lg2, Len(lg2)) = Undone(lg, Len(lg))
<1>1. Len(lg) \in Nat /\ Len(lg2) \in Nat /\ Len(lg) <= Len(lg2)
  BY LenProperties DEF Grown
<1>2. Undone(lg2, Len(lg)) = Undone(lg, Len(lg))
  BY <1>1, UndoneStays
<1>3. \A c \in 1 .. Len(lg2) : lg2[c].kind = "clr" => (c <= Len(lg2) <=> c <= Len(lg))
  BY <1>1
<1>4. Undone(lg2, Len(lg2)) = Undone(lg2, Len(lg))
  BY <1>3 DEF Undone
<1>. QED BY <1>2, <1>4

(* The records of a page as the log goes on, its newest not being of p.      *)
LEMMA InFileGrows ==
  ASSUME NEW lg \in Seq(Record), NEW lg2 \in Seq(Record), Grown(lg, lg2), NEW p,
         NEW L \in Nat, L <= Len(lg),
         \A j \in 1 .. Len(lg) : RowRec(lg, j, p) /\ j <= L => (Done(lg2, j) <=> Done(lg, j))
  PROVE  InFile(lg2, p, L) = InFile(lg, p, L)
<1>1. Len(lg) \in Nat /\ Len(lg2) \in Nat /\ Len(lg) <= Len(lg2)
  BY LenProperties DEF Grown
<1>2. \A j \in 1 .. Len(lg2) : j <= L => j \in 1 .. Len(lg)
  BY <1>1
<1>3. \A j \in 1 .. Len(lg) : j \in 1 .. Len(lg2) /\ (RowRec(lg2, j, p) <=> RowRec(lg, j, p))
  BY <1>1 DEF Grown, RowRec
<1>. QED BY <1>2, <1>3 DEF InFile

(* What the undone records off the page are makes no difference.             *)
LEMMA ContentSame ==
  ASSUME NEW lg, NEW p, NEW S, NEW U, NEW V, NEW rows, Content(lg, S, U, rows, p),
         \A i \in 1 .. Len(lg) : MadeOn(lg, i, p) => (i \in U <=> i \in V)
  PROVE  Content(lg, S, V, rows, p)
<1>1. Versions(lg, S, V, rows, p)
  <2>. SUFFICES ASSUME NEW n \in 1 .. Len(rows), NEW i \in 1 .. Len(lg),
                       MadeOn(lg, i, p), lg[i].after.id = rows[n].id
       PROVE  /\ rows[n].obsolete <=>
                    \/ \E j \in 1 .. Len(lg) : Replaces(lg, j, i) /\ Applied(lg, S, rows, j)
                    \/ lg[i].kind = "insert" /\ i \in V
              /\ rows[n].val = IF lg[i].kind = "update" /\ i \in V THEN lg[i].before.val
                                                                   ELSE lg[i].after.val
    BY DEF Versions
  <2>1. i \in U <=> i \in V
    OBVIOUS
  <2>2. /\ rows[n].obsolete <=>
                    \/ \E j \in 1 .. Len(lg) : Replaces(lg, j, i) /\ Applied(lg, S, rows, j)
                    \/ lg[i].kind = "insert" /\ i \in U
        /\ rows[n].val = IF lg[i].kind = "update" /\ i \in U THEN lg[i].before.val
                                                             ELSE lg[i].after.val
    BY DEF Content, Versions
  <2>. QED BY <2>1, <2>2
<1>. QED BY <1>1 DEF Content

(* A page with nothing in it.                                                *)
LEMMA EmptyContent ==
  ASSUME NEW lg, NEW p, NEW S, NEW U, NEW rows, Len(rows) = 0, S = {}
  PROVE  Content(lg, S, U, rows, p)
<1>1. \A n \in 1 .. Len(rows) : FALSE
  OBVIOUS
<1>2. \A d : ~Has(rows, d)
  BY <1>1 DEF Has
<1>3. \A j : ~Applied(lg, S, rows, j)
  BY <1>2 DEF Applied
<1>. QED BY <1>1, <1>2, <1>3 DEF Content, Once, Versions, LastWins, Present

(* Records that are about no row do not touch what is in a page, unless they *)
(* commit a transaction; then its records are newer than the page file.      *)
LEMMA FileGrows ==
  ASSUME NEW lg \in Seq(Record), NEW lg2 \in Seq(Record), Grown(lg, lg2), Fine(lg2),
         \A c \in 1 .. Len(lg) : LinksBack(lg, c),
         NEW p, NEW L \in Nat, L <= Len(lg), NEW rows,
         FileOK(lg, rows, L, p), KnownBy(lg, Len(lg), rows, p),
         \A j \in 1 .. Len(lg) : RowRec(lg, j, p) =>
           (Done(lg2, j) <=> Done(lg, j)) \/ (j > L /\ (Makes(lg, j) => ~Has(rows, lg[j].after.id))),
         \A m \in 1 .. Len(lg2) : m > Len(lg) => ~(RowRec(lg2, m, p) /\ Done(lg2, m)),
         \A m \in 1 .. Len(lg2), i, j \in 1 .. Len(lg) :
           m \notin 1 .. Len(lg) /\ Replaces(lg2, m, i) /\ Replaces(lg, j, i) =>
             ~Applied(lg, InFile(lg, p, L), rows, j)
  PROVE  FileOK(lg2, rows, L, p)
<1>1. Len(lg) \in Nat /\ Len(lg2) \in Nat /\ Len(lg) <= Len(lg2)
  BY LenProperties DEF Grown
<1>2. KnownBy(lg, Len(lg), rows, p)
  OBVIOUS
<1> DEFINE S == InFile(lg, p, L)
           U == Undone(lg, L)
<1>3. Content(lg, S, U, rows, p) /\ S \subseteq 1 .. Len(lg)
  BY DEF FileOK, InFile
<1>4. InFile(lg2, p, L) = S
  <2>1. \A j \in 1 .. Len(lg) : RowRec(lg, j, p) /\ j <= L => (Done(lg2, j) <=> Done(lg, j))
    BY <1>1
  <2>. QED BY <2>1, InFileGrows
<1>5. Undone(lg2, L) = U
  BY UndoneStays
<1>6. Content(lg2, S, U, rows, p)
  <2>. HIDE DEF U
  <2>1. \A m \in 1 .. Len(lg2), i, j \in 1 .. Len(lg) :
           m \notin 1 .. Len(lg) /\ Replaces(lg2, m, i) /\ Replaces(lg, j, i) =>
             ~Applied(lg, S, rows, j)
    OBVIOUS
  <2>. HIDE DEF S
  <2>. QED BY <1>2, <1>3, <2>1, ContentGrows
<1>7. ASSUME NEW j \in 1 .. Len(lg2), MadeOn(lg2, j, p), Done(lg2, j), j > L
      PROVE  ~Has(rows, lg2[j].after.id)
  <2>1. RowRec(lg2, j, p)
    BY <1>7 DEF MadeOn, RowRec, Makes, DataKinds
  <2>2. j \in 1 .. Len(lg) /\ lg2[j] = lg[j]
    BY <1>1, <1>7, <2>1 DEF Grown
  <2>3. MadeOn(lg, j, p) /\ RowRec(lg, j, p) /\ Makes(lg, j)
    BY <1>7, <2>1, <2>2 DEF MadeOn, RowRec, Makes
  <2>4. CASE Done(lg, j)
    BY <1>7, <2>2, <2>3, <2>4 DEF FileOK
  <2>5. CASE ~Done(lg, j)
    BY <1>7, <2>2, <2>3, <2>5
  <2>. QED BY <2>4, <2>5
<1>. QED BY <1>4, <1>5, <1>6, <1>7 DEF FileOK

-----------------------------------------------------------------------------
(* More shapes of steps                                                    *)

(* Statement x begins; its rows are live rows of the pages it read.          *)
Begins(x) ==
  /\ phase = "idle" /\ phase' \in InStatement /\ x \in Txns /\ txn' = x
  /\ \A i \in 1 .. Len(log) : log[i].txn # x
  /\ \E r \in Record : Adds(r) /\ r.kind = "begin" /\ r.txn = x
  /\ Loads(cache', pages', dirty')
  /\ \A t \in todo' : /\ t = <<t[1], t[2]>> /\ t[1] \in DOMAIN cache'
                      /\ t[2] \in 1 .. Len(cache'[t[1]].rows)
                      /\ ~RowAt(cache', t).obsolete
  /\ UNCHANGED <<durable, disk, redone, active, current, dirty, pages>>

(* BeginInsert and BeginOnRows.                                              *)
LEMMA BeginBegins ==
  ASSUME TypeInv, TypeInv', NEW x \in Txns,
         BeginInsert(x) \/ \E kind \in {"update", "delete"} : BeginOnRows(x, kind)
  PROVE  Begins(x)
<1>1. /\ log' = LogMark(log, x, "begin") /\ phase = "idle" /\ phase' \in InStatement /\ txn' = x
      /\ x \notin {log[i].txn : i \in DOMAIN log}
      /\ UNCHANGED <<durable, disk, redone, active, current, dirty, pages>>
  BY DEF BeginInsert, BeginOnRows, InStatement, recovery, memory
<1>2. \E r \in Record : Adds(r) /\ r.kind = "begin" /\ r.txn = x
  BY <1>1, MarkAdds
<1>3. \A i \in 1 .. Len(log) : log[i].txn # x
  BY <1>1, LenProperties DEF TypeInv, TypeOK
<1>4. CASE BeginInsert(x)
  <2>1. cache' = cache /\ todo' = {}
    BY <1>4 DEF BeginInsert, memory, TypeInv, StmtInv
  <2>2. Loads(cache, pages, dirty)
    BY SelfLoads
  <2>. QED BY <1>1, <1>2, <1>3, <2>1, <2>2 DEF Begins
<1>5. CASE \E kind \in {"update", "delete"} : BeginOnRows(x, kind)
  <2>1. cache' = get_table_data /\ todo' \subseteq LiveSlots(get_table_data, DOMAIN get_table_data)
    BY <1>5 DEF BeginOnRows, Visits
  <2>2. Loads(get_table_data, pages, dirty)
    BY TableLoads
  <2>3. PageMap(get_table_data)
    BY <2>2 DEF Loads
  <2>4. ASSUME NEW t \in todo'
        PROVE  /\ t = <<t[1], t[2]>> /\ t[1] \in DOMAIN cache'
               /\ t[2] \in 1 .. Len(cache'[t[1]].rows) /\ ~RowAt(cache', t).obsolete
    <3>0. PICK p \in DOMAIN get_table_data : \E i \in DOMAIN get_table_data[p].rows :
            t = <<p, i>> /\ ~get_table_data[p].rows[i].obsolete
      BY <2>1 DEF LiveSlots
    <3>1. PICK i \in DOMAIN get_table_data[p].rows :
            t = <<p, i>> /\ ~get_table_data[p].rows[i].obsolete
      BY <3>0
    <3>2. get_table_data[p].rows \in Seq(Row)
      BY <2>3 DEF PageMap, Page
    <3>3. DOMAIN get_table_data[p].rows = 1 .. Len(get_table_data[p].rows)
      BY <3>2, LenProperties
    <3>. HIDE DEF get_table_data
    <3>. QED BY <2>1, <3>1, <3>3 DEF RowAt
  <2>. QED BY <1>1, <1>2, <1>3, <2>1, <2>2, <2>4 DEF Begins
<1>. QED BY <1>4, <1>5

(* insert_row fails after prepare_dp.                                        *)
Throws ==
  /\ phase = "insert" /\ phase' = "idle" /\ txn' = NoTxn /\ todo' = {}
  /\ Loads(cache', pages', dirty')
  /\ UNCHANGED <<log, durable, disk, redone, active, current>>

(* insert_row fails before it has logged anything.                           *)
LEMMA InsertThrowsThrows ==
  ASSUME TypeInv, \A q \in DOMAIN cache : Lists(pages, q), InsertThrows
  PROVE  Throws
<1>1. PICK p \in Pages : /\ MayPrepare(p) /\ cache' = PrepareDp(p).cache
                         /\ dirty' = PrepareDp(p).dirty /\ pages' = PrepareDp(p).pages
  BY DEF InsertThrows
<1>2. Loads(PrepareDp(p).cache, PrepareDp(p).pages, PrepareDp(p).dirty)
  BY <1>1, PrepareLoads
<1>3. /\ phase = "insert" /\ phase' = "idle" /\ txn' = NoTxn /\ todo' = {}
      /\ UNCHANGED <<log, durable, disk, redone, active, current>>
  BY DEF InsertThrows, files, recovery, TypeInv, StmtInv
<1>. QED BY <1>1, <1>2, <1>3 DEF Throws

(* The file of page p is written, with these rows and LSN n.                 *)
Writes(n, p, rows) ==
  /\ p \in Pages /\ DOMAIN disk' = DOMAIN disk \union {p}
  /\ \A q \in DOMAIN disk \ {p} : disk'[q] = disk[q]
  /\ disk'[p].rows = rows /\ disk'[p].last_lsn = n

(* write_page changes one file.                                              *)
LEMMA WritePageWrites ==
  ASSUME PageMap(disk), NEW p \in Pages, NEW pg \in Page, disk' = write_page(p, pg)
  PROVE  Writes(pg.last_lsn, p, pg.rows)
<1> DEFINE pg2 == [pg EXCEPT !.size = Len(pg.rows)]
<1>1. pg2 \in Page /\ pg2.rows = pg.rows /\ pg2.last_lsn = pg.last_lsn
  BY LenProperties DEF Page
<1>2. disk' = Put(disk, p, pg2)
  BY DEF write_page
<1>. HIDE DEF pg2
<1>. QED BY <1>1, <1>2, PutType DEF Writes

(* What redo_data finds: the page's file, or an empty page.                  *)
OldRows(p) == ReadOrCreate(p).rows
OldLsn(p) == ReadOrCreate(p).last_lsn

(* What redo and undo read of a page: its file, or nothing.                  *)
LEMMA OldPage ==
  ASSUME TypeInv, NEW p \in Pages
  PROVE  /\ ReadOrCreate(p) \in Page /\ OldRows(p) \in Seq(Row) /\ OldLsn(p) \in Nat
         /\ p \in DOMAIN disk => OldRows(p) = disk[p].rows /\ OldLsn(p) = disk[p].last_lsn
         /\ p \notin DOMAIN disk => OldRows(p) = <<>> /\ OldLsn(p) = 0
<1>1. NewPage \in Page /\ NewPage.rows = <<>> /\ NewPage.last_lsn = 0
  BY DEF NewPage, Page
<1>2. ReadOrCreate(p) \in Page
  BY <1>1 DEF ReadOrCreate, TypeInv, TypeOK
<1>. QED BY <1>1, <1>2 DEF OldRows, OldLsn, ReadOrCreate, Page

(* Record n of the log is about page p, which has not seen it, and redone.   *)
Redoes(n, p) ==
  /\ p \in Pages /\ OldLsn(p) < n
  /\ \/ RowRec(log, n, p) /\ Done(log, n) /\ Writes(n, p, RedoRows(log[n], OldRows(p)))
     \/ Comp(log, n, p) /\ Writes(n, p, UndoRows(log[log[n].of], OldRows(p)))

(* Page p must have seen record n when REDO is past it.                      *)
Due(n, p) == Comp(log, n, p) \/ (RowRec(log, n, p) /\ Done(log, n))

(* Marked and Ended say the same of the log.                                 *)
LEMMA MarkedIs ==
  ASSUME TypeInv, NEW x, NEW k PROVE Marked(x, k) <=> Ended(log, x, k)
BY LenProperties DEF TypeInv, TypeOK, Marked, Ended

(* redo_data.                                                                *)
LEMMA RedoDataShape ==
  ASSUME TypeInv, NEW n \in 1 .. Len(log), NEW p \in Pages, NEW rows \in Seq(Row), RedoData(n, p, rows)
  PROVE  \/ OldLsn(p) < n /\ Writes(n, p, rows)
         \/ disk' = disk /\ p \in DOMAIN disk /\ n <= disk[p].last_lsn
<1>1. /\ ReadOrCreate(p) \in Page /\ OldLsn(p) \in Nat
      /\ p \in DOMAIN disk => OldLsn(p) = disk[p].last_lsn
      /\ p \notin DOMAIN disk => OldLsn(p) = 0
  BY OldPage
<1>2. n \in Nat /\ n > 0 /\ PageMap(disk)
  BY LenProperties DEF TypeInv, TypeOK, PageMap
<1>3. CASE OldLsn(p) < n
  <2>1. disk' = write_page(p, WithRows(ReadOrCreate(p), rows, n))
    BY <1>3 DEF RedoData, OldLsn
  <2>2. /\ WithRows(ReadOrCreate(p), rows, n) \in Page
        /\ WithRows(ReadOrCreate(p), rows, n).last_lsn = n
        /\ WithRows(ReadOrCreate(p), rows, n).rows = rows
    BY <1>1, <1>2, PageExcept
  <2> DEFINE pg == WithRows(ReadOrCreate(p), rows, n)
  <2>3. disk' = write_page(p, pg) /\ pg \in Page /\ pg.last_lsn = n /\ pg.rows = rows
    BY <2>1, <2>2
  <2>. HIDE DEF pg
  <2>4. Writes(pg.last_lsn, p, pg.rows)
    BY <1>2, <2>3, WritePageWrites
  <2>. QED BY <1>3, <2>3, <2>4
<1>4. CASE ~(OldLsn(p) < n)
  <2>1. disk' = disk
    BY <1>4 DEF RedoData, OldLsn
  <2>2. p \in DOMAIN disk
    BY <1>1, <1>2, <1>4
  <2>. QED BY <1>1, <1>2, <1>4, <2>1, <2>2
<1>. QED BY <1>3, <1>4

(* redo of the next record.                                                  *)
LEMMA RedoShape ==
  ASSUME TypeInv, Redo
  PROVE  /\ redone + 1 \in 1 .. Len(log) /\ phase = "redo"
         /\ redone' = redone + 1
         /\ UNCHANGED <<phase, log, durable, pages, cache, dirty, txn, todo, active, current>>
         /\ \/ \E p \in Pages : Redoes(redone + 1, p)
            \/ /\ disk' = disk
               /\ \A p \in Pages : Due(redone + 1, p) =>
                    p \in DOMAIN disk /\ redone + 1 <= disk[p].last_lsn
<1> DEFINE n == redone + 1
           r == log[n]
<1>1. n \in 1 .. Len(log) /\ Len(log) \in Nat
  BY LenProperties DEF Redo, TypeInv, TypeOK
<1>2. r \in Record
  BY <1>1, ElementOfSeq DEF TypeInv, TypeOK
<1>3. RedoRecord(n)
  BY DEF Redo
<1>4. /\ phase = "redo" /\ redone' = n
      /\ UNCHANGED <<phase, log, durable, pages, cache, dirty, txn, todo, active, current>>
  BY DEF Redo, memory, statement
<1>5. Marked(r.txn, "commit") <=> Done(log, n)
  BY MarkedIs DEF Done
<1> DEFINE Quiet == /\ disk' = disk
                    /\ \A p \in Pages : Due(n, p) => p \in DOMAIN disk /\ n <= disk[p].last_lsn
<1>. HIDE DEF n, Quiet
<1>6. (\E p \in Pages : Redoes(n, p)) \/ Quiet
  <2>1. CASE r.kind = "clr" /\ log[r.of].kind \in DataKinds
    <3> DEFINE p == log[r.of].page
               rows == UndoRows(log[r.of], OldRows(p))
    <3>1. r.of \in 1 .. Len(log)
      BY <1>1, <2>1 DEF TypeInv, LinkInv, LinksBack
    <3>2. log[r.of] \in Record /\ p \in Pages
      BY <2>1, <3>1, ElementOfSeq, RecordFields DEF TypeInv, TypeOK
    <3>3. rows \in Seq(Row)
      BY <2>1, <3>2, OldPage, RecoveredRowsType
    <3>4. RedoData(n, p, rows)
      BY <1>3, <2>1 DEF RedoRecord, OldRows, DataKinds
    <3>5. Comp(log, n, p)
      BY <2>1 DEF Comp, RowRec
    <3>6. \A q : Due(n, q) => q = p
      BY <2>1 DEF Due, Comp, RowRec, DataKinds
    <3>. HIDE DEF rows, p
    <3>7. \/ OldLsn(p) < n /\ Writes(n, p, rows)
          \/ disk' = disk /\ p \in DOMAIN disk /\ n <= disk[p].last_lsn
      BY <1>1, <3>2, <3>3, <3>4, RedoDataShape
    <3>8. CASE OldLsn(p) < n /\ Writes(n, p, rows)
      <4>1. Writes(n, p, UndoRows(log[log[n].of], OldRows(p)))
        BY <3>8 DEF rows
      <4>. QED BY <3>2, <3>5, <3>8, <4>1 DEF Redoes
    <3>9. CASE disk' = disk /\ p \in DOMAIN disk /\ n <= disk[p].last_lsn
      BY <3>6, <3>9 DEF Quiet
    <3>. QED BY <3>7, <3>8, <3>9
  <2>2. CASE r.kind \in DataKinds /\ Done(log, n)
    <3> DEFINE p == r.page
               rows == RedoRows(r, OldRows(p))
    <3>2. p \in Pages
      BY <1>2, <2>2, RecordFields
    <3>3. rows \in Seq(Row)
      BY <1>2, <2>2, <3>2, OldPage, RecoveredRowsType
    <3>4. RedoData(n, p, rows)
      BY <1>3, <1>5, <2>2 DEF RedoRecord, OldRows, DataKinds
    <3>5. RowRec(log, n, p)
      BY <2>2 DEF RowRec
    <3>6. \A q : Due(n, q) => q = p
      BY <2>2 DEF Due, Comp, RowRec, DataKinds
    <3>. HIDE DEF rows, p
    <3>7. \/ OldLsn(p) < n /\ Writes(n, p, rows)
          \/ disk' = disk /\ p \in DOMAIN disk /\ n <= disk[p].last_lsn
      BY <1>1, <3>2, <3>3, <3>4, RedoDataShape
    <3>8. CASE OldLsn(p) < n /\ Writes(n, p, rows)
      <4>1. Writes(n, p, RedoRows(log[n], OldRows(p)))
        BY <3>8 DEF rows
      <4>. QED BY <2>2, <3>2, <3>5, <3>8, <4>1 DEF Redoes
    <3>9. CASE disk' = disk /\ p \in DOMAIN disk /\ n <= disk[p].last_lsn
      BY <3>6, <3>9 DEF Quiet
    <3>. QED BY <3>7, <3>8, <3>9
  <2>3. CASE ~(r.kind = "clr" /\ log[r.of].kind \in DataKinds) /\ ~(r.kind \in DataKinds /\ Done(log, n))
    <3>1. disk' = disk
      BY <1>3, <1>5, <2>3 DEF RedoRecord
    <3>2. \A q : ~Due(n, q)
      BY <2>3 DEF Due, Comp, RowRec
    <3>. QED BY <3>1, <3>2 DEF Quiet
  <2>. QED BY <2>1, <2>2, <2>3
<1>. QED BY <1>1, <1>4, <1>6 DEF n, Quiet

(* undo_record on the page of the record.                                    *)
LEMMA UndoAppliesShape ==
  ASSUME TypeInv, UndoInv, UndoApplies
  PROVE  /\ current \in 1 .. Len(log) /\ log[Len(log)].kind = "clr" /\ log[Len(log)].of = current
         /\ phase = "undo_apply" /\ phase' = "undo" /\ current' = log[current].prev
         /\ UNCHANGED <<log, durable, pages, cache, dirty, txn, todo, redone, active>>
         /\ \/ \E p \in DOMAIN disk :
                 /\ Comp(log, Len(log), p)
                 /\ Writes(Len(log), p, UndoRows(log[log[Len(log)].of], OldRows(p)))
            \/ disk' = disk /\ \A p : ~Comp(log, Len(log), p)
<1> DEFINE r == log[current]
           n == Len(log)
<1>1. /\ current \in 1 .. Len(log) /\ log[Len(log)].kind = "clr" /\ log[Len(log)].of = current
      /\ Undoable(r) /\ Len(log) \in Nat
  BY LenProperties DEF TypeInv, TypeOK, StmtInv, UndoInv, WalkInv, UndoApplies
<1>2. /\ phase = "undo_apply" /\ phase' = "undo" /\ current' = log[current].prev
      /\ UNCHANGED <<log, durable, pages, cache, dirty, txn, todo, redone, active>>
  BY DEF UndoApplies, memory, statement
<1>3. CASE r.kind = "update_table"
  <2>1. disk' = disk
    BY <1>3 DEF UndoApplies
  <2>2. \A p : ~Comp(log, Len(log), p)
    BY <1>1, <1>3 DEF Comp, RowRec, DataKinds
  <2>. QED BY <1>1, <1>2, <2>1, <2>2
<1>4. CASE r.kind # "update_table"
  <2> DEFINE p == r.page
             rows == UndoRows(r, disk[p].rows)
             pg == WithRows(disk[p], rows, n)
  <2>1. r.kind \in DataKinds /\ p \in DOMAIN disk /\ r \in Record
    BY <1>1, <1>4, ElementOfSeq DEF Undoable, TypeInv, TypeOK
  <2>2. p \in Pages /\ PageMap(disk) /\ disk[p] \in Page /\ disk[p].rows \in Seq(Row)
    BY <2>1 DEF TypeInv, TypeOK, PageMap, Page
  <2>3. disk' = write_page(p, pg)
    BY <1>4 DEF UndoApplies
  <2>4. rows \in Seq(Row)
    <3>. HIDE DEF p
    <3>. QED BY <2>1, <2>2, RecoveredRowsType
  <2>5. pg \in Page /\ pg.last_lsn = n /\ pg.rows = rows
    <3>. HIDE DEF rows, p
    <3>. QED BY <1>1, <2>2, <2>4, PageExcept
  <2>6. Writes(n, p, rows)
    <3>. HIDE DEF pg, rows, p, n
    <3>1. Writes(pg.last_lsn, p, pg.rows)
      BY <2>2, <2>3, <2>5, WritePageWrites
    <3>. QED BY <2>5, <3>1
  <2>7. Comp(log, n, p)
    BY <1>1, <2>1 DEF Comp, RowRec
  <2>8. OldRows(p) = disk[p].rows
    BY <2>1, <2>2, OldPage
  <2>. QED BY <1>1, <1>2, <2>1, <2>6, <2>7, <2>8
<1>. QED BY <1>3, <1>4

-----------------------------------------------------------------------------
(* The inductive invariant                                                 *)

(* Phases of a process that is up.                                           *)
Running == InStatement \union {"waiting"}
Normal == InStatement \union {"idle", "waiting", "flushing"}

(* The rows of the pages come from the log, those of the files from the part *)
(* of it that is in the log files; a cached page has the rows of its file.   *)
KnownIn(lg, c) == \A p \in DOMAIN c : KnownBy(lg, Len(lg), c[p].rows, p)
KnownOut == \A p \in DOMAIN disk : KnownBy(log, durable, disk[p].rows, p)
Over(c) ==
  \A p \in DOMAIN c : p \in DOMAIN disk => \A d : Has(disk[p].rows, d) => Has(c[p].rows, d)
Known == KnownIn(log, cache) /\ KnownOut /\ Over(cache)

(* The records of the running statement: of its kind, on cached pages, which *)
(* have their LSN and are dirty unless more of their rows are to be visited; *)
(* the last ones of the log, and not in the log files.                       *)
OwnRow(j) == log[j].txn = txn /\ log[j].kind \in DataKinds
OwnRows ==
  phase \in InStatement =>
    \A j \in 1 .. Len(log) : OwnRow(j) =>
      /\ log[j].kind = phase /\ log[j].page \in DOMAIN cache
      /\ \/ j <= cache[log[j].page].last_lsn /\ log[j].page \in dirty
         \/ \E t \in todo : t[1] = log[j].page
Latest ==
  phase \in Running =>
    \A j \in 1 .. Len(log) : log[j].txn = txn =>
      j > durable /\ \A m \in 1 .. Len(log) : m > j => log[m].txn = txn
Ends ==
  /\ phase = "idle" => txn = NoTxn
  /\ phase \in {"waiting", "flushing"} => Ended(log, txn, "commit")
  /\ phase = "down" => redone = 0
  /\ \A j \in 1 .. Len(log) : log[j].kind \in {"clr", "rollback"} => j <= durable

(* Between crashes the cache has all that is committed, and so have the      *)
(* files of the pages that are not dirty.                                    *)
FreshIn(lg, c, dty) ==
  \A j \in 1 .. Len(lg), p \in Pages : RowRec(lg, j, p) /\ Done(lg, j) =>
    /\ p \in DOMAIN c => j <= c[p].last_lsn
    /\ p \notin dty => p \in DOMAIN disk /\ j <= disk[p].last_lsn
Fresh == phase \in Normal => FreshIn(log, cache, dirty)

(* What compensation records undo is undone in the files, but for the last   *)
(* record of an interrupted recovery.                                        *)
Pending ==
  \A c \in 1 .. Len(log), p \in Pages : Comp(log, c, p) =>
    /\ p \in DOMAIN disk
    /\ c <= disk[p].last_lsn \/ (c = Len(log) /\ phase \in {"down", "redo", "undo_apply"})

(* The REDO pass is through with record n.                                   *)
Reached(n) ==
  \/ phase = "redo" /\ n <= redone
  \/ phase = "undo"
  \/ phase = "undo_apply" /\ n < Len(log)
Redone ==
  \A n \in 1 .. Len(log), p \in Pages : Reached(n) /\ Due(n, p) =>
    p \in DOMAIN disk /\ n <= disk[p].last_lsn

(* A DELETE that has not committed was interrupted by a crash: no other      *)
(* statement has written anything since.                                     *)
DeleteTail ==
  \A i \in 1 .. Len(log) : log[i].kind = "delete" =>
    \/ Done(log, i) \/ Ended(log, log[i].txn, "rollback")
    \/ phase \in InStatement /\ log[i].txn = txn
    \/ /\ phase \notin Normal
       /\ \A j \in 1 .. Len(log) : j >= i /\ log[j].kind \in DataKinds => log[j].txn = log[i].txn

(* get_table_data asks for every page that there is.                         *)
Listed == phase \in Normal => \A p : p \in DOMAIN disk \/ p \in DOMAIN cache => Lists(pages, p)

(* Page p was lost in a crash before anything in it committed.               *)
Gone(p) ==
  /\ p \notin DOMAIN disk /\ p \notin DOMAIN cache
  /\ \A j \in 1 .. Len(log) : RowRec(log, j, p) => ~Done(log, j)

(* Record i is undone: compensated, or there is nothing to undo it in.       *)
Handled(i) ==
  log[i].kind \in DataKinds =>
    \/ \E c \in 1 .. Len(log) : log[c].kind = "clr" /\ log[c].of = i
    \/ Gone(log[i].page)

(* The records of a transaction that was rolled back are undone, and those   *)
(* that undo() has passed.                                                   *)
Rolled ==
  /\ \A i \in 1 .. Len(log) : Ended(log, log[i].txn, "rollback") => Handled(i)
  /\ \A c, i \in 1 .. Len(log) :
       log[c].kind = "clr" /\ log[i].txn = log[c].txn /\ i > log[c].undo_next => Handled(i)
Walked ==
  phase \in {"undo", "undo_apply"} =>
    /\ txn # NoTxn /\ (current # 0 => log[current].kind # "clr") =>
         \A i \in 1 .. Len(log) : log[i].txn = txn /\ i > current => Handled(i)
    /\ \A i \in 1 .. Len(log) : log[i].txn \notin active =>
         Ended(log, log[i].txn, "commit") \/ Ended(log, log[i].txn, "rollback")

(* The pages of the cache, and the page files for each log a crash may leave.*)
CachedRight(lg, x, c) == Fine(lg) => \A p \in DOMAIN c : CachedOK(lg, x, c[p].rows, p)
FilesRight(lg) ==
  Fine(lg) => \A p \in DOMAIN disk : FileOK(lg, disk[p].rows, disk[p].last_lsn, p)
DiskRight ==
  \A lg \in Seq(Record) : Grown(lg, log) /\ durable <= Len(lg) => FilesRight(lg)

(* All of it.                                                                *)
TableInv ==
  /\ History(log) /\ Known /\ Tasks /\ OwnRows /\ Latest /\ Ends
  /\ Fresh /\ Pending /\ Redone /\ DeleteTail /\ Listed /\ Rolled /\ Walked
  /\ CachedRight(log, txn, cache) /\ DiskRight

-----------------------------------------------------------------------------
(* Reading pages                                                           *)

(* Types of the parts of pages that the proofs use.                          *)
LEMMA PageFields ==
  ASSUME TypeInv
  PROVE  /\ Len(log) \in Nat /\ durable \in Nat /\ durable <= Len(log)
         /\ \A p \in DOMAIN cache :
              p \in Pages /\ cache[p].rows \in Seq(Row) /\ cache[p].last_lsn \in Nat
         /\ \A p \in DOMAIN disk :
              p \in Pages /\ disk[p].rows \in Seq(Row) /\ disk[p].last_lsn \in Nat
BY LenProperties DEF TypeInv, TypeOK, Page

(* The log is a prefix of itself.                                            *)
LEMMA GrownSelf == ASSUME TypeInv PROVE Grown(log, log) /\ durable <= Len(log) /\ log \in Seq(Record)
BY PageFields DEF Grown, TypeInv, TypeOK

(* Reading pages brings in rows of the log only.                             *)
LEMMA LoadedKnown ==
  ASSUME TypeInv, Known, NEW c, NEW pgs, NEW dty, Loads(c, pgs, dty)
  PROVE  KnownIn(log, c) /\ Over(c)
<1>1. ASSUME NEW p \in DOMAIN c
      PROVE  \/ p \in DOMAIN cache /\ c[p].rows = cache[p].rows
             \/ p \in DOMAIN disk /\ c[p].rows = disk[p].rows
             \/ p \notin DOMAIN disk /\ c[p].rows = <<>>
  BY DEF Loads, SamePage, NewIn
<1>2. ASSUME NEW p \in DOMAIN c PROVE KnownBy(log, Len(log), c[p].rows, p)
  <2>1. CASE p \in DOMAIN cache /\ c[p].rows = cache[p].rows
    BY <2>1 DEF Known, KnownIn
  <2>2. CASE p \in DOMAIN disk /\ c[p].rows = disk[p].rows
    <3>1. KnownBy(log, durable, disk[p].rows, p)
      BY <2>2 DEF Known, KnownOut
    <3>2. \A i \in 1 .. durable : i \in 1 .. Len(log)
      BY PageFields
    <3>. QED BY <2>2, <3>1, <3>2 DEF KnownBy
  <2>3. CASE p \notin DOMAIN disk /\ c[p].rows = <<>>
    <3>1. Len(c[p].rows) = 0
      BY <2>3
    <3>. QED BY <3>1 DEF KnownBy
  <2>. QED BY <1>1, <2>1, <2>2, <2>3
<1>3. ASSUME NEW p \in DOMAIN c, p \in DOMAIN disk, NEW d, Has(disk[p].rows, d)
      PROVE  Has(c[p].rows, d)
  BY <1>1, <1>3 DEF Known, Over
<1>. QED BY <1>2, <1>3 DEF KnownIn, Over

(* Pages that are read have all that is committed.                           *)
LEMMA LoadedFresh ==
  ASSUME TypeInv, Fresh, phase \in Normal, NEW c, NEW pgs, NEW dty, Loads(c, pgs, dty)
  PROVE  FreshIn(log, c, dty)
<1>. SUFFICES ASSUME NEW j \in 1 .. Len(log), NEW p \in Pages, RowRec(log, j, p), Done(log, j)
              PROVE  /\ p \in DOMAIN c => j <= c[p].last_lsn
                     /\ p \notin dty => p \in DOMAIN disk /\ j <= disk[p].last_lsn
  BY DEF FreshIn
<1>1. /\ p \in DOMAIN cache => j <= cache[p].last_lsn
      /\ p \notin dirty => p \in DOMAIN disk /\ j <= disk[p].last_lsn
  BY DEF Fresh, FreshIn
<1>2. dirty \subseteq DOMAIN cache /\ dirty \subseteq dty
  BY DEF TypeInv, TypeOK, Loads
<1>3. p \in DOMAIN c => j <= c[p].last_lsn
  <2>1. CASE p \in DOMAIN cache
    BY <1>1, <2>1 DEF Loads, SamePage
  <2>2. CASE p \in DOMAIN c \ DOMAIN cache
    <3>1. p \in DOMAIN disk /\ j <= disk[p].last_lsn
      BY <1>1, <1>2, <2>2
    <3>. QED BY <2>2, <3>1 DEF Loads, SamePage, NewIn
  <2>. QED BY <2>1, <2>2
<1>. QED BY <1>1, <1>2, <1>3

(* A page that is read from its file is as it should be in the cache.        *)
LEMMA LoadedRight ==
  ASSUME TypeInv, LsnInv, Known, OwnRows, Ends, Fresh, Pending, DiskRight,
         CachedRight(log, txn, cache),
         phase = "idle" \/ phase \in InStatement,
         NEW c, NEW pgs, NEW dty, Loads(c, pgs, dty)
  PROVE  CachedRight(log, txn, c)
<1>. SUFFICES ASSUME Fine(log), NEW p \in DOMAIN c PROVE CachedOK(log, txn, c[p].rows, p)
  BY DEF CachedRight
<1>0. p \in Pages
  BY DEF Loads, PageMap
<1>1. CASE p \in DOMAIN cache
  <2>1. c[p].rows = cache[p].rows
    BY <1>1 DEF Loads, SamePage
  <2>. QED BY <1>1, <2>1 DEF CachedRight
<1>2. ASSUME p \notin DOMAIN cache, NEW j \in 1 .. Len(log), RowRec(log, j, p) PROVE log[j].txn # txn
  <2>1. CASE phase = "idle"
    <3>1. log[j] \in Record
      BY ElementOfSeq DEF TypeInv, TypeOK
    <3>. QED BY <2>1, <3>1, RecordFields, ConstantsAssumption DEF Ends
  <2>2. CASE phase \in InStatement
    BY <1>2, <2>2 DEF OwnRows, OwnRow, RowRec
  <2>. QED BY <2>1, <2>2
<1>3. CASE p \notin DOMAIN cache /\ p \in DOMAIN disk /\ c[p].rows = disk[p].rows
  <2> DEFINE L == disk[p].last_lsn
  <2>1. FileOK(log, disk[p].rows, L, p)
    BY <1>3, GrownSelf DEF DiskRight, FilesRight
  <2>2. phase \in Normal /\ p \notin dirty
    BY <1>3 DEF Normal, TypeInv, TypeOK
  <2>3. InFile(log, p, L) = InCache(log, txn, p)
    <3>1. ASSUME NEW j \in 1 .. Len(log), RowRec(log, j, p), Done(log, j) PROVE j <= L
      BY <1>0, <2>2, <3>1 DEF Fresh, FreshIn
    <3>. QED BY <1>2, <1>3, <3>1 DEF InFile, InCache
  <2>4. ASSUME NEW i \in 1 .. Len(log), MadeOn(log, i, p)
        PROVE  i \in Undone(log, L) <=> i \in Undone(log, Len(log))
    <3>1. RowRec(log, i, p)
      BY <2>4 DEF MadeOn, Makes, RowRec, DataKinds
    <3>2. ASSUME NEW d \in 1 .. Len(log), log[d].kind = "clr", log[d].of = i PROVE d <= L
      <4>1. Comp(log, d, p)
        BY <3>1, <3>2 DEF Comp
      <4>. QED BY <1>0, <2>2, <4>1 DEF Pending, Normal, InStatement
    <3>3. \A d \in 1 .. Len(log) : d <= Len(log)
      BY PageFields
    <3>. QED BY <3>2, <3>3 DEF Undone
  <2>5. Content(log, InFile(log, p, L), Undone(log, L), disk[p].rows, p)
    BY <2>1 DEF FileOK
  <2>6. Content(log, InFile(log, p, L), Undone(log, Len(log)), disk[p].rows, p)
    BY <2>4, <2>5, ContentSame
  <2>. QED BY <1>3, <2>3, <2>6 DEF CachedOK
<1>4. CASE p \notin DOMAIN cache /\ NewIn(c, p)
  <2>1. InCache(log, txn, p) = {}
    BY <1>4 DEF NewIn, InCache, RowRec
  <2>2. Len(c[p].rows) = 0
    BY <1>4 DEF NewIn
  <2>. QED BY <2>1, <2>2, EmptyContent DEF CachedOK
<1>. QED BY <1>1, <1>3, <1>4 DEF Loads, SamePage

-----------------------------------------------------------------------------
(* One row of a statement                                                  *)

(* The two records that one row of a statement adds to the log.              *)
LEMMA WorksLog ==
  ASSUME TypeInv, NEW c, NEW p, NEW r, Works(c, p, r)
  PROVE  /\ Len(log) \in Nat /\ Len(log') = Len(log) + 2 /\ log'[Len(log) + 1] = r
         /\ Grown(log, log') /\ log \in Seq(Record) /\ log' \in Seq(Record)
         /\ \A i \in 1 .. Len(log) : i \in 1 .. Len(log') /\ log'[i] = log[i]
         /\ \A m \in 1 .. Len(log') : m > Len(log) =>
              /\ log'[m].txn = txn
              /\ log'[m].kind \in DataKinds \union {"update_table"}
              /\ log'[m].kind \in DataKinds => m = Len(log) + 1
         /\ Len(log) + 1 \in 1 .. Len(log') /\ r.kind \in DataKinds
<1>1. Len(log) \in Nat /\ log \in Seq(Record) /\ AddsPair(r) /\ r.kind \in DataKinds /\ r.txn = txn
  BY PageFields DEF Works, TypeInv, TypeOK, InStatement, DataKinds
<1>2. \A m \in 1 .. Len(log') : m > Len(log) => m = Len(log) + 1 \/ m = Len(log) + 2
  BY <1>1 DEF AddsPair
<1>. QED BY <1>1, <1>2 DEF AddsPair, Grown, DataKinds

(* It commits nothing, and nothing of its transaction is committed.          *)
LEMMA WorksDone ==
  ASSUME TypeInv, UndoInv, NEW c, NEW p, NEW r, Works(c, p, r)
  PROVE  /\ \A x : Ended(log', x, "commit") <=> Ended(log, x, "commit")
         /\ \A x : Ended(log', x, "rollback") <=> Ended(log, x, "rollback")
         /\ ~Ended(log, txn, "commit") /\ ~Ended(log, txn, "rollback")
         /\ \A j \in 1 .. Len(log) : (Done(log', j) <=> Done(log, j))
         /\ \A m \in 1 .. Len(log') : m > Len(log) => ~Done(log', m)
         /\ Undone(log', Len(log')) = Undone(log, Len(log))
<1>1. /\ Grown(log, log') /\ log \in Seq(Record) /\ log' \in Seq(Record)
      /\ \A i \in 1 .. Len(log) : log'[i] = log[i]
      /\ \A m \in 1 .. Len(log') : m > Len(log) =>
           log'[m].txn = txn /\ log'[m].kind \notin {"commit", "rollback", "clr"}
  BY WorksLog DEF DataKinds
<1>2. ASSUME NEW x
      PROVE  /\ Ended(log', x, "commit") <=> Ended(log, x, "commit")
             /\ Ended(log', x, "rollback") <=> Ended(log, x, "rollback")
  BY <1>1, DoneBefore
<1>3. ~Ended(log, txn, "commit") /\ ~Ended(log, txn, "rollback")
  BY DEF Works, UndoInv, WalkInv, Working, Ended
<1>4. Undone(log', Len(log')) = Undone(log, Len(log))
  <2>1. \A m \in 1 .. Len(log') : m > Len(log) => log'[m].kind # "clr"
    BY <1>1
  <2>2. \A i \in 1 .. Len(log) : LinksBack(log, i)
    BY DEF TypeInv, LinkInv
  <2>. QED BY <1>1, <2>1, <2>2, UndoneGrows
<1>5. \A j \in 1 .. Len(log) : (Done(log', j) <=> Done(log, j))
  BY <1>1, <1>2 DEF Done
<1>6. \A m \in 1 .. Len(log') : m > Len(log) => ~Done(log', m)
  BY <1>1, <1>2, <1>3 DEF Done
<1>. QED BY <1>2, <1>3, <1>4, <1>5, <1>6

(* What it changes is a live row of page p.                                  *)
LEMMA WorksRow ==
  ASSUME TypeInv, Tasks, NEW c, NEW p, NEW r, Works(c, p, r), r.kind # "insert"
  PROVE  /\ \E n \in 1 .. Len(c[p].rows) :
              /\ c[p].rows[n].id = r.before.id /\ c[p].rows[n].val = r.before.val
              /\ ~c[p].rows[n].obsolete
         /\ \E i \in 1 .. Len(log) : /\ MadeOn(log, i, p) /\ log[i].txn # txn
                                     /\ log[i].after.id = r.before.id
<1>1. PICK t \in todo : /\ t[1] = p /\ r.before.id = RowAt(cache, t).id
                        /\ r.before.val = RowAt(cache, t).val
  BY DEF Works
<1>2. p \in DOMAIN cache /\ t[2] \in DOMAIN cache[p].rows /\ cache[p].rows \in Seq(Row)
  BY <1>1, PageFields DEF TypeInv, TypeOK
<1>3. t[2] \in 1 .. Len(cache[p].rows)
  BY <1>2, LenProperties
<1>4. c[p].rows = cache[p].rows
  BY <1>2 DEF Works, Loads, SamePage
<1>5. /\ ~RowAt(cache, t).obsolete
      /\ \E i \in 1 .. Len(log) : /\ MadeOn(log, i, p) /\ log[i].txn # txn
                                  /\ log[i].after.id = RowAt(cache, t).id
  BY <1>1 DEF Tasks
<1>. QED BY <1>1, <1>3, <1>4, <1>5 DEF RowAt

(* Nothing that was done to the version it replaces is in the cache: the row *)
(* would be obsolete.                                                        *)
LEMMA WorksCurrent ==
  ASSUME TypeInv, UndoInv, History(log), Tasks, NEW c, NEW p, NEW r, Works(c, p, r),
         Fine(log'), KnownIn(log, c), CachedRight(log, txn, c),
         NEW i \in 1 .. Len(log), Replaces(log', Len(log) + 1, i)
  PROVE  /\ Fine(log) /\ MadeOn(log, i, p) /\ Has(c[p].rows, log[i].after.id)
         /\ r.before.val = log[i].after.val /\ log[i].txn # txn
         /\ \A j \in 1 .. Len(log), q \in DOMAIN c :
              Replaces(log, j, i) => ~Applied(log, InCache(log, txn, q), c[q].rows, j)
         /\ \A j \in 1 .. Len(log) : Replaces(log, j, i) => log[j].page = p
<1> DEFINE n == Len(log) + 1
<1>1. /\ Len(log) \in Nat /\ log'[n] = r /\ Grown(log, log')
      /\ log \in Seq(Record) /\ log' \in Seq(Record)
      /\ \A k \in 1 .. Len(log) : k \in 1 .. Len(log') /\ log'[k] = log[k]
      /\ n \in 1 .. Len(log')
  BY WorksLog
<1>2. Fine(log)
  BY <1>1, GrownFine
<1>3. r.kind \in {"update", "delete"} /\ Makes(log, i) /\ log[i].after.id = r.before.id
  BY <1>1 DEF Replaces, Makes
<1>4. PICK m \in 1 .. Len(c[p].rows) :
        /\ c[p].rows[m].id = r.before.id /\ c[p].rows[m].val = r.before.val
        /\ ~c[p].rows[m].obsolete
  BY <1>3, WorksRow
<1>5. PICK s \in 1 .. Len(log) : MadeOn(log, s, p) /\ log[s].txn # txn /\ log[s].after.id = r.before.id
  BY <1>3, WorksRow
<1>6. s = i
  BY <1>2, <1>3, <1>5 DEF Fine, IdsDistinct, MadeOn
<1>7. MadeOn(log, i, p) /\ Has(c[p].rows, log[i].after.id) /\ log[i].txn # txn /\ p \in DOMAIN c
  BY <1>3, <1>4, <1>5, <1>6 DEF Has, Works
<1>8. CachedOK(log, txn, c[p].rows, p)
  BY <1>2, <1>7 DEF CachedRight
<1> DEFINE S == InCache(log, txn, p)
           U == Undone(log, Len(log))
<1>9. /\ ~\E j \in 1 .. Len(log) : Replaces(log, j, i) /\ Applied(log, S, c[p].rows, j)
      /\ c[p].rows[m].val = IF log[i].kind = "update" /\ i \in U THEN log[i].before.val
                                                                 ELSE log[i].after.val
  BY <1>3, <1>4, <1>7, <1>8 DEF CachedOK, Content, Versions
<1>10. i \notin U
  <2>1. SUFFICES ASSUME i \in U PROVE FALSE
    OBVIOUS
  <2>2. PICK d \in 1 .. Len(log) : log[d].kind = "clr" /\ log[d].of = i
    BY <2>1 DEF Undone
  <2>3. ~Done(log, i)
    BY <1>1, <2>2, UndoneNotDone DEF UndoInv, TypeInv, LinkInv
  <2>4. \E k \in 1 .. n - 1 : log'[k].kind = "commit" /\ log'[k].txn = log'[i].txn
    BY <1>1 DEF Fine, OnCommitted
  <2>5. \A k \in 1 .. n - 1 : k \in 1 .. Len(log)
    BY <1>1
  <2>. QED BY <1>1, <2>3, <2>4, <2>5 DEF Done, Ended
<1>11. ASSUME NEW j \in 1 .. Len(log), Replaces(log, j, i) PROVE log[j].page = p
  <2>1. log[j].page = log[i].page
    BY <1>1, <1>2, <1>11, ReplacedRow
  <2>. QED BY <1>7, <2>1 DEF MadeOn
<1>12. ASSUME NEW j \in 1 .. Len(log), NEW q \in DOMAIN c, Replaces(log, j, i),
              Applied(log, InCache(log, txn, q), c[q].rows, j)
       PROVE  FALSE
  <2>1. log[j].page = p
    BY <1>11, <1>12
  <2>2. CASE q = p
    BY <1>9, <1>12, <2>2
  <2>3. CASE q # p
    <3>1. CASE log[j].kind = "delete"
      BY <1>12, <2>1, <2>3, <3>1 DEF Applied, InCache, RowRec
    <3>2. CASE log[j].kind # "delete"
      <4>1. log[j].kind = "update" /\ Has(c[q].rows, log[j].after.id)
        BY <1>12, <3>2 DEF Applied
      <4>2. PICK k \in 1 .. Len(log) : MadeOn(log, k, q) /\ log[k].after.id = log[j].after.id
        BY <4>1 DEF KnownIn, KnownBy, Has
      <4>3. k = j
        BY <1>2, <4>1, <4>2 DEF Fine, IdsDistinct, MadeOn, Makes
      <4>. QED BY <2>1, <2>3, <4>2, <4>3 DEF MadeOn
    <3>. QED BY <3>1, <3>2
  <2>. QED BY <2>2, <2>3
<1>13. r.before.val = log[i].after.val
  BY <1>4, <1>9, <1>10
<1>. QED BY <1>2, <1>7, <1>11, <1>12, <1>13

(* Its record fits the history.                                              *)
LEMMA WorksHistory ==
  ASSUME TypeInv, UndoInv, History(log), Tasks, NEW c, NEW p, NEW r, Works(c, p, r),
         KnownIn(log, c), CachedRight(log, txn, c)
  PROVE  History(log')
<1> DEFINE n == Len(log) + 1
<1>1. /\ Len(log) \in Nat /\ log'[n] = r /\ Grown(log, log')
      /\ log \in Seq(Record) /\ log' \in Seq(Record)
      /\ \A k \in 1 .. Len(log) : k \in 1 .. Len(log') /\ log'[k] = log[k]
      /\ \A m \in 1 .. Len(log') : m > Len(log) =>
              /\ log'[m].kind \in DataKinds \union {"update_table"}
              /\ log'[m].kind \in DataKinds => m = Len(log) + 1
      /\ n \in 1 .. Len(log') /\ r.kind \in DataKinds /\ Len(log') = Len(log) + 2
  BY WorksLog
<1>2. ASSUME NEW m \in 1 .. Len(log'), m > Len(log), m # n PROVE Told(log', m)
  BY <1>1, <1>2, PlainTold DEF DataKinds
<1>3. Told(log', n)
  <2>1. Sourced(log', n)
    <3>1. CASE r.kind = "insert"
      BY <1>1, <3>1 DEF Sourced
    <3>2. CASE r.kind # "insert"
      <4>1. PICK s \in 1 .. Len(log) : MadeOn(log, s, p) /\ log[s].txn # txn /\ log[s].after.id = r.before.id
        BY <3>2, WorksRow
      <4>2. s \in 1 .. n - 1 /\ log'[s] = log[s] /\ r.page = p /\ r.txn = txn
        BY <1>1 DEF Works
      <4>. QED BY <1>1, <4>1, <4>2 DEF Sourced, MadeOn, Makes
    <3>. QED BY <3>1, <3>2
  <2>2. Alone(log', n)
    BY <1>1 DEF Alone, DataKinds
  <2>3. Makes(log', n) => log'[n].after.obsolete = FALSE
    BY <1>1 DEF Makes, Works
  <2>4. ASSUME FineTo(log', n) PROVE Rightful(log', n)
    <3>1. Fine(log')
      <4>1. \A m \in 1 .. Len(log') : m \in 1 .. n \/ log'[m].kind = "update_table"
        BY <1>1
      <4>2. \A m \in 1 .. Len(log') : Makes(log', m) \/ log'[m].kind \in {"update", "delete"} => m \in 1 .. n
        BY <4>1 DEF Makes
      <4>3. IdsDistinct(log')
        BY <2>4, <4>2 DEF FineTo, IdsDistinct
      <4>4. OnCommitted(log')
        BY <2>4, <4>2 DEF FineTo, OnCommitted, Replaces
      <4>. QED BY <4>3, <4>4 DEF Fine
    <3>. SUFFICES ASSUME NEW i \in 1 .. n - 1, Replaces(log', n, i)
         PROVE  /\ log'[n].before.val = log'[i].after.val
                /\ \A j \in 1 .. n - 1 : Replaces(log', j, i) =>
                     /\ log'[j].txn # log'[n].txn
                     /\ \A k \in 1 .. n - 1 : ~(log'[k].kind = "commit" /\ log'[k].txn = log'[j].txn)
      BY DEF Rightful
    <3>2. i \in 1 .. Len(log)
      BY <1>1
    <3>3. /\ Fine(log) /\ r.before.val = log[i].after.val
          /\ \A j \in 1 .. Len(log), q \in DOMAIN c :
               Replaces(log, j, i) => ~Applied(log, InCache(log, txn, q), c[q].rows, j)
          /\ \A j \in 1 .. Len(log) : Replaces(log, j, i) => log[j].page = p
      BY <3>1, <3>2, WorksCurrent
    <3>4. ASSUME NEW j \in 1 .. n - 1, Replaces(log', j, i)
          PROVE  log[j].txn # txn /\ ~Done(log, j)
      <4>1. j \in 1 .. Len(log) /\ Replaces(log, j, i)
        BY <1>1, <3>2, <3>4 DEF Replaces, Makes
      <4>2. p \in DOMAIN c /\ CachedOK(log, txn, c[p].rows, p)
        BY <3>3 DEF Works, CachedRight
      <4>3. RowRec(log, j, p)
        BY <3>3, <4>1 DEF RowRec, Replaces, DataKinds
      <4>4. SUFFICES ASSUME j \in InCache(log, txn, p) PROVE FALSE
        BY <4>1, <4>3 DEF InCache
      <4>5. Applied(log, InCache(log, txn, p), c[p].rows, j)
        BY <4>1, <4>2, <4>4 DEF Applied, CachedOK, Content, Present, Replaces, Makes
      <4>. QED BY <3>3, <4>1, <4>2, <4>5
    <3>5. ASSUME NEW j \in 1 .. n - 1, Replaces(log', j, i)
          PROVE  /\ log'[j].txn # log'[n].txn
                 /\ \A k \in 1 .. n - 1 : ~(log'[k].kind = "commit" /\ log'[k].txn = log'[j].txn)
      <4>1. log'[n].txn = txn /\ \A k \in 1 .. n - 1 : k \in 1 .. Len(log) /\ log'[k] = log[k]
        BY <1>1 DEF Works
      <4>. QED BY <3>4, <3>5, <4>1 DEF Done, Ended
    <3>. QED BY <1>1, <3>2, <3>3, <3>5
  <2>. QED BY <2>1, <2>2, <2>3, <2>4 DEF Told
<1>4. \A m \in 1 .. Len(log') : m > Len(log) => Told(log', m)
  BY <1>2, <1>3
<1>. QED BY <1>1, <1>4, HistoryGrows

(* Rows stay known when the log goes on, or loses none of the first m.       *)
LEMMA KnownGrows ==
  ASSUME NEW lg, NEW lg2, NEW m \in Nat, NEW m2 \in Nat, m <= m2, \A i \in 1 .. m : lg2[i] = lg[i],
         NEW rows, NEW p, KnownBy(lg, m, rows, p)
  PROVE  KnownBy(lg2, m2, rows, p)
<1>1. ASSUME NEW n \in 1 .. Len(rows)
      PROVE  \E i \in 1 .. m2 : MadeOn(lg2, i, p) /\ lg2[i].after.id = rows[n].id
  <2>1. PICK i \in 1 .. m : MadeOn(lg, i, p) /\ lg[i].after.id = rows[n].id
    BY DEF KnownBy
  <2>2. i \in 1 .. m2 /\ lg2[i] = lg[i]
    OBVIOUS
  <2>. QED BY <2>1, <2>2 DEF MadeOn, Makes
<1>. QED BY <1>1 DEF KnownBy

(* The row ids of the page it works on.                                      *)
LEMMA WorksKnown ==
  ASSUME TypeInv, TypeInv', UndoInv, Known, NEW c, NEW p, NEW r, Works(c, p, r),
         KnownIn(log, c), Over(c)
  PROVE  Known'
<1>1. /\ Len(log) \in Nat /\ log'[Len(log) + 1] = r
      /\ \A k \in 1 .. Len(log) : k \in 1 .. Len(log') /\ log'[k] = log[k]
      /\ Len(log) + 1 \in 1 .. Len(log') /\ r.kind \in DataKinds
  BY WorksLog
<1>2. /\ DOMAIN cache' = DOMAIN c /\ r.page = p /\ disk' = disk /\ durable' = durable
      /\ \A q \in DOMAIN c \ {p} : cache'[q].rows = c[q].rows
      /\ \A d : Has(cache'[p].rows, d) <=> Has(c[p].rows, d) \/ (r.kind # "delete" /\ d = r.after.id)
  BY DEF Works, SamePage
<1>3. ASSUME NEW q \in DOMAIN c, NEW d, Has(cache'[q].rows, d)
      PROVE  Has(c[q].rows, d) \/ (q = p /\ r.kind # "delete" /\ d = r.after.id)
  BY <1>2, <1>3
<1>4. ASSUME NEW q \in DOMAIN cache', NEW n \in 1 .. Len(cache'[q].rows)
      PROVE  \E i \in 1 .. Len(log') : MadeOn(log', i, q) /\ log'[i].after.id = cache'[q].rows[n].id
  <2> DEFINE d == cache'[q].rows[n].id
  <2>1. Has(cache'[q].rows, d)
    BY <1>4 DEF Has
  <2>. HIDE DEF d
  <2>2. CASE Has(c[q].rows, d)
    <3>1. PICK i \in 1 .. Len(log) : MadeOn(log, i, q) /\ log[i].after.id = d
      BY <1>2, <2>2 DEF KnownIn, KnownBy, Has
    <3>. QED BY <1>1, <3>1 DEF MadeOn, Makes, d
  <2>3. CASE q = p /\ r.kind # "delete" /\ d = r.after.id
    <3>1. MadeOn(log', Len(log) + 1, q) /\ log'[Len(log) + 1].after.id = d
      BY <1>1, <1>2, <2>3 DEF MadeOn, Makes, DataKinds
    <3>. QED BY <1>1, <3>1 DEF d
  <2>. QED BY <1>2, <1>3, <2>1, <2>2, <2>3
<1>5. KnownIn(log', cache')
  BY <1>4 DEF KnownIn, KnownBy
<1>6. KnownOut'
  <2>1. durable \in Nat /\ \A i \in 1 .. durable : log'[i] = log[i]
    BY <1>1, PageFields
  <2>2. ASSUME NEW q \in DOMAIN disk PROVE KnownBy(log', durable, disk[q].rows, q)
    <3>1. KnownBy(log, durable, disk[q].rows, q)
      BY DEF Known, KnownOut
    <3>. QED BY <2>1, <3>1, KnownGrows
  <2>. QED BY <1>2, <2>2 DEF KnownOut
<1>7. Over(cache)'
  <2>1. ASSUME NEW q \in DOMAIN cache', q \in DOMAIN disk, NEW d, Has(disk[q].rows, d)
        PROVE  Has(cache'[q].rows, d)
    <3>1. Has(c[q].rows, d)
      BY <1>2, <2>1 DEF Over
    <3>. QED BY <1>2, <2>1, <3>1
  <2>. QED BY <1>2, <2>1 DEF Over
<1>. QED BY <1>5, <1>6, <1>7 DEF Known

(* The page it works on, and the others.                                     *)
LEMMA WorksPage ==
  ASSUME TypeInv, TypeInv', UndoInv, History(log), History(log'), Tasks,
         NEW c, NEW p, NEW r, Works(c, p, r),
         KnownIn(log, c), CachedRight(log, txn, c), Fine(log'), NEW q \in DOMAIN c
  PROVE  LET S == InCache(log, txn, q)
             U == Undone(log, Len(log))
         IN  Content(log', IF q = p THEN S \union {Len(log) + 1} ELSE S, U, cache'[q].rows, q)
<1> DEFINE n == Len(log) + 1
           S == InCache(log, txn, q)
           U == Undone(log, Len(log))
<1>1. /\ Len(log) \in Nat /\ log'[n] = r /\ Grown(log, log')
      /\ log \in Seq(Record) /\ log' \in Seq(Record) /\ Len(log') = Len(log) + 2
      /\ \A k \in 1 .. Len(log) : k \in 1 .. Len(log') /\ log'[k] = log[k]
      /\ \A m \in 1 .. Len(log') : m > Len(log) =>
              /\ log'[m].kind \in DataKinds \union {"update_table"}
              /\ log'[m].kind \in DataKinds => m = Len(log) + 1
      /\ n \in 1 .. Len(log') /\ r.kind \in DataKinds
  BY WorksLog
<1>2. Fine(log)
  BY <1>1, GrownFine
<1>3. Content(log, S, U, c[q].rows, q) /\ KnownBy(log, Len(log), c[q].rows, q)
  BY <1>2 DEF CachedRight, CachedOK, KnownIn
<1>4. S \subseteq 1 .. Len(log)
  BY DEF InCache
<1>5. ASSUME NEW m \in 1 .. Len(log'), m > Len(log), NEW i \in 1 .. Len(log'), Replaces(log', m, i)
      PROVE  m = n /\ i \in 1 .. Len(log)
  <2>1. m = n
    BY <1>1, <1>5 DEF Replaces, DataKinds
  <2>2. i < m
    BY <1>5 DEF Fine, OnCommitted
  <2>. QED BY <1>1, <2>1, <2>2
<1>6. ASSUME NEW i \in 1 .. Len(log), Replaces(log', n, i), NEW j \in 1 .. Len(log), Replaces(log, j, i)
      PROVE  ~Applied(log, S, c[q].rows, j)
  BY <1>6, WorksCurrent
<1>7. Content(log', S, U, c[q].rows, q)
  <2>1. \A m \in 1 .. Len(log'), i, j \in 1 .. Len(log) :
           m \notin 1 .. Len(log) /\ Replaces(log', m, i) /\ Replaces(log, j, i) =>
             ~Applied(log, S, c[q].rows, j)
    <3>1. ASSUME NEW m \in 1 .. Len(log'), NEW i \in 1 .. Len(log), NEW j \in 1 .. Len(log),
                 m \notin 1 .. Len(log), Replaces(log', m, i), Replaces(log, j, i)
          PROVE  ~Applied(log, S, c[q].rows, j)
      <4>1. m > Len(log) /\ i \in 1 .. Len(log')
        BY <1>1, <3>1
      <4>2. m = n
        BY <1>5, <3>1, <4>1
      <4>. QED BY <1>6, <3>1, <4>2
    <3>. QED BY <3>1
  <2>. HIDE DEF S, U, n
  <2>. QED BY <1>1, <1>3, <1>4, <2>1, ContentGrows
<1>8. CASE q # p
  <2>1. cache'[q].rows = c[q].rows
    BY <1>8 DEF Works, SamePage
  <2>. QED BY <1>7, <1>8, <2>1
<1>9. CASE q = p
  <2> DEFINE rows == c[p].rows
             rows2 == cache'[p].rows
  <2>1. rows \in Seq(Row) /\ p \in DOMAIN c
    BY DEF Works, Loads, PageMap, Page
  <2>2. Applies(log'[n], rows, rows2)
    BY <1>1, <1>3, <1>9 DEF Works, Content
  <2>3. RowRec(log', n, p)
    BY <1>1 DEF RowRec, Works
  <2>4. BornLive(log')
    BY DEF History, Told, BornLive
  <2>5. n \notin U /\ n \notin S
    BY <1>1, <1>4 DEF Undone
  <2>6. Makes(log', n) => ~Has(rows, log'[n].after.id)
    <3>1. SUFFICES ASSUME Makes(log', n), Has(rows, log'[n].after.id) PROVE FALSE
      OBVIOUS
    <3>2. PICK i \in 1 .. Len(log) : MadeOn(log, i, p) /\ log[i].after.id = log'[n].after.id
      BY <1>3, <1>9, <3>1 DEF KnownBy, Has
    <3>3. i = n
      BY <1>1, <3>1, <3>2 DEF Fine, IdsDistinct, MadeOn, Makes
    <3>. QED BY <1>1, <3>3
  <2>7. ASSUME NEW i \in 1 .. Len(log'), Replaces(log', n, i)
        PROVE  Has(rows, log'[i].after.id)
    <3>1. i \in 1 .. Len(log)
      BY <1>1, <1>5, <2>7
    <3>2. Has(c[p].rows, log[i].after.id)
      BY <2>7, <3>1, WorksCurrent
    <3>. QED BY <1>1, <3>1, <3>2
  <2>8. ASSUME NEW i \in 1 .. Len(log'), Replaces(log', n, i),
               NEW k \in 1 .. Len(log'), Replaces(log', k, i)
        PROVE  k <= n /\ ~Applied(log', S, rows, k)
    <3>1. i \in 1 .. Len(log)
      BY <1>1, <1>5, <2>8
    <3>2. CASE k \in 1 .. Len(log)
      <4>1. Replaces(log, k, i)
        BY <1>1, <2>8, <3>1, <3>2 DEF Replaces, Makes
      <4>2. ~Applied(log, S, c[p].rows, k)
        BY <1>6, <1>9, <2>8, <3>1, <3>2, <4>1
      <4>. QED BY <1>1, <3>2, <4>2 DEF Applied
    <3>3. CASE k > Len(log)
      <4>1. k = n
        BY <1>5, <2>8, <3>3
      <4>2. ~Applied(log', S, rows, n)
        BY <2>5, <2>6 DEF Applied, Makes
      <4>. QED BY <1>1, <4>1, <4>2
    <3>. QED BY <1>1, <3>2, <3>3
  <2>9. \A i \in 1 .. Len(log') : Replaces(log', n, i) =>
           /\ Has(rows, log'[i].after.id)
           /\ \A k \in 1 .. Len(log') : Replaces(log', k, i) => k <= n /\ ~Applied(log', S, rows, k)
    BY <2>7, <2>8
  <2>10. Content(log', S, U, rows, p)
    BY <1>7, <1>9
  <2>11. Content(log', S \union {n}, U, rows2, p)
    <3>. HIDE DEF S, U, n, rows, rows2
    <3>. QED BY <1>1, <2>1, <2>2, <2>3, <2>4, <2>5, <2>6, <2>9, <2>10, ApplyRecord
  <2>. QED BY <1>9, <2>11
<1>. QED BY <1>8, <1>9

(* The cache after it, also when the statement fails then.                   *)
LEMMA WorksCached ==
  ASSUME TypeInv, TypeInv', UndoInv, History(log), History(log'), Tasks, OwnRows,
         NEW c, NEW p, NEW r, Works(c, p, r),
         KnownIn(log, c), CachedRight(log, txn, c)
  PROVE  CachedRight(log', txn', cache')
<1>. SUFFICES ASSUME Fine(log'), NEW q \in DOMAIN cache' PROVE CachedOK(log', txn', cache'[q].rows, q)
  BY DEF CachedRight
<1> DEFINE n == Len(log) + 1
           S == InCache(log, txn, q)
           U == Undone(log, Len(log))
           T == IF q = p THEN S \union {Len(log) + 1} ELSE S
<1>1. /\ Len(log) \in Nat /\ log'[n] = r /\ Len(log') = Len(log) + 2
      /\ log \in Seq(Record) /\ log' \in Seq(Record)
      /\ \A k \in 1 .. Len(log) : k \in 1 .. Len(log') /\ log'[k] = log[k]
      /\ \A m \in 1 .. Len(log') : m > Len(log) =>
              /\ log'[m].txn = txn
              /\ log'[m].kind \in DataKinds => m = Len(log) + 1
      /\ n \in 1 .. Len(log') /\ r.kind \in DataKinds
  BY WorksLog
<1>2. q \in DOMAIN c
  BY DEF Works
<1>3. Content(log', T, U, cache'[q].rows, q)
  BY <1>2, WorksPage
<1>4. Undone(log', Len(log')) = U
  BY WorksDone
<1>5. ASSUME NEW j PROVE j \in T <=> /\ j \in 1 .. Len(log') /\ RowRec(log', j, q)
                                     /\ Done(log', j) \/ log'[j].txn = txn
  <2>1. CASE j \in 1 .. Len(log)
    <3>1. j # n /\ j \in 1 .. Len(log') /\ log'[j] = log[j] /\ (Done(log', j) <=> Done(log, j))
      BY <1>1, <2>1, WorksDone
    <3>. QED BY <2>1, <3>1 DEF InCache, RowRec
  <2>2. CASE j = n
    <3>1. log'[j] = r /\ j \in 1 .. Len(log') /\ r.txn = txn /\ r.page = p /\ j \notin S
      BY <1>1, <2>2 DEF Works, InCache
    <3>. QED BY <1>1, <2>2, <3>1 DEF RowRec
  <2>3. CASE j \notin 1 .. Len(log) /\ j # n
    <3>1. j \notin T
      BY <2>3 DEF InCache
    <3>2. j \in 1 .. Len(log') => j > Len(log)
      BY <1>1, <2>3
    <3>. QED BY <1>1, <2>3, <3>1, <3>2 DEF RowRec
  <2>. QED BY <2>1, <2>2, <2>3
<1>. HIDE DEF T
<1>6. CASE txn' = txn
  <2>1. InCache(log', txn', q) = T
    BY <1>5, <1>6 DEF InCache
  <2>. QED BY <1>3, <1>4, <2>1 DEF CachedOK
<1>7. CASE txn' # txn
  <2>1. phase = "update" /\ txn' = NoTxn
    BY <1>7 DEF Works
  <2>2. \A j \in 1 .. Len(log') : log'[j].txn # NoTxn
    <3>1. \A j \in 1 .. Len(log') : log'[j] \in Record
      BY <1>1, ElementOfSeq
    <3>. QED BY <3>1, RecordFields, ConstantsAssumption
  <2>3. InCache(log', txn', q) \subseteq T
    BY <1>5, <2>1, <2>2 DEF InCache
  <2>4. ASSUME NEW j \in T \ InCache(log', txn', q) PROVE log'[j].kind # "delete"
    <3>1. j \in 1 .. Len(log') /\ RowRec(log', j, q) /\ log'[j].txn = txn
      BY <1>5, <2>4 DEF InCache
    <3>2. CASE j \in 1 .. Len(log)
      <4>1. OwnRow(j)
        BY <1>1, <3>1, <3>2 DEF OwnRow, RowRec
      <4>. QED BY <1>1, <2>1, <3>2, <4>1 DEF OwnRows, InStatement
    <3>3. CASE j > Len(log)
      <4>1. j = n /\ r.kind = phase
        BY <1>1, <3>1, <3>3 DEF RowRec, Works
      <4>. QED BY <1>1, <2>1, <4>1
    <3>. QED BY <1>1, <3>1, <3>2, <3>3
  <2>5. Content(log', InCache(log', txn', q), U, cache'[q].rows, q)
    BY <1>3, <2>3, <2>4, ContentShrinks
  <2>. QED BY <1>4, <2>5 DEF CachedOK
<1>. QED BY <1>6, <1>7

(* The page files do not depend on the records after those they have seen.   *)
LEMMA DiskGrows ==
  ASSUME TypeInv, TypeInv', DiskRight, UNCHANGED <<disk, durable>>, Grown(log, log'),
         \A lg \in Seq(Record) : Grown(log, lg) /\ Grown(lg, log') /\ Len(lg) > Len(log) /\ Fine(lg) =>
           \A p \in DOMAIN disk : FileOK(lg, disk[p].rows, disk[p].last_lsn, p)
  PROVE  DiskRight'
<1>. SUFFICES ASSUME NEW lg \in Seq(Record), Grown(lg, log'), durable <= Len(lg), Fine(lg),
                     NEW p \in DOMAIN disk
              PROVE  FileOK(lg, disk[p].rows, disk[p].last_lsn, p)
  BY DEF DiskRight, FilesRight
<1>1. Len(log) \in Nat /\ Len(lg) \in Nat /\ Len(log') \in Nat
  BY PageFields, LenProperties DEF TypeInv, TypeOK
<1>2. CASE Len(lg) <= Len(log)
  <2>1. Grown(lg, log)
    BY <1>1, <1>2 DEF Grown
  <2>. QED BY <2>1 DEF DiskRight, FilesRight
<1>3. CASE Len(lg) > Len(log)
  <2>1. Grown(log, lg)
    BY <1>1, <1>3 DEF Grown
  <2>. QED BY <1>3, <2>1
<1>. QED BY <1>1, <1>2, <1>3

(* The record of the table's metadata that follows changes nothing.          *)
LEMMA WorksFine ==
  ASSUME TypeInv, NEW c, NEW p, NEW r, Works(c, p, r), NEW lg \in Seq(Record), Grown(lg, log'),
         Len(lg) > Len(log), Fine(lg)
  PROVE  Fine(log') /\ Len(log) + 1 \in 1 .. Len(lg)
<1> DEFINE n == Len(log) + 1
<1>1. /\ Len(log) \in Nat /\ log' \in Seq(Record) /\ Len(log') = Len(log) + 2
      /\ \A m \in 1 .. Len(log') : m > Len(log) =>
              /\ log'[m].kind \in DataKinds \union {"update_table"}
              /\ log'[m].kind \in DataKinds => m = Len(log) + 1
  BY WorksLog
<1>2. Len(lg) \in Nat
  BY LenProperties
<1>3. n \in 1 .. Len(lg)
  BY <1>1, <1>2
<1>4. \A m \in 1 .. Len(log') : Makes(log', m) \/ log'[m].kind \in {"update", "delete"} =>
        m \in 1 .. Len(lg) /\ lg[m] = log'[m]
  <2>1. \A m \in 1 .. Len(log') : Makes(log', m) \/ log'[m].kind \in {"update", "delete"} => m <= n
    BY <1>1 DEF Makes, DataKinds
  <2>. QED BY <1>1, <1>2, <1>3, <2>1 DEF Grown
<1>5. IdsDistinct(log')
  BY <1>4 DEF Fine, IdsDistinct, Makes
<1>6. ASSUME NEW i \in 1 .. Len(log'), NEW j \in 1 .. Len(log'), Replaces(log', j, i)
      PROVE  i < j /\ \E k \in 1 .. j - 1 : log'[k].kind = "commit" /\ log'[k].txn = log'[i].txn
  <2>1. i \in 1 .. Len(lg) /\ j \in 1 .. Len(lg) /\ lg[i] = log'[i] /\ lg[j] = log'[j]
    BY <1>4, <1>6 DEF Replaces
  <2>2. Replaces(lg, j, i)
    BY <1>6, <2>1 DEF Replaces, Makes
  <2>3. i < j /\ \E k \in 1 .. j - 1 : lg[k].kind = "commit" /\ lg[k].txn = lg[i].txn
    BY <2>1, <2>2 DEF Fine, OnCommitted
  <2>4. \A k \in 1 .. j - 1 : lg[k] = log'[k]
    BY <1>2, <2>1 DEF Grown
  <2>. QED BY <2>1, <2>3, <2>4
<1>. QED BY <1>3, <1>5, <1>6 DEF Fine, OnCommitted

(* What it replaces has not been replaced in a page file.                    *)
LEMMA WorksFileCurrent ==
  ASSUME TypeInv, UndoInv, History(log), Tasks, Known, NEW c, NEW p, NEW r, Works(c, p, r),
         Fine(log'), KnownIn(log, c), Over(c), CachedRight(log, txn, c),
         NEW i \in 1 .. Len(log), Replaces(log', Len(log) + 1, i),
         NEW j \in 1 .. Len(log), Replaces(log, j, i), NEW q \in DOMAIN disk, NEW L
  PROVE  ~Applied(log, InFile(log, q, L), disk[q].rows, j)
<1>0. p \in DOMAIN c
  BY DEF Works
<1>1. /\ Fine(log) /\ p \in DOMAIN c
      /\ \A k \in DOMAIN c : ~Applied(log, InCache(log, txn, k), c[k].rows, j)
      /\ log[j].page = p
  <2>1. /\ Fine(log)
        /\ \A h \in 1 .. Len(log), k \in DOMAIN c :
             Replaces(log, h, i) => ~Applied(log, InCache(log, txn, k), c[k].rows, h)
        /\ \A h \in 1 .. Len(log) : Replaces(log, h, i) => log[h].page = p
    BY WorksCurrent
  <2>. QED BY <1>0, <2>1
<1>2. SUFFICES ASSUME Applied(log, InFile(log, q, L), disk[q].rows, j) PROVE FALSE
  OBVIOUS
<1>3. CASE log[j].kind = "delete"
  <2>1. j \in InFile(log, q, L)
    BY <1>2, <1>3 DEF Applied
  <2>2. q = p /\ j \in InCache(log, txn, p)
    BY <1>1, <2>1 DEF InFile, InCache, RowRec
  <2>. QED BY <1>1, <1>3, <2>2 DEF Applied
<1>4. CASE log[j].kind # "delete"
  <2>1. log[j].kind = "update" /\ Has(disk[q].rows, log[j].after.id)
    BY <1>2, <1>4 DEF Applied
  <2>2. PICK k \in 1 .. durable : MadeOn(log, k, q) /\ log[k].after.id = log[j].after.id
    BY <2>1 DEF Known, KnownOut, KnownBy, Has
  <2>3. k \in 1 .. Len(log)
    BY PageFields
  <2>4. k = j
    BY <1>1, <2>1, <2>2, <2>3 DEF Fine, IdsDistinct, MadeOn, Makes
  <2>5. q = p
    BY <1>1, <2>2, <2>4 DEF MadeOn
  <2>6. Has(c[p].rows, log[j].after.id)
    BY <1>1, <2>1, <2>5 DEF Over
  <2>. QED BY <1>1, <1>4, <2>1, <2>6 DEF Applied
<1>. QED BY <1>3, <1>4

(* One row of a statement: the files are as right as they were.              *)
LEMMA WorksFiles ==
  ASSUME TypeInv, TypeInv', LsnInv, UndoInv, History(log), Tasks, Known, DiskRight,
         NEW c, NEW p, NEW r, Works(c, p, r), KnownIn(log, c), Over(c), CachedRight(log, txn, c)
  PROVE  DiskRight'
<1> DEFINE n == Len(log) + 1
<1>1. /\ Len(log) \in Nat /\ log'[n] = r /\ Grown(log, log')
      /\ log \in Seq(Record) /\ log' \in Seq(Record)
      /\ \A m \in 1 .. Len(log') : m > Len(log) =>
              /\ log'[m].txn = txn
              /\ log'[m].kind \in DataKinds \union {"update_table"}
              /\ log'[m].kind \in DataKinds => m = Len(log) + 1
  BY WorksLog
<1>0. UNCHANGED <<disk, durable>>
  BY DEF Works
<1>2. ASSUME NEW lg \in Seq(Record), Grown(log, lg), Grown(lg, log'), Len(lg) > Len(log), Fine(lg),
             NEW q \in DOMAIN disk
      PROVE  FileOK(lg, disk[q].rows, disk[q].last_lsn, q)
  <2> DEFINE L == disk[q].last_lsn
  <2>1. Fine(log') /\ n \in 1 .. Len(lg) /\ Fine(log) /\ Len(lg) \in Nat
    BY <1>1, <1>2, WorksFine, GrownFine, LenProperties
  <2>2. \A m \in 1 .. Len(lg) : m \in 1 .. Len(log') /\ lg[m] = log'[m]
    <3>1. Len(lg) <= Len(log') /\ Len(log') \in Nat
      BY <1>1, <1>2, LenProperties DEF Grown
    <3>. QED BY <1>2, <2>1, <3>1 DEF Grown
  <2>3. L \in Nat /\ L <= Len(log) /\ durable \in Nat /\ durable <= Len(log)
    BY PageFields DEF LsnInv, WriteAhead
  <2>4. FileOK(log, disk[q].rows, L, q)
    BY <2>1, GrownSelf DEF DiskRight, FilesRight
  <2>5. KnownBy(log, Len(log), disk[q].rows, q)
    <3>1. KnownBy(log, durable, disk[q].rows, q)
      BY DEF Known, KnownOut
    <3>. QED BY <1>1, <2>3, <3>1, KnownGrows
  <2>6. ASSUME NEW x PROVE Ended(lg, x, "commit") <=> Ended(log, x, "commit")
    <3>1. \A m \in 1 .. Len(lg) : m > Len(log) => ~(lg[m].kind = "commit" /\ lg[m].txn = x)
      BY <1>1, <2>2 DEF DataKinds
    <3>. QED BY <1>1, <1>2, <3>1, DoneBefore
  <2>7. \A j \in 1 .. Len(log) : (Done(lg, j) <=> Done(log, j))
    BY <1>2, <2>6 DEF Done, Grown
  <2>8. \A m \in 1 .. Len(lg) : m > Len(log) => ~Done(lg, m)
    <3>1. ~Ended(log, txn, "commit")
      BY WorksDone
    <3>. QED BY <1>1, <2>2, <2>6, <3>1 DEF Done
  <2>9. ASSUME NEW m \in 1 .. Len(lg), NEW i \in 1 .. Len(log), NEW j \in 1 .. Len(log),
               m \notin 1 .. Len(log), Replaces(lg, m, i), Replaces(log, j, i)
        PROVE  ~Applied(log, InFile(log, q, L), disk[q].rows, j)
    <3>1. m > Len(log) /\ lg[m].kind \in DataKinds
      BY <1>1, <2>9 DEF Replaces, DataKinds
    <3>2. m = n
      BY <1>1, <2>2, <3>1
    <3>3. i \in 1 .. Len(lg)
      BY <1>1, <2>1, <2>9
    <3>4. Replaces(log', n, i)
      BY <2>1, <2>2, <2>9, <3>2, <3>3 DEF Replaces, Makes
    <3>. QED BY <2>1, <2>9, <3>4, WorksFileCurrent
  <2>10. \A k \in 1 .. Len(log) : LinksBack(log, k)
    BY DEF TypeInv, LinkInv
  <2>11. \A m \in 1 .. Len(lg), i, j \in 1 .. Len(log) :
           m \notin 1 .. Len(log) /\ Replaces(lg, m, i) /\ Replaces(log, j, i) =>
             ~Applied(log, InFile(log, q, L), disk[q].rows, j)
    BY <2>9
  <2>12. \A j \in 1 .. Len(log) : RowRec(log, j, q) =>
           (Done(lg, j) <=> Done(log, j)) \/ (j > L /\ (Makes(log, j) => ~Has(disk[q].rows, log[j].after.id)))
    BY <2>7
  <2>13. \A m \in 1 .. Len(lg) : m > Len(log) => ~(RowRec(lg, m, q) /\ Done(lg, m))
    BY <2>8
  <2>. HIDE DEF L
  <2>14. FileOK(lg, disk[q].rows, L, q)
    BY <1>1, <1>2, <2>3, <2>4, <2>5, <2>10, <2>11, <2>12, <2>13, FileGrows
  <2>. QED BY <2>14 DEF L
<1>. QED BY <1>0, <1>1, <1>2, DiskGrows

-----------------------------------------------------------------------------

(* The rest of the invariant, for a row of a statement.                      *)
LEMMA WorksStatement ==
  ASSUME TypeInv, TypeInv', LsnInv, UndoInv, Known, Tasks, OwnRows, Latest, Ends,
         NEW c, NEW p, NEW r, Works(c, p, r)
  PROVE  Tasks' /\ OwnRows' /\ Latest' /\ Ends'
<1> DEFINE n == Len(log) + 1
<1>1. /\ Len(log) \in Nat /\ log'[n] = r /\ Grown(log, log') /\ Len(log') = Len(log) + 2
      /\ log \in Seq(Record) /\ log' \in Seq(Record)
      /\ \A k \in 1 .. Len(log) : k \in 1 .. Len(log') /\ log'[k] = log[k]
      /\ \A m \in 1 .. Len(log') : m > Len(log) =>
              /\ log'[m].txn = txn
              /\ log'[m].kind \in DataKinds \union {"update_table"}
              /\ log'[m].kind \in DataKinds => m = Len(log) + 1
  BY WorksLog
<1>2. \A m \in 1 .. Len(log') : m \in 1 .. Len(log) \/ m > Len(log)
  BY <1>1
<1>3. /\ durable' = durable /\ durable \in Nat /\ durable <= Len(log)
      /\ phase \in InStatement /\ txn \in Txns
      /\ (phase' = phase /\ txn' = txn) \/ (phase' = "idle" /\ txn' = NoTxn /\ todo' = {})
  BY PageFields DEF Works
<1>4. Tasks'
  <2>1. ASSUME NEW t \in todo'
        PROVE  /\ t = <<t[1], t[2]>> /\ ~RowAt(cache', t).obsolete
               /\ \E i \in 1 .. Len(log') : /\ MadeOn(log', i, t[1]) /\ log'[i].txn # txn'
                                            /\ log'[i].after.id = RowAt(cache', t).id
    <3>1. /\ t \in todo /\ RowAt(cache', t).id = RowAt(cache, t).id
          /\ RowAt(cache', t).obsolete <=> RowAt(cache, t).obsolete
          /\ txn' = txn
      BY <1>3, <2>1 DEF Works
    <3>2. /\ t = <<t[1], t[2]>> /\ ~RowAt(cache, t).obsolete
          /\ \E i \in 1 .. Len(log) : /\ MadeOn(log, i, t[1]) /\ log[i].txn # txn
                                      /\ log[i].after.id = RowAt(cache, t).id
      BY <3>1 DEF Tasks
    <3>. QED BY <1>1, <3>1, <3>2 DEF MadeOn, Makes
  <2>. QED BY <2>1 DEF Tasks
<1>5. OwnRows'
  <2>1. SUFFICES ASSUME phase' \in InStatement, NEW j \in 1 .. Len(log'), OwnRow(j)'
                 PROVE  /\ log'[j].kind = phase' /\ log'[j].page \in DOMAIN cache'
                        /\ \/ j <= cache'[log'[j].page].last_lsn /\ log'[j].page \in dirty'
                           \/ \E t \in todo' : t[1] = log'[j].page
    BY DEF OwnRows
  <2>2. phase' = phase /\ txn' = txn
    BY <1>3, <2>1 DEF InStatement
  <2>3. /\ Loads(c, pages', dirty') /\ DOMAIN cache' = DOMAIN c /\ p \in DOMAIN c /\ r.kind = phase /\ r.page = p
        /\ \A q \in DOMAIN c \ {p} : cache'[q].last_lsn = c[q].last_lsn
        /\ \/ cache'[p].last_lsn \in {Len(log) + 1, Len(log) + 2} /\ p \in dirty'
           \/ cache'[p].last_lsn = c[p].last_lsn /\ \E t \in todo' : t[1] = p
        /\ \A t \in todo : t \in todo' \/ t[1] = p
    BY <2>1, <2>2 DEF Works, SamePage, InStatement
  <2>4. CASE j > Len(log)
    <3>1. j = n /\ log'[j] = r
      BY <1>1, <2>1, <2>4 DEF OwnRow
    <3>. QED BY <1>1, <2>2, <2>3, <3>1
  <2>5. CASE j \in 1 .. Len(log)
    <3>1. OwnRow(j) /\ log'[j] = log[j]
      BY <1>1, <2>1, <2>2, <2>5 DEF OwnRow
    <3> DEFINE q == log[j].page
    <3>2. /\ log[j].kind = phase /\ q \in DOMAIN cache
          /\ (j <= cache[q].last_lsn /\ q \in dirty) \/ \E t \in todo : t[1] = q
      BY <1>3, <2>5, <3>1 DEF OwnRows
    <3>3. q \in DOMAIN c /\ c[q].last_lsn = cache[q].last_lsn /\ dirty \subseteq dirty'
      BY <2>3, <3>2 DEF Loads, SamePage
    <3>. HIDE DEF q
    <3>4. CASE q # p
      <4>1. cache'[q].last_lsn = cache[q].last_lsn
        BY <2>3, <3>3, <3>4
      <4>. QED BY <2>2, <2>3, <3>1, <3>2, <3>3, <3>4, <4>1 DEF q
    <3>5. CASE q = p
      <4>1. CASE \E t \in todo' : t[1] = p
        BY <2>2, <2>3, <3>1, <3>2, <3>5, <4>1 DEF q
      <4>2. CASE cache'[p].last_lsn \in {Len(log) + 1, Len(log) + 2} /\ p \in dirty'
        BY <1>1, <2>2, <2>3, <2>5, <3>1, <3>2, <3>5, <4>2 DEF q
      <4>. QED BY <2>3, <4>1, <4>2
    <3>. QED BY <3>4, <3>5
  <2>. QED BY <1>2, <2>4, <2>5
<1>6. Latest'
  <2>1. SUFFICES ASSUME phase' \in Running, NEW j \in 1 .. Len(log'), log'[j].txn = txn'
                 PROVE  j > durable /\ \A m \in 1 .. Len(log') : m > j => log'[m].txn = txn'
    BY <1>3 DEF Latest
  <2>2. phase' = phase /\ txn' = txn
    BY <1>3, <2>1 DEF Running, InStatement
  <2>3. CASE j > Len(log)
    BY <1>1, <1>3, <2>2, <2>3
  <2>4. CASE j \in 1 .. Len(log)
    <3>1. j > durable /\ \A m \in 1 .. Len(log) : m > j => log[m].txn = txn
      BY <1>1, <2>1, <2>2, <2>4 DEF Latest
    <3>. QED BY <1>1, <1>2, <2>2, <3>1
  <2>. QED BY <1>2, <2>3, <2>4
<1>7. Ends'
  <2>1. \A j \in 1 .. Len(log') : log'[j].kind \in {"clr", "rollback"} => j <= durable
    BY <1>1, <1>2 DEF Ends, DataKinds
  <2>. QED BY <1>3, <2>1 DEF Ends, InStatement
<1>. QED BY <1>4, <1>5, <1>6, <1>7

-----------------------------------------------------------------------------
(* What a step of a running instance leaves alone                          *)

(* No compensation record is added.                                          *)
LEMMA NormalKeeps ==
  ASSUME TypeInv, TypeInv', LsnsUp, Pending, phase \in Normal, phase' \in Normal,
         Grown(log, log'), \A m \in 1 .. Len(log') : m > Len(log) => log'[m].kind # "clr"
  PROVE  Pending' /\ Redone' /\ Walked'
<1>1. Len(log) \in Nat /\ Len(log') \in Nat
  BY PageFields, LenProperties DEF TypeInv, TypeOK
<1>2. ASSUME NEW c \in 1 .. Len(log'), NEW p \in Pages, Comp(log', c, p)
      PROVE  p \in DOMAIN disk' /\ c <= disk'[p].last_lsn
  <2>1. c \in 1 .. Len(log) /\ log'[c] = log[c]
    BY <1>1, <1>2 DEF Comp, Grown
  <2>2. log[c].of \in 1 .. c - 1
    BY <1>2, <2>1 DEF Comp, TypeInv, LinkInv, LinksBack
  <2>3. log[c].of \in 1 .. Len(log) /\ log'[log[c].of] = log[log[c].of]
    BY <1>1, <2>1, <2>2 DEF Grown
  <2>4. Comp(log, c, p)
    BY <1>2, <2>1, <2>3 DEF Comp, RowRec
  <2>5. p \in DOMAIN disk /\ c <= disk[p].last_lsn
    BY <2>1, <2>4 DEF Pending, Normal, InStatement
  <2>6. disk[p].last_lsn \in Nat /\ p \in DOMAIN disk' /\ disk'[p].last_lsn \in Nat
        /\ disk[p].last_lsn <= disk'[p].last_lsn
    BY <2>5 DEF LsnsUp, TypeInv, TypeOK, Page
  <2>. QED BY <1>1, <2>1, <2>5, <2>6
<1>3. Pending'
  BY <1>2 DEF Pending
<1>4. Redone'
  BY DEF Redone, Reached, Normal, InStatement
<1>5. Walked'
  BY DEF Walked, Normal, InStatement
<1>. QED BY <1>3, <1>4, <1>5

(* An undone record stays undone.                                            *)
LEMMA HandledStays ==
  ASSUME TypeInv, TypeInv', Grown(log, log'), NEW i \in 1 .. Len(log), Handled(i),
         Gone(log[i].page) /\ RowRec(log, i, log[i].page) => Gone(log[i].page)'
  PROVE  Handled(i)'
<1>1. log'[i] = log[i]
  BY DEF Grown
<1>2. SUFFICES ASSUME log[i].kind \in DataKinds
               PROVE  \/ \E c \in 1 .. Len(log') : log'[c].kind = "clr" /\ log'[c].of = i
                      \/ Gone(log[i].page)'
  BY <1>1 DEF Handled
<1>3. CASE \E c \in 1 .. Len(log) : log[c].kind = "clr" /\ log[c].of = i
  <2>1. \A c \in 1 .. Len(log) : c \in 1 .. Len(log') /\ log'[c] = log[c]
    BY PageFields, LenProperties DEF Grown, TypeInv, TypeOK
  <2>. QED BY <1>3, <2>1
<1>4. CASE Gone(log[i].page)
  BY <1>2, <1>4 DEF RowRec
<1>. QED BY <1>2, <1>3, <1>4 DEF Handled

(* Nothing is rolled back or compensated.                                    *)
LEMMA RolledStays ==
  ASSUME TypeInv, TypeInv', Grown(log, log'), Rolled,
         \A m \in 1 .. Len(log') : m > Len(log) => log'[m].kind \notin {"clr", "rollback"},
         \A m \in 1 .. Len(log') : m > Len(log) /\ log'[m].kind \in DataKinds =>
           \A k \in 1 .. Len(log') : log'[k].txn = log'[m].txn => log'[k].kind \notin {"clr", "rollback"},
         \A i \in 1 .. Len(log) : Gone(log[i].page) /\ RowRec(log, i, log[i].page) => Gone(log[i].page)'
  PROVE  Rolled'
<1>1. Len(log) \in Nat /\ Len(log') \in Nat /\ log \in Seq(Record) /\ log' \in Seq(Record)
  BY PageFields, LenProperties DEF TypeInv, TypeOK
<1>2. \A i \in 1 .. Len(log') : i > Len(log) \/ (i \in 1 .. Len(log) /\ log'[i] = log[i])
  BY <1>1 DEF Grown
<1>3. ASSUME NEW i \in 1 .. Len(log'), Ended(log', log'[i].txn, "rollback") PROVE Handled(i)'
  <2>1. CASE i > Len(log)
    BY <1>3, <2>1 DEF Handled, Ended
  <2>2. CASE i \in 1 .. Len(log) /\ log'[i] = log[i]
    <3>1. Ended(log, log[i].txn, "rollback")
      BY <1>2, <1>3, <2>2 DEF Ended
    <3>2. Handled(i)
      BY <2>2, <3>1 DEF Rolled
    <3>. QED BY <2>2, <3>2, HandledStays
  <2>. QED BY <1>2, <2>1, <2>2
<1>4. ASSUME NEW c \in 1 .. Len(log'), NEW i \in 1 .. Len(log'), log'[c].kind = "clr",
             log'[i].txn = log'[c].txn, i > log'[c].undo_next
      PROVE  Handled(i)'
  <2>1. c \in 1 .. Len(log) /\ log'[c] = log[c]
    BY <1>2, <1>4
  <2>2. CASE i > Len(log)
    BY <1>4, <2>2 DEF Handled
  <2>3. CASE i \in 1 .. Len(log) /\ log'[i] = log[i]
    <3>1. Handled(i)
      BY <1>4, <2>1, <2>3 DEF Rolled
    <3>. QED BY <2>3, <3>1, HandledStays
  <2>. QED BY <1>2, <2>2, <2>3
<1>. QED BY <1>3, <1>4 DEF Rolled

(* A lost page is not read again.                                            *)
LEMMA LoadsGone ==
  ASSUME NEW c, NEW pgs, NEW dty, Loads(c, pgs, dty), NEW q, Gone(q),
         NEW j \in 1 .. Len(log), RowRec(log, j, q)
  PROVE  q \notin DOMAIN c
BY DEF Loads, NewIn, Gone, RowRec

(* Pages that are read are in the list of pages.                             *)
LEMMA LoadsListed ==
  ASSUME Listed, phase \in Normal, NEW c, NEW pgs, NEW dty, Loads(c, pgs, dty), NEW q \in DOMAIN c
  PROVE  Lists(pgs, q)
BY DEF Listed, Loads

(* One row of a statement: the rest of the invariant.                        *)
LEMMA WorksRest ==
  ASSUME TypeInv, TypeInv', LsnInv, LsnsUp, UndoInv, OwnRows, Ends, Fresh, Pending, DeleteTail, Listed,
         Rolled, NEW c, NEW p, NEW r, Works(c, p, r)
  PROVE  /\ Fresh' /\ Pending' /\ Redone' /\ DeleteTail' /\ Listed' /\ Rolled' /\ Walked'
<1> DEFINE n == Len(log) + 1
<1>1. /\ Len(log) \in Nat /\ log'[n] = r /\ Grown(log, log') /\ Len(log') = Len(log) + 2
      /\ log \in Seq(Record) /\ log' \in Seq(Record)
      /\ \A k \in 1 .. Len(log) : k \in 1 .. Len(log') /\ log'[k] = log[k]
      /\ \A m \in 1 .. Len(log') : m > Len(log) =>
              /\ log'[m].txn = txn
              /\ log'[m].kind \in DataKinds \union {"update_table"}
              /\ log'[m].kind \in DataKinds => m = Len(log) + 1
  BY WorksLog
<1>2. /\ \A x : Ended(log', x, "rollback") <=> Ended(log, x, "rollback")
      /\ \A j \in 1 .. Len(log) : (Done(log', j) <=> Done(log, j))
      /\ \A m \in 1 .. Len(log') : m > Len(log) => ~Done(log', m)
  BY WorksDone
<1>3. \A m \in 1 .. Len(log') : m \in 1 .. Len(log) \/ m > Len(log)
  BY <1>1
<1>4. /\ phase \in InStatement /\ disk' = disk
      /\ (phase' = phase /\ txn' = txn) \/ (phase' = "idle" /\ txn' = NoTxn /\ phase = "update")
      /\ Loads(c, pages', dirty') /\ p \in DOMAIN c /\ DOMAIN cache' = DOMAIN c
      /\ \A q \in DOMAIN c \ {p} : cache'[q].last_lsn = c[q].last_lsn
      /\ cache'[p].last_lsn \in {Len(log) + 1, Len(log) + 2, c[p].last_lsn}
      /\ r.kind = phase /\ r.page = p /\ r.txn = txn
  BY DEF Works, SamePage
<1>5. phase \in Normal /\ phase' \in Normal
  BY <1>4 DEF Normal, InStatement
<1>6. Pending' /\ Redone' /\ Walked'
  <2>1. \A m \in 1 .. Len(log') : m > Len(log) => log'[m].kind # "clr"
    BY <1>1 DEF DataKinds
  <2>. QED BY <1>1, <1>5, <2>1, NormalKeeps
<1>7. Fresh'
  <2>1. FreshIn(log, c, dirty')
    BY <1>4, <1>5, LoadedFresh
  <2>2. ASSUME NEW j \in 1 .. Len(log'), NEW q \in Pages, RowRec(log', j, q), Done(log', j)
        PROVE  /\ q \in DOMAIN cache' => j <= cache'[q].last_lsn
               /\ q \notin dirty' => q \in DOMAIN disk' /\ j <= disk'[q].last_lsn
    <3>1. j \in 1 .. Len(log) /\ RowRec(log, j, q) /\ Done(log, j)
      BY <1>1, <1>2, <1>3, <2>2 DEF RowRec
    <3>2. /\ q \in DOMAIN c => j <= c[q].last_lsn
          /\ q \notin dirty' => q \in DOMAIN disk /\ j <= disk[q].last_lsn
      BY <2>1, <3>1 DEF FreshIn
    <3>3. q \in DOMAIN c => j <= cache'[q].last_lsn
      BY <1>1, <1>4, <3>1, <3>2
    <3>. QED BY <1>4, <3>2, <3>3
  <2>. QED BY <2>2 DEF Fresh, FreshIn
<1>8. DeleteTail'
  <2>1. SUFFICES ASSUME NEW i \in 1 .. Len(log'), log'[i].kind = "delete"
                 PROVE  \/ Done(log', i) \/ Ended(log', log'[i].txn, "rollback")
                        \/ phase' \in InStatement /\ log'[i].txn = txn'
    BY DEF DeleteTail
  <2>2. CASE i > Len(log)
    <3>1. log'[i].txn = txn /\ phase = "delete"
      BY <1>1, <1>4, <2>1, <2>2 DEF DataKinds
    <3>. QED BY <1>4, <3>1
  <2>3. CASE i \in 1 .. Len(log)
    <3>1. log'[i] = log[i] /\ log[i].kind = "delete"
      BY <1>1, <2>1, <2>3
    <3>2. Done(log, i) \/ Ended(log, log[i].txn, "rollback") \/ log[i].txn = txn
      BY <1>5, <2>3, <3>1 DEF DeleteTail
    <3>3. CASE log[i].txn = txn
      <4>1. phase = "delete"
        BY <1>4, <2>3, <3>1, <3>3 DEF OwnRows, OwnRow, DataKinds
      <4>. QED BY <1>4, <3>1, <3>3, <4>1
    <3>. QED BY <1>2, <2>3, <3>1, <3>2, <3>3
  <2>. QED BY <1>3, <2>2, <2>3
<1>9. Listed'
  <2>1. ASSUME NEW q, q \in DOMAIN disk' \/ q \in DOMAIN cache' PROVE Lists(pages', q)
    <3>1. CASE q \in DOMAIN disk
      BY <1>4, <1>5, <3>1 DEF Listed, Loads
    <3>2. CASE q \in DOMAIN c
      BY <1>4, <1>5, <3>2, LoadsListed
    <3>. QED BY <1>4, <2>1, <3>1, <3>2
  <2>. QED BY <2>1 DEF Listed
<1>10. Rolled'
  <2>1. \A m \in 1 .. Len(log') : m > Len(log) => log'[m].kind \notin {"clr", "rollback"}
    BY <1>1 DEF DataKinds
  <2>2. ASSUME NEW k \in 1 .. Len(log'), log'[k].txn = txn PROVE log'[k].kind \notin {"clr", "rollback"}
    <3>1. CASE k \in 1 .. Len(log)
      BY <1>1, <1>4, <2>2, <3>1 DEF UndoInv, WalkInv, Working
    <3>. QED BY <1>3, <2>1, <3>1
  <2>3. ASSUME NEW i \in 1 .. Len(log), Gone(log[i].page), RowRec(log, i, log[i].page)
        PROVE  Gone(log[i].page)'
    <3>0. PICK q : q = log[i].page
      OBVIOUS
    <3>1. q \notin DOMAIN c
      BY <1>4, <2>3, <3>0, LoadsGone
    <3>2. ASSUME NEW j \in 1 .. Len(log'), RowRec(log', j, q) PROVE ~Done(log', j)
      <4>1. CASE j \in 1 .. Len(log)
        BY <1>1, <1>2, <2>3, <3>0, <3>2, <4>1 DEF RowRec, Gone
      <4>. QED BY <1>2, <1>3, <4>1
    <3>3. Gone(q)'
      BY <1>4, <2>3, <3>0, <3>1, <3>2 DEF Gone
    <3>. QED BY <1>1, <3>0, <3>3
  <2>4. \A m \in 1 .. Len(log') : m > Len(log) /\ log'[m].kind \in DataKinds =>
           \A k \in 1 .. Len(log') : log'[k].txn = log'[m].txn => log'[k].kind \notin {"clr", "rollback"}
    BY <1>1, <2>2
  <2>. QED BY <1>1, <2>1, <2>3, <2>4, RolledStays
<1>. QED BY <1>6, <1>7, <1>8, <1>9, <1>10

(* One row of a statement keeps the invariant.                               *)
LEMMA WorksTable ==
  ASSUME TypeInv, TypeInv', LsnInv, LsnsUp, UndoInv, TableInv, NEW c, NEW p, NEW r, Works(c, p, r)
  PROVE  TableInv'
<1>1. /\ History(log) /\ Known /\ Tasks /\ OwnRows /\ Latest /\ Ends /\ Fresh /\ Pending
      /\ DeleteTail /\ Listed /\ Rolled /\ CachedRight(log, txn, cache) /\ DiskRight
  BY DEF TableInv
<1>2. Loads(c, pages', dirty') /\ phase \in InStatement
  BY DEF Works
<1>3. KnownIn(log, c) /\ Over(c)
  BY <1>1, <1>2, LoadedKnown
<1>4. CachedRight(log, txn, c)
  BY <1>1, <1>2, LoadedRight
<1>5. History(log')
  BY <1>1, <1>3, <1>4, WorksHistory
<1>6. Known'
  BY <1>1, <1>3, WorksKnown
<1>7. CachedRight(log', txn', cache')
  BY <1>1, <1>3, <1>4, <1>5, WorksCached
<1>8. DiskRight'
  BY <1>1, <1>3, <1>4, WorksFiles
<1>9. Tasks' /\ OwnRows' /\ Latest' /\ Ends'
  BY <1>1, WorksStatement
<1>10. Fresh' /\ Pending' /\ Redone' /\ DeleteTail' /\ Listed' /\ Rolled' /\ Walked'
  BY <1>1, WorksRest
<1>. QED BY <1>5, <1>6, <1>7, <1>8, <1>9, <1>10 DEF TableInv

-----------------------------------------------------------------------------
(* Records that are about no row                                           *)

(* One record more in the log.                                               *)
LEMMA AddsLog ==
  ASSUME TypeInv, NEW r, Adds(r)
  PROVE  /\ Len(log) \in Nat /\ Len(log') = Len(log) + 1 /\ log'[Len(log) + 1] = r
         /\ Grown(log, log') /\ log \in Seq(Record) /\ log' \in Seq(Record)
         /\ \A i \in 1 .. Len(log) : i \in 1 .. Len(log') /\ log'[i] = log[i]
         /\ \A m \in 1 .. Len(log') : m > Len(log) => m = Len(log) + 1 /\ log'[m] = r
         /\ \A m \in 1 .. Len(log') : m \in 1 .. Len(log) \/ m > Len(log)
         /\ Len(log) + 1 \in 1 .. Len(log')
<1>1. Len(log) \in Nat /\ log \in Seq(Record) /\ Len(log') = Len(log) + 1
  BY PageFields DEF TypeInv, TypeOK, Adds
<1>2. \A m \in 1 .. Len(log') : m > Len(log) => m = Len(log) + 1
  BY <1>1
<1>3. \A m \in 1 .. Len(log') : m \in 1 .. Len(log) \/ m > Len(log)
  BY <1>1
<1>. QED BY <1>1, <1>2, <1>3 DEF Adds, Grown

(* Who has ended after it.                                                   *)
LEMMA AddsEnded ==
  ASSUME TypeInv, NEW r, Adds(r), NEW x, NEW kind
  PROVE  Ended(log', x, kind) <=> Ended(log, x, kind) \/ (r.kind = kind /\ r.txn = x)
BY AddsLog DEF Ended

(* The cached pages, if what they should have seen is the same.              *)
LEMMA CachedGrows ==
  ASSUME TypeInv, NEW r, Adds(r), r.kind \notin DataKinds, r.kind # "clr",
         NEW x, NEW x2, NEW c, CachedRight(log, x, c), KnownIn(log, c),
         \A q \in DOMAIN c : InCache(log', x2, q) = InCache(log, x, q)
  PROVE  CachedRight(log', x2, c)
<1>. SUFFICES ASSUME Fine(log'), NEW q \in DOMAIN c PROVE CachedOK(log', x2, c[q].rows, q)
  BY DEF CachedRight
<1> DEFINE S == InCache(log, x, q)
           U == Undone(log, Len(log))
<1>1. /\ Len(log) \in Nat /\ Grown(log, log') /\ log \in Seq(Record) /\ log' \in Seq(Record)
      /\ \A m \in 1 .. Len(log') : m > Len(log) => log'[m] = r
      /\ \A m \in 1 .. Len(log') : m \in 1 .. Len(log) \/ m > Len(log)
  BY AddsLog
<1>2. Fine(log)
  BY <1>1, GrownFine
<1>3. Content(log, S, U, c[q].rows, q) /\ KnownBy(log, Len(log), c[q].rows, q) /\ S \subseteq 1 .. Len(log)
  BY <1>2 DEF CachedRight, CachedOK, KnownIn, InCache
<1>4. \A m \in 1 .. Len(log'), i, j \in 1 .. Len(log) :
         m \notin 1 .. Len(log) /\ Replaces(log', m, i) /\ Replaces(log, j, i) =>
           ~Applied(log, S, c[q].rows, j)
  BY <1>1 DEF Replaces, DataKinds
<1>5. Undone(log', Len(log')) = U
  <2>1. \A m \in 1 .. Len(log') : m > Len(log) => log'[m].kind # "clr"
    BY <1>1
  <2>2. \A i \in 1 .. Len(log) : LinksBack(log, i)
    BY DEF TypeInv, LinkInv
  <2>. QED BY <1>1, <2>1, <2>2, UndoneGrows
<1>6. InCache(log', x2, q) = S
  OBVIOUS
<1>7. Content(log', S, U, c[q].rows, q)
  <2>. HIDE DEF S, U
  <2>. QED BY <1>1, <1>3, <1>4, ContentGrows
<1>. QED BY <1>5, <1>6, <1>7 DEF CachedOK

(* The page files: a transaction that commits has nothing in them yet.       *)
LEMMA FilesAdd ==
  ASSUME TypeInv, LsnInv, Known, FilesRight(log), NEW lg \in Seq(Record), Grown(log, lg),
         Len(lg) = Len(log) + 1, lg[Len(log) + 1].kind \notin DataKinds,
         lg[Len(log) + 1].kind = "commit" =>
           \A j \in 1 .. Len(log) : log[j].txn = lg[Len(log) + 1].txn => j > durable
  PROVE  FilesRight(lg)
<1>. SUFFICES ASSUME Fine(lg), NEW q \in DOMAIN disk
              PROVE  FileOK(lg, disk[q].rows, disk[q].last_lsn, q)
  BY DEF FilesRight
<1> DEFINE L == disk[q].last_lsn
           n == Len(log) + 1
<1>1. Len(log) \in Nat /\ log \in Seq(Record) /\ \A i \in 1 .. Len(log) : lg[i] = log[i]
  BY PageFields DEF TypeInv, TypeOK, Grown
<1>2. \A m \in 1 .. Len(lg) : m > Len(log) => m = n
  BY <1>1
<1>3. Fine(log)
  BY <1>1, GrownFine
<1>4. FileOK(log, disk[q].rows, L, q)
  BY <1>3 DEF FilesRight
<1>5. L \in Nat /\ L <= Len(log) /\ L <= durable /\ durable \in Nat /\ durable <= Len(log)
  BY PageFields DEF LsnInv, WriteAhead
<1>6. KnownBy(log, durable, disk[q].rows, q)
  BY DEF Known, KnownOut
<1>7. KnownBy(log, Len(log), disk[q].rows, q)
  BY <1>1, <1>5, <1>6, KnownGrows
<1>8. ASSUME NEW j \in 1 .. Len(log), RowRec(log, j, q)
      PROVE  \/ Done(lg, j) <=> Done(log, j)
             \/ j > L /\ (Makes(log, j) => ~Has(disk[q].rows, log[j].after.id))
  <2>1. CASE lg[n].kind = "commit" /\ lg[n].txn = log[j].txn
    <3>1. j > durable
      BY <2>1
    <3>2. ASSUME Makes(log, j), Has(disk[q].rows, log[j].after.id) PROVE FALSE
      <4>1. PICK k \in 1 .. durable : MadeOn(log, k, q) /\ log[k].after.id = log[j].after.id
        BY <1>6, <3>2 DEF KnownBy, Has
      <4>2. k = j
        BY <1>1, <1>3, <1>5, <3>2, <4>1 DEF Fine, IdsDistinct, MadeOn
      <4>. QED BY <1>5, <3>1, <4>1, <4>2
    <3>. QED BY <1>5, <3>1, <3>2
  <2>2. CASE ~(lg[n].kind = "commit" /\ lg[n].txn = log[j].txn)
    <3>1. \A m \in 1 .. Len(lg) : m > Len(log) => ~(lg[m].kind = "commit" /\ lg[m].txn = log[j].txn)
      BY <1>2, <2>2
    <3>2. Ended(lg, log[j].txn, "commit") <=> Ended(log, log[j].txn, "commit")
      BY <1>1, <3>1, DoneBefore
    <3>. QED BY <1>1, <3>2 DEF Done
  <2>. QED BY <2>1, <2>2
<1>9. \A m \in 1 .. Len(lg) : m > Len(log) => ~(RowRec(lg, m, q) /\ Done(lg, m))
  BY <1>2 DEF RowRec
<1>10. \A m \in 1 .. Len(lg), i, j \in 1 .. Len(log) :
         m \notin 1 .. Len(log) /\ Replaces(lg, m, i) /\ Replaces(log, j, i) =>
           ~Applied(log, InFile(log, q, L), disk[q].rows, j)
  BY <1>1, <1>2 DEF Replaces, DataKinds
<1>11. \A k \in 1 .. Len(log) : LinksBack(log, k)
  BY DEF TypeInv, LinkInv
<1>. HIDE DEF L
<1>12. FileOK(lg, disk[q].rows, L, q)
  BY <1>1, <1>4, <1>5, <1>7, <1>8, <1>9, <1>10, <1>11, FileGrows
<1>. QED BY <1>12 DEF L

(* A record that neither commits nor changes a row: the files stay right.    *)
LEMMA FilesGrow ==
  ASSUME TypeInv, TypeInv', LsnInv, Known, DiskRight, NEW r, Adds(r), r.kind \notin DataKinds,
         UNCHANGED <<disk, durable>>,
         r.kind = "commit" => \A j \in 1 .. Len(log) : log[j].txn = r.txn => j > durable
  PROVE  DiskRight'
<1>1. /\ Len(log) \in Nat /\ Len(log') = Len(log) + 1 /\ log'[Len(log) + 1] = r /\ Grown(log, log')
  BY AddsLog
<1>2. FilesRight(log)
  BY GrownSelf DEF DiskRight
<1>3. ASSUME NEW lg \in Seq(Record), Grown(log, lg), Grown(lg, log'), Len(lg) > Len(log), Fine(lg)
      PROVE  \A p \in DOMAIN disk : FileOK(lg, disk[p].rows, disk[p].last_lsn, p)
  <2>1. Len(lg) = Len(log) + 1 /\ lg[Len(log) + 1] = r
    <3>1. Len(lg) \in Nat /\ Len(lg) <= Len(log) + 1
      BY <1>1, <1>3, LenProperties DEF Grown
    <3>2. Len(lg) = Len(log) + 1
      BY <1>1, <1>3, <3>1
    <3>. QED BY <1>1, <1>3, <3>2 DEF Grown
  <2>2. FilesRight(lg)
    BY <1>2, <1>3, <2>1, FilesAdd
  <2>. QED BY <1>3, <2>2 DEF FilesRight
<1>. QED BY <1>1, <1>3, DiskGrows

(* Rows in pages that did not change.                                        *)
LEMMA KnownStays ==
  ASSUME TypeInv, TypeInv', NEW c, KnownIn(log, c), KnownOut, UNCHANGED <<disk, durable>>, Grown(log, log')
  PROVE  KnownIn(log', c) /\ KnownOut'
<1>1. /\ Len(log) \in Nat /\ Len(log') \in Nat /\ durable \in Nat /\ durable <= Len(log)
      /\ Len(log) <= Len(log') /\ \A i \in 1 .. Len(log) : log'[i] = log[i]
  BY PageFields, LenProperties DEF Grown, TypeInv, TypeOK
<1>2. ASSUME NEW q \in DOMAIN c PROVE KnownBy(log', Len(log'), c[q].rows, q)
  BY <1>1, KnownGrows DEF KnownIn
<1>3. ASSUME NEW q \in DOMAIN disk PROVE KnownBy(log', durable, disk[q].rows, q)
  <2>1. KnownBy(log, durable, disk[q].rows, q)
    BY DEF KnownOut
  <2>2. durable \in Nat /\ durable <= durable /\ \A i \in 1 .. durable : log'[i] = log[i]
    BY <1>1
  <2>. QED BY <2>1, <2>2, KnownGrows
<1>. QED BY <1>2, <1>3 DEF KnownIn, KnownOut

-----------------------------------------------------------------------------
(* A statement begins                                                      *)

(* The begin of a statement.                                                 *)
LEMMA BeginsTable ==
  ASSUME TypeInv, TypeInv', LsnInv, LsnsUp, UndoInv, TableInv, NEW x, Begins(x)
  PROVE  TableInv'
<1>1. /\ History(log) /\ Known /\ Tasks /\ OwnRows /\ Latest /\ Ends /\ Fresh /\ Pending
      /\ DeleteTail /\ Listed /\ Rolled /\ CachedRight(log, txn, cache) /\ DiskRight
  BY DEF TableInv
<1>2. /\ Loads(cache', pages', dirty') /\ phase = "idle" /\ phase' \in InStatement /\ txn' = x
      /\ x \in Txns /\ UNCHANGED <<durable, disk, redone, active, current, dirty, pages>>
      /\ \A i \in 1 .. Len(log) : log[i].txn # x
  BY DEF Begins
<1>3. PICK r \in Record : Adds(r) /\ r.kind = "begin" /\ r.txn = x
  BY DEF Begins
<1>4. /\ Len(log) \in Nat /\ Len(log') = Len(log) + 1 /\ log'[Len(log) + 1] = r
      /\ Grown(log, log') /\ log \in Seq(Record) /\ log' \in Seq(Record)
      /\ \A i \in 1 .. Len(log) : i \in 1 .. Len(log') /\ log'[i] = log[i]
      /\ \A m \in 1 .. Len(log') : m > Len(log) => m = Len(log) + 1 /\ log'[m] = r
      /\ \A m \in 1 .. Len(log') : m \in 1 .. Len(log) \/ m > Len(log)
  BY <1>3, AddsLog
<1>5. KnownIn(log, cache') /\ Over(cache')
  BY <1>1, <1>2, LoadedKnown
<1>6. CachedRight(log, txn, cache')
  BY <1>1, <1>2, LoadedRight
<1>7. phase \in Normal /\ phase' \in Normal /\ txn = NoTxn
  BY <1>1, <1>2 DEF Normal, Ends
<1>8. \A j \in 1 .. Len(log) : log[j].txn # NoTxn
  <2>1. \A j \in 1 .. Len(log) : log[j] \in Record
    BY <1>4, ElementOfSeq
  <2>. QED BY <2>1, RecordFields, ConstantsAssumption
<1>9. /\ \A y : Ended(log', y, "commit") <=> Ended(log, y, "commit")
      /\ \A y : Ended(log', y, "rollback") <=> Ended(log, y, "rollback")
  <2>1. ASSUME NEW y, NEW k \in {"commit", "rollback"} PROVE Ended(log', y, k) <=> Ended(log, y, k)
    BY <1>3, <2>1, AddsEnded
  <2>. QED BY <2>1
<1>10. \A j \in 1 .. Len(log) : (Done(log', j) <=> Done(log, j))
  BY <1>4, <1>9 DEF Done
<1>11. History(log')
  <2>1. \A m \in 1 .. Len(log') : m > Len(log) => Told(log', m)
    BY <1>3, <1>4, PlainTold DEF DataKinds
  <2>. QED BY <1>1, <1>4, <2>1, HistoryGrows
<1>12. Known'
  <2>1. KnownIn(log', cache') /\ KnownOut'
    BY <1>1, <1>2, <1>4, <1>5, KnownStays DEF Known
  <2>2. Over(cache)'
    BY <1>2, <1>5 DEF Over
  <2>. QED BY <2>1, <2>2 DEF Known
<1>13. CachedRight(log', txn', cache')
  <2>1. ASSUME NEW q \in DOMAIN cache' PROVE InCache(log', x, q) = InCache(log, txn, q)
    <3>1. \A j \in 1 .. Len(log') : RowRec(log', j, q) => j \in 1 .. Len(log)
      BY <1>3, <1>4 DEF RowRec, DataKinds
    <3>2. \A j \in 1 .. Len(log) : (RowRec(log', j, q) <=> RowRec(log, j, q)) /\ log'[j].txn # x
      BY <1>2, <1>4 DEF RowRec
    <3>. QED BY <1>4, <1>7, <1>8, <1>10, <3>1, <3>2 DEF InCache
  <2>2. r.kind \notin DataKinds /\ r.kind # "clr"
    BY <1>3 DEF DataKinds
  <2>. QED BY <1>2, <1>3, <1>5, <1>6, <2>1, <2>2, CachedGrows
<1>14. DiskRight'
  <2>1. r.kind \notin DataKinds /\ r.kind # "commit"
    BY <1>3 DEF DataKinds
  <2>. QED BY <1>1, <1>2, <1>3, <2>1, FilesGrow
<1>15. Tasks'
  <2>1. ASSUME NEW t \in todo'
        PROVE  /\ t = <<t[1], t[2]>> /\ ~RowAt(cache', t).obsolete
               /\ \E i \in 1 .. Len(log') : /\ MadeOn(log', i, t[1]) /\ log'[i].txn # txn'
                                            /\ log'[i].after.id = RowAt(cache', t).id
    <3>1. /\ t = <<t[1], t[2]>> /\ t[1] \in DOMAIN cache'
          /\ t[2] \in 1 .. Len(cache'[t[1]].rows) /\ ~RowAt(cache', t).obsolete
      BY <2>1 DEF Begins
    <3>2. PICK i \in 1 .. Len(log) : /\ MadeOn(log, i, t[1])
                                     /\ log[i].after.id = cache'[t[1]].rows[t[2]].id
      BY <1>5, <3>1 DEF KnownIn, KnownBy
    <3>. QED BY <1>2, <1>4, <3>1, <3>2 DEF MadeOn, Makes, RowAt
  <2>. QED BY <2>1 DEF Tasks
<1>16. OwnRows'
  BY <1>2, <1>3, <1>4 DEF OwnRows, OwnRow, DataKinds
<1>17. Latest'
  <2>1. durable \in Nat /\ durable <= Len(log)
    BY PageFields
  <2>2. \A j \in 1 .. Len(log') : log'[j].txn = x => j = Len(log) + 1
    BY <1>2, <1>4
  <2>3. \A m \in 1 .. Len(log') : ~(m > Len(log) + 1)
    BY <1>4
  <2>. QED BY <1>2, <1>4, <2>1, <2>2, <2>3 DEF Latest
<1>18. Ends'
  <2>1. \A j \in 1 .. Len(log') : log'[j].kind \in {"clr", "rollback"} => j <= durable
    BY <1>1, <1>3, <1>4 DEF Ends
  <2>. QED BY <1>2, <2>1 DEF Ends, InStatement
<1>19. Pending' /\ Redone' /\ Walked'
  <2>1. \A m \in 1 .. Len(log') : m > Len(log) => log'[m].kind # "clr"
    BY <1>3, <1>4
  <2>. QED BY <1>1, <1>4, <1>7, <2>1, NormalKeeps
<1>20. Fresh'
  <2>1. FreshIn(log, cache', dirty')
    BY <1>1, <1>2, <1>7, LoadedFresh
  <2>2. ASSUME NEW j \in 1 .. Len(log'), NEW q \in Pages, RowRec(log', j, q), Done(log', j)
        PROVE  j \in 1 .. Len(log) /\ RowRec(log, j, q) /\ Done(log, j)
    BY <1>3, <1>4, <1>10, <2>2 DEF RowRec, DataKinds
  <2>. QED BY <1>2, <2>1, <2>2 DEF Fresh, FreshIn
<1>21. DeleteTail'
  <2>1. SUFFICES ASSUME NEW i \in 1 .. Len(log'), log'[i].kind = "delete"
                 PROVE  Done(log', i) \/ Ended(log', log'[i].txn, "rollback")
    BY DEF DeleteTail
  <2>2. i \in 1 .. Len(log) /\ log[i].kind = "delete" /\ log'[i] = log[i]
    BY <1>3, <1>4, <2>1
  <2>. QED BY <1>1, <1>2, <1>7, <1>9, <1>10, <2>2 DEF DeleteTail, InStatement
<1>22. Listed'
  <2>1. ASSUME NEW q, q \in DOMAIN disk' \/ q \in DOMAIN cache' PROVE Lists(pages', q)
    <3>1. CASE q \in DOMAIN disk
      BY <1>1, <1>2, <1>7, <3>1 DEF Listed
    <3>2. CASE q \in DOMAIN cache'
      BY <1>1, <1>2, <1>7, <3>2, LoadsListed
    <3>. QED BY <1>2, <2>1, <3>1, <3>2
  <2>. QED BY <2>1 DEF Listed
<1>23. Rolled'
  <2>1. /\ \A m \in 1 .. Len(log') : m > Len(log) => log'[m].kind \notin {"clr", "rollback"}
        /\ \A m \in 1 .. Len(log') : m > Len(log) => log'[m].kind \notin DataKinds
    BY <1>3, <1>4 DEF DataKinds
  <2>2. ASSUME NEW i \in 1 .. Len(log), Gone(log[i].page), RowRec(log, i, log[i].page)
        PROVE  Gone(log[i].page)'
    <3>0. PICK q : q = log[i].page
      OBVIOUS
    <3>1. q \notin DOMAIN cache'
      BY <1>2, <2>2, <3>0, LoadsGone
    <3>2. ASSUME NEW j \in 1 .. Len(log'), RowRec(log', j, q) PROVE ~Done(log', j)
      <4>1. j \in 1 .. Len(log) /\ RowRec(log, j, q)
        BY <1>4, <2>1, <3>2 DEF RowRec
      <4>. QED BY <1>10, <2>2, <3>0, <4>1 DEF Gone
    <3>3. Gone(q)'
      BY <1>2, <2>2, <3>0, <3>1, <3>2 DEF Gone
    <3>. QED BY <1>4, <3>0, <3>3
  <2>. QED BY <1>1, <1>4, <2>1, <2>2, RolledStays
<1>. QED BY <1>11, <1>12, <1>13, <1>14, <1>15, <1>16, <1>17, <1>18, <1>19, <1>20, <1>21, <1>22, <1>23
     DEF TableInv

-----------------------------------------------------------------------------
(* Failing, committing, writing and evicting                               *)

(* Steps of a running instance that log nothing: what is about the log and   *)
(* the page files.                                                           *)
LEMMA SameLog ==
  ASSUME TypeInv, TypeInv', LsnsUp, TableInv, phase \in Normal, phase' \in Normal, log' = log,
         \A i \in 1 .. Len(log) : Gone(log[i].page) /\ RowRec(log, i, log[i].page) => Gone(log[i].page)'
  PROVE  History(log') /\ Pending' /\ Redone' /\ Walked' /\ Rolled'
<1>1. Len(log) \in Nat /\ Grown(log, log') /\ \A m \in 1 .. Len(log') : ~(m > Len(log))
  BY PageFields DEF Grown
<1>2. Pending' /\ Redone' /\ Walked'
  BY <1>1, NormalKeeps DEF TableInv
<1>3. Rolled'
  BY <1>1, RolledStays DEF TableInv
<1>. QED BY <1>2, <1>3 DEF TableInv

(* Every record has a transaction.                                           *)
LEMMA NoOwner ==
  ASSUME TypeInv, NEW j \in 1 .. Len(log) PROVE log[j].txn # NoTxn
<1>1. log[j] \in Record
  BY ElementOfSeq DEF TypeInv, TypeOK
<1>. QED BY <1>1, RecordFields, ConstantsAssumption

(* insert_row fails.                                                         *)
LEMMA ThrowsTable ==
  ASSUME TypeInv, TypeInv', LsnInv, LsnsUp, UndoInv, TableInv, Throws
  PROVE  TableInv'
<1>1. /\ History(log) /\ Known /\ Tasks /\ OwnRows /\ Latest /\ Ends /\ Fresh /\ Pending
      /\ DeleteTail /\ Listed /\ Rolled /\ CachedRight(log, txn, cache) /\ DiskRight
  BY DEF TableInv
<1>2. /\ Loads(cache', pages', dirty') /\ phase = "insert" /\ phase' = "idle" /\ txn' = NoTxn
      /\ todo' = {} /\ UNCHANGED <<log, durable, disk, redone, active, current>>
  BY DEF Throws
<1>3. phase \in Normal /\ phase' \in Normal /\ phase \in InStatement
  BY <1>2 DEF Normal, InStatement
<1>4. KnownIn(log, cache') /\ Over(cache')
  BY <1>1, <1>2, LoadedKnown
<1>5. CachedRight(log, txn, cache')
  BY <1>1, <1>2, <1>3, LoadedRight
<1>6. Known'
  BY <1>1, <1>2, <1>4 DEF Known, KnownOut, Over
<1>7. CachedRight(log', txn', cache')
  <2>. SUFFICES ASSUME Fine(log), NEW q \in DOMAIN cache' PROVE CachedOK(log, NoTxn, cache'[q].rows, q)
    BY <1>2 DEF CachedRight
  <2>1. Content(log, InCache(log, txn, q), Undone(log, Len(log)), cache'[q].rows, q)
    BY <1>5 DEF CachedRight, CachedOK
  <2>2. InCache(log, NoTxn, q) \subseteq InCache(log, txn, q)
    BY NoOwner DEF InCache
  <2>3. ASSUME NEW j \in InCache(log, txn, q) \ InCache(log, NoTxn, q) PROVE log[j].kind # "delete"
    <3>1. j \in 1 .. Len(log) /\ OwnRow(j)
      BY <2>3 DEF InCache, OwnRow, RowRec
    <3>. QED BY <1>1, <1>2, <1>3, <3>1 DEF OwnRows
  <2>4. Content(log, InCache(log, NoTxn, q), Undone(log, Len(log)), cache'[q].rows, q)
    BY <2>1, <2>2, <2>3, ContentShrinks
  <2>. QED BY <2>4 DEF CachedOK
<1>8. DiskRight'
  BY <1>1, <1>2 DEF DiskRight, FilesRight
<1>9. Tasks' /\ OwnRows' /\ Latest' /\ Ends'
  BY <1>1, <1>2 DEF Tasks, OwnRows, Latest, Ends, Running, InStatement
<1>10. Fresh'
  <2>1. FreshIn(log, cache', dirty')
    BY <1>1, <1>2, <1>3, LoadedFresh
  <2>. QED BY <1>2, <2>1 DEF Fresh, FreshIn
<1>11. DeleteTail'
  <2>1. ASSUME NEW i \in 1 .. Len(log), log[i].kind = "delete"
        PROVE  Done(log, i) \/ Ended(log, log[i].txn, "rollback")
    <3>1. ~(log[i].txn = txn)
      BY <1>1, <1>2, <1>3, <2>1 DEF OwnRows, OwnRow, DataKinds
    <3>. QED BY <1>1, <1>3, <2>1, <3>1 DEF DeleteTail
  <2>. QED BY <1>2, <2>1 DEF DeleteTail
<1>12. Listed'
  <2>1. ASSUME NEW q, q \in DOMAIN disk' \/ q \in DOMAIN cache' PROVE Lists(pages', q)
    <3>1. CASE q \in DOMAIN disk
      BY <1>1, <1>2, <1>3, <3>1 DEF Listed, Loads
    <3>2. CASE q \in DOMAIN cache'
      BY <1>1, <1>2, <1>3, <3>2, LoadsListed
    <3>. QED BY <1>2, <2>1, <3>1, <3>2
  <2>. QED BY <2>1 DEF Listed
<1>13. History(log') /\ Pending' /\ Redone' /\ Walked' /\ Rolled'
  <2>1. ASSUME NEW i \in 1 .. Len(log), Gone(log[i].page), RowRec(log, i, log[i].page)
        PROVE  Gone(log[i].page)'
    <3>1. log[i].page \notin DOMAIN cache'
      BY <1>2, <2>1, LoadsGone
    <3>. QED BY <1>2, <2>1, <3>1 DEF Gone
  <2>. QED BY <1>2, <1>3, <2>1, SameLog
<1>. QED BY <1>6, <1>7, <1>8, <1>9, <1>10, <1>11, <1>12, <1>13 DEF TableInv

(* Transaction::commit logs the commit record.                               *)
LEMMA CommitTable ==
  ASSUME TypeInv, TypeInv', LsnInv, LsnsUp, UndoInv, TableInv, Commit
  PROVE  TableInv'
<1>1. /\ History(log) /\ Known /\ Tasks /\ OwnRows /\ Latest /\ Ends /\ Fresh /\ Pending
      /\ DeleteTail /\ Listed /\ Rolled /\ CachedRight(log, txn, cache) /\ DiskRight
  BY DEF TableInv
<1>2. /\ phase \in InStatement /\ todo = {} /\ phase' = "waiting" /\ log' = LogMark(log, txn, "commit")
      /\ txn \in Txns
      /\ UNCHANGED <<durable, disk, cache, pages, dirty, txn, todo, redone, active, current>>
  BY DEF Commit, memory, statement, recovery, TypeInv, StmtInv
<1>3. PICK r \in Record : Adds(r) /\ r.kind = "commit" /\ r.txn = txn
  BY <1>2, MarkAdds
<1> DEFINE n == Len(log) + 1
<1>4. /\ Len(log) \in Nat /\ Len(log') = n /\ log'[n] = r /\ n \in 1 .. Len(log')
      /\ Grown(log, log') /\ log \in Seq(Record) /\ log' \in Seq(Record)
      /\ \A i \in 1 .. Len(log) : i \in 1 .. Len(log') /\ log'[i] = log[i]
      /\ \A m \in 1 .. Len(log') : m > Len(log) => m = n /\ log'[m] = r
      /\ \A m \in 1 .. Len(log') : m \in 1 .. Len(log) \/ m > Len(log)
  BY <1>3, AddsLog
<1>5. phase \in Normal /\ phase' \in Normal /\ phase \in Running
  BY <1>2 DEF Normal, Running
<1>6. /\ \A y : Ended(log', y, "commit") <=> Ended(log, y, "commit") \/ y = txn
      /\ \A y : Ended(log', y, "rollback") <=> Ended(log, y, "rollback")
  <2>1. ASSUME NEW y PROVE /\ Ended(log', y, "commit") <=> Ended(log, y, "commit") \/ y = txn
                           /\ Ended(log', y, "rollback") <=> Ended(log, y, "rollback")
    BY <1>3, AddsEnded
  <2>. QED BY <2>1
<1>7. \A j \in 1 .. Len(log) : (Done(log', j) <=> Done(log, j) \/ log[j].txn = txn)
  BY <1>4, <1>6 DEF Done
<1>8. /\ durable \in Nat /\ durable <= Len(log)
      /\ \A j \in 1 .. Len(log) : log[j].txn = txn =>
            j > durable /\ \A m \in 1 .. Len(log) : m > j => log[m].txn = txn
  BY <1>1, <1>5, PageFields DEF Latest
<1>9. History(log')
  <2>1. Alone(log', n)
    <3>1. ASSUME NEW i \in 1 .. n - 1, NEW j \in 1 .. n - 1, i < j, log'[i].txn = txn PROVE log'[j].txn = txn
      <4>1. i \in 1 .. Len(log) /\ j \in 1 .. Len(log)
        BY <1>4
      <4>. QED BY <1>4, <1>8, <3>1, <4>1
    <3>. QED BY <1>3, <1>4, <3>1 DEF Alone
  <2>2. Told(log', n)
    BY <1>3, <1>4, <2>1 DEF Told, Sourced, Rightful, Replaces, Makes
  <2>3. \A m \in 1 .. Len(log') : m > Len(log) => Told(log', m)
    BY <1>4, <2>2
  <2>. QED BY <1>1, <1>4, <2>3, HistoryGrows
<1>10. Known'
  <2>1. KnownIn(log', cache) /\ KnownOut'
    BY <1>1, <1>2, <1>4, KnownStays DEF Known
  <2>. QED BY <1>1, <1>2, <2>1 DEF Known, Over
<1>11. CachedRight(log', txn', cache')
  <2>1. ASSUME NEW q \in DOMAIN cache PROVE InCache(log', txn, q) = InCache(log, txn, q)
    <3>1. \A j \in 1 .. Len(log') : RowRec(log', j, q) => j \in 1 .. Len(log)
      BY <1>3, <1>4 DEF RowRec, DataKinds
    <3>2. \A j \in 1 .. Len(log) : (RowRec(log', j, q) <=> RowRec(log, j, q))
      BY <1>4 DEF RowRec
    <3>. QED BY <1>4, <1>7, <3>1, <3>2 DEF InCache
  <2>2. r.kind \notin DataKinds /\ r.kind # "clr"
    BY <1>3 DEF DataKinds
  <2>3. CachedRight(log', txn, cache)
    BY <1>1, <1>3, <2>1, <2>2, CachedGrows DEF Known
  <2>. QED BY <1>2, <2>3
<1>12. DiskRight'
  <2>1. r.kind \notin DataKinds
    BY <1>3 DEF DataKinds
  <2>. QED BY <1>1, <1>2, <1>3, <1>8, <2>1, FilesGrow
<1>13. Tasks' /\ OwnRows'
  BY <1>2 DEF Tasks, OwnRows, InStatement
<1>14. Latest'
  <2>1. ASSUME NEW j \in 1 .. Len(log'), log'[j].txn = txn
        PROVE  j > durable /\ \A m \in 1 .. Len(log') : m > j => log'[m].txn = txn
    <3>1. CASE j \in 1 .. Len(log)
      BY <1>3, <1>4, <1>8, <2>1, <3>1
    <3>2. CASE j > Len(log)
      BY <1>4, <1>8, <3>2
    <3>. QED BY <1>4, <3>1, <3>2
  <2>. QED BY <1>2, <2>1 DEF Latest
<1>15. Ends'
  <2>1. \A j \in 1 .. Len(log') : log'[j].kind \in {"clr", "rollback"} => j <= durable
    BY <1>1, <1>3, <1>4 DEF Ends
  <2>. QED BY <1>2, <1>6, <2>1 DEF Ends
<1>16. Fresh'
  <2>1. ASSUME NEW j \in 1 .. Len(log'), NEW q \in Pages, RowRec(log', j, q), Done(log', j)
        PROVE  /\ q \in DOMAIN cache => j <= cache[q].last_lsn
               /\ q \notin dirty => q \in DOMAIN disk /\ j <= disk[q].last_lsn
    <3>1. j \in 1 .. Len(log) /\ RowRec(log, j, q)
      BY <1>3, <1>4, <2>1 DEF RowRec, DataKinds
    <3>2. CASE Done(log, j)
      BY <1>1, <1>5, <3>1, <3>2 DEF Fresh, FreshIn
    <3>3. CASE log[j].txn = txn
      BY <1>1, <1>2, <3>1, <3>3 DEF OwnRows, OwnRow, RowRec
    <3>. QED BY <1>7, <2>1, <3>1, <3>2, <3>3
  <2>. QED BY <1>2, <2>1 DEF Fresh, FreshIn
<1>17. DeleteTail'
  <2>1. SUFFICES ASSUME NEW i \in 1 .. Len(log'), log'[i].kind = "delete"
                 PROVE  Done(log', i) \/ Ended(log', log'[i].txn, "rollback")
    BY DEF DeleteTail
  <2>2. i \in 1 .. Len(log) /\ log[i].kind = "delete" /\ log'[i] = log[i]
    BY <1>3, <1>4, <2>1
  <2>. QED BY <1>1, <1>5, <1>6, <1>7, <2>2 DEF DeleteTail
<1>18. Listed'
  BY <1>1, <1>2, <1>5 DEF Listed
<1>19. Pending' /\ Redone' /\ Walked'
  <2>1. \A m \in 1 .. Len(log') : m > Len(log) => log'[m].kind # "clr"
    BY <1>3, <1>4
  <2>. QED BY <1>1, <1>4, <1>5, <2>1, NormalKeeps
<1>20. Rolled'
  <2>1. /\ \A m \in 1 .. Len(log') : m > Len(log) => log'[m].kind \notin {"clr", "rollback"}
        /\ \A m \in 1 .. Len(log') : m > Len(log) => log'[m].kind \notin DataKinds
    BY <1>3, <1>4 DEF DataKinds
  <2>2. ASSUME NEW i \in 1 .. Len(log), Gone(log[i].page), RowRec(log, i, log[i].page)
        PROVE  Gone(log[i].page)'
    <3>0. PICK q : q = log[i].page
      OBVIOUS
    <3>2. ASSUME NEW j \in 1 .. Len(log'), RowRec(log', j, q) PROVE ~Done(log', j)
      <4>1. j \in 1 .. Len(log) /\ RowRec(log, j, q)
        BY <1>4, <2>1, <3>2 DEF RowRec
      <4>2. log[j].txn # txn
        BY <1>1, <1>2, <2>2, <3>0, <4>1 DEF OwnRows, OwnRow, RowRec, Gone
      <4>. QED BY <1>7, <2>2, <3>0, <4>1, <4>2 DEF Gone
    <3>3. Gone(q)'
      BY <1>2, <2>2, <3>0, <3>2 DEF Gone
    <3>. QED BY <1>4, <3>0, <3>3
  <2>. QED BY <1>1, <1>4, <2>1, <2>2, RolledStays
<1>. QED BY <1>9, <1>10, <1>11, <1>12, <1>13, <1>14, <1>15, <1>16, <1>17, <1>18, <1>19, <1>20 DEF TableInv

(* wait_for_durable returns.                                                 *)
LEMMA WaitTable ==
  ASSUME TypeInv, TypeInv', LsnInv, LsnsUp, UndoInv, TableInv, WaitForDurable
  PROVE  TableInv'
<1>1. /\ History(log) /\ Known /\ Tasks /\ Ends /\ Fresh
      /\ DeleteTail /\ Listed /\ CachedRight(log, txn, cache) /\ DiskRight
  BY DEF TableInv
<1>2. /\ phase = "waiting" /\ phase' = "flushing" /\ durable' = Len(log)
      /\ UNCHANGED <<log, disk, cache, pages, dirty, txn, todo, redone, active, current>>
  BY DEF WaitForDurable, memory, statement, recovery
<1>3. phase \in Normal /\ phase' \in Normal
  BY <1>2 DEF Normal
<1>4. Len(log) \in Nat /\ durable \in Nat /\ durable <= Len(log)
  BY PageFields
<1>5. Known'
  <2>1. ASSUME NEW q \in DOMAIN disk PROVE KnownBy(log, Len(log), disk[q].rows, q)
    <3>1. KnownBy(log, durable, disk[q].rows, q)
      BY <1>1 DEF Known, KnownOut
    <3>. QED BY <1>4, <3>1, KnownGrows
  <2>. QED BY <1>1, <1>2, <2>1 DEF Known, KnownOut, Over
<1>6. DiskRight'
  <2>1. ASSUME NEW lg \in Seq(Record), Grown(lg, log), Len(log) <= Len(lg) PROVE FilesRight(lg)
    <3>1. durable <= Len(lg)
      BY <1>4, <2>1, LenProperties
    <3>. QED BY <1>1, <2>1, <3>1 DEF DiskRight
  <2>. QED BY <1>2, <2>1 DEF DiskRight, FilesRight
<1>7. Tasks' /\ OwnRows' /\ Latest' /\ Fresh' /\ Listed'
  BY <1>1, <1>2, <1>3 DEF Tasks, OwnRows, Latest, Fresh, FreshIn, Listed, InStatement, Running
<1>8. Ends'
  <2>1. \A j \in 1 .. Len(log) : j <= Len(log)
    BY <1>4
  <2>. QED BY <1>1, <1>2, <2>1 DEF Ends
<1>9. DeleteTail'
  BY <1>1, <1>2, <1>3 DEF DeleteTail, InStatement
<1>10. History(log') /\ Pending' /\ Redone' /\ Walked' /\ Rolled'
  <2>1. \A i \in 1 .. Len(log) : Gone(log[i].page) /\ RowRec(log, i, log[i].page) => Gone(log[i].page)'
    BY <1>2 DEF Gone
  <2>. QED BY <1>2, <1>3, <2>1, SameLog
<1>11. CachedRight(log', txn', cache')
  BY <1>1, <1>2
<1>. QED BY <1>5, <1>6, <1>7, <1>8, <1>9, <1>10, <1>11 DEF TableInv

(* commit returns, or a clean page is evicted.                               *)
LEMMA ReturnTable ==
  ASSUME TypeInv, TypeInv', LsnInv, LsnsUp, UndoInv, TableInv, Evictions # "any",
         CommitDone \/ \E p \in Pages : Evict(p)
  PROVE  TableInv'
<1>1. /\ History(log) /\ Known /\ Tasks /\ Ends /\ Fresh
      /\ DeleteTail /\ Listed /\ CachedRight(log, txn, cache) /\ DiskRight
  BY DEF TableInv
<1>2. /\ phase \in {"idle", "flushing"} /\ phase' = "idle" /\ txn' = NoTxn /\ todo' = {}
      /\ phase = "flushing" \/ txn = NoTxn
      /\ UNCHANGED <<log, disk, durable, pages, dirty, redone, active, current>>
      /\ DOMAIN cache' \subseteq DOMAIN cache /\ \A q \in DOMAIN cache' : cache'[q] = cache[q]
  <2>1. CASE CommitDone
    BY <2>1 DEF CommitDone, memory, files, recovery, TypeInv, StmtInv
  <2>2. ASSUME NEW p \in Pages, Evict(p)
        PROVE  /\ phase = "idle" /\ phase' = "idle" /\ txn' = NoTxn /\ txn = NoTxn /\ todo' = {}
               /\ UNCHANGED <<log, disk, durable, pages, dirty, redone, active, current>>
               /\ DOMAIN cache' \subseteq DOMAIN cache /\ \A q \in DOMAIN cache' : cache'[q] = cache[q]
    <3>1. /\ phase = "idle" /\ phase' = "idle" /\ UNCHANGED <<log, durable, pages, txn, todo, redone, active, current>>
          /\ p \notin dirty /\ disk' = disk /\ dirty' = dirty \ {p}
          /\ cache' = [q \in DOMAIN cache \ {p} |-> cache[q]]
      BY <2>2 DEF Evict, statement, recovery
    <3>2. txn = NoTxn /\ todo = {}
      BY <1>1, <3>1 DEF Ends, TypeInv, StmtInv
    <3>. QED BY <3>1, <3>2
  <2>. QED BY <2>1, <2>2
<1>3. phase \in Normal /\ phase' \in Normal
  BY <1>2 DEF Normal
<1>4. Known'
  BY <1>1, <1>2 DEF Known, KnownIn, KnownOut, Over
<1>5. DiskRight'
  BY <1>1, <1>2 DEF DiskRight, FilesRight
<1>6. CachedRight(log', txn', cache')
  <2>1. ASSUME NEW q PROVE InCache(log, NoTxn, q) = InCache(log, txn, q)
    <3>1. CASE txn = NoTxn
      BY <3>1
    <3>2. CASE phase = "flushing"
      <4>1. \A j \in 1 .. Len(log) : log[j].txn = txn => Done(log, j)
        BY <1>1, <3>2 DEF Ends, Done
      <4>. QED BY <4>1, NoOwner DEF InCache
    <3>. QED BY <1>2, <3>1, <3>2
  <2>. QED BY <1>1, <1>2, <2>1 DEF CachedRight, CachedOK
<1>7. Tasks' /\ OwnRows' /\ Latest' /\ Ends'
  BY <1>1, <1>2 DEF Tasks, OwnRows, Latest, Ends, InStatement, Running
<1>8. Fresh' /\ Listed'
  BY <1>1, <1>2, <1>3 DEF Fresh, FreshIn, Listed
<1>9. DeleteTail'
  BY <1>1, <1>2, <1>3 DEF DeleteTail, InStatement
<1>10. History(log') /\ Pending' /\ Redone' /\ Walked' /\ Rolled'
  <2>1. \A i \in 1 .. Len(log) : Gone(log[i].page) /\ RowRec(log, i, log[i].page) => Gone(log[i].page)'
    BY <1>2 DEF Gone
  <2>. QED BY <1>2, <1>3, <2>1, SameLog
<1>. QED BY <1>4, <1>5, <1>6, <1>7, <1>8, <1>9, <1>10 DEF TableInv

(* A page goes to its file: everything in the log is in the log files, and   *)
(* the page has seen all of it that concerns it.                             *)
LEMMA FlushTable ==
  ASSUME TypeInv, TypeInv', LsnInv, LsnsUp, UndoInv, TableInv, NEW p \in Pages, FlushDirty(p)
  PROVE  TableInv'
<1>1. /\ History(log) /\ Known /\ Tasks /\ Ends /\ Fresh /\ Pending
      /\ DeleteTail /\ Listed /\ CachedRight(log, txn, cache) /\ DiskRight
  BY DEF TableInv
<1>2. /\ phase = "flushing" /\ phase' = "flushing" /\ p \in dirty /\ dirty' = dirty \ {p}
      /\ disk' = write_page(p, cache[p]) /\ p \in DOMAIN cache
      /\ UNCHANGED <<log, durable, cache, pages, txn, todo, redone, active, current>>
  BY DEF FlushDirty, Flushable, statement, recovery, TypeInv, TypeOK
<1>3. phase \in Normal /\ phase' \in Normal /\ durable = Len(log) /\ Len(log) \in Nat
  BY <1>2, PageFields DEF Normal, LsnInv
<1> DEFINE L == cache[p].last_lsn
           rows == cache[p].rows
<1>4. Writes(L, p, rows)
  BY <1>2, WritePageWrites DEF TypeInv, TypeOK, PageMap
<1>5. /\ DOMAIN disk' = DOMAIN disk \union {p} /\ \A q \in DOMAIN disk \ {p} : disk'[q] = disk[q]
      /\ disk'[p].rows = rows /\ disk'[p].last_lsn = L
  BY <1>4 DEF Writes
<1>6. Known'
  <2>1. KnownOut'
    BY <1>1, <1>2, <1>3, <1>5 DEF Known, KnownIn, KnownOut
  <2>2. Over(cache)'
    BY <1>1, <1>2, <1>5 DEF Known, Over
  <2>. QED BY <1>1, <1>2, <2>1, <2>2 DEF Known
<1>7. \A j \in 1 .. Len(log) : RowRec(log, j, p) /\ Done(log, j) => j <= L
  BY <1>1, <1>2, <1>3 DEF Fresh, FreshIn
<1>8. ASSUME Fine(log) PROVE FileOK(log, rows, L, p)
  <2>1. Content(log, InCache(log, txn, p), Undone(log, Len(log)), rows, p)
    BY <1>1, <1>2, <1>8 DEF CachedRight, CachedOK
  <2>2. InCache(log, txn, p) = InFile(log, p, L)
    <3>1. \A j \in 1 .. Len(log) : log[j].txn = txn => Done(log, j)
      BY <1>1, <1>2 DEF Ends, Done
    <3>. QED BY <1>7, <3>1 DEF InCache, InFile
  <2>3. ASSUME NEW i \in 1 .. Len(log), MadeOn(log, i, p)
        PROVE  i \in Undone(log, Len(log)) <=> i \in Undone(log, L)
    <3>1. RowRec(log, i, p)
      BY <2>3 DEF MadeOn, Makes, RowRec, DataKinds
    <3>2. ASSUME NEW d \in 1 .. Len(log), log[d].kind = "clr", log[d].of = i PROVE d <= L
      <4>1. Comp(log, d, p)
        BY <3>1, <3>2 DEF Comp
      <4>2. p \in DOMAIN disk /\ d <= disk[p].last_lsn
        BY <1>1, <1>2, <4>1 DEF Pending
      <4>3. disk[p].last_lsn <= L /\ disk[p].last_lsn \in Nat /\ L \in Nat
        BY <1>2, <4>2, PageFields DEF LsnInv
      <4>. QED BY <1>3, <4>2, <4>3
    <3>3. \A d \in 1 .. Len(log) : d <= Len(log)
      BY <1>3
    <3>. QED BY <3>2, <3>3 DEF Undone
  <2>4. Content(log, InCache(log, txn, p), Undone(log, L), rows, p)
    <3>. HIDE DEF L, rows
    <3>. QED BY <2>1, <2>3, ContentSame
  <2>5. \A j \in 1 .. Len(log) : MadeOn(log, j, p) /\ Done(log, j) => ~(j > L)
    <3>1. L \in Nat
      BY <1>2, PageFields
    <3>. QED BY <1>3, <1>7, <3>1 DEF MadeOn, Makes, RowRec, DataKinds
  <2>. QED BY <2>2, <2>4, <2>5 DEF FileOK
<1>9. DiskRight'
  <2>. SUFFICES ASSUME NEW lg \in Seq(Record), Grown(lg, log), Len(log) <= Len(lg), Fine(lg),
                       NEW q \in DOMAIN disk'
                PROVE  FileOK(lg, disk'[q].rows, disk'[q].last_lsn, q)
    BY <1>2, <1>3 DEF DiskRight, FilesRight
  <2>1. lg = log
    <3>1. Len(lg) = Len(log)
      BY <1>3, LenProperties DEF Grown
    <3>2. DOMAIN lg = 1 .. Len(lg) /\ DOMAIN log = 1 .. Len(log) /\ log \in Seq(Record)
      BY LenProperties DEF TypeInv, TypeOK
    <3>3. \A i \in 1 .. Len(lg) : lg[i] = log[i]
      BY DEF Grown
    <3>. QED BY <3>1, <3>2, <3>3, SeqEqual
  <2>2. CASE q = p
    BY <1>5, <1>8, <2>1, <2>2
  <2>3. CASE q # p
    <3>1. q \in DOMAIN disk /\ disk'[q] = disk[q]
      BY <1>5, <2>3
    <3>2. FilesRight(log)
      BY <1>1, GrownSelf DEF DiskRight
    <3>. QED BY <2>1, <3>1, <3>2 DEF FilesRight
  <2>. QED BY <2>2, <2>3
<1>10. Tasks' /\ OwnRows' /\ Latest' /\ Ends'
  BY <1>1, <1>2 DEF Tasks, OwnRows, Latest, Ends, InStatement, Running
<1>11. Fresh'
  <2>1. ASSUME NEW j \in 1 .. Len(log), NEW q \in Pages, RowRec(log, j, q), Done(log, j)
        PROVE  /\ q \in DOMAIN cache => j <= cache[q].last_lsn
               /\ q \notin dirty' => q \in DOMAIN disk' /\ j <= disk'[q].last_lsn
    <3>1. /\ q \in DOMAIN cache => j <= cache[q].last_lsn
          /\ q \notin dirty => q \in DOMAIN disk /\ j <= disk[q].last_lsn
      BY <1>1, <1>3, <2>1 DEF Fresh, FreshIn
    <3>2. CASE q = p
      BY <1>2, <1>5, <3>1, <3>2
    <3>3. CASE q # p
      BY <1>2, <1>5, <3>1, <3>3
    <3>. QED BY <3>2, <3>3
  <2>. QED BY <1>2, <2>1 DEF Fresh, FreshIn
<1>12. Listed' /\ DeleteTail'
  BY <1>1, <1>2, <1>3, <1>5 DEF Listed, DeleteTail, InStatement
<1>13. History(log') /\ Pending' /\ Redone' /\ Walked' /\ Rolled'
  <2>1. \A i \in 1 .. Len(log) : Gone(log[i].page) /\ RowRec(log, i, log[i].page) => Gone(log[i].page)'
    BY <1>2, <1>5 DEF Gone
  <2>. QED BY <1>2, <1>3, <2>1, SameLog
<1>14. CachedRight(log', txn', cache')
  BY <1>1, <1>2
<1>. QED BY <1>6, <1>9, <1>10, <1>11, <1>12, <1>13, <1>14 DEF TableInv

-----------------------------------------------------------------------------
(* Crashes                                                                 *)

(* Phases of recovery.                                                       *)
Recovery == {"redo", "undo", "undo_apply"}

(* Without pages in memory and with the whole log in its files.              *)
LEMMA NoMemory ==
  ASSUME TypeInv', LsnInv', phase' \in Recovery \union {"down"}
  PROVE  /\ Tasks' /\ OwnRows' /\ Latest' /\ Fresh' /\ Listed'
         /\ KnownIn(log', cache') /\ Over(cache)' /\ CachedRight(log', txn', cache')
         /\ DOMAIN cache' = {} /\ durable' = Len(log') /\ phase' \notin Normal
<1>1. phase' \notin Normal /\ phase' \notin Running /\ phase' \notin InStatement
  BY DEF Recovery, Normal, Running, InStatement
<1>2. DOMAIN cache' = {} /\ durable' = Len(log') /\ todo' = {}
  BY DEF LsnInv, TypeInv, TypeOK, StmtInv, Recovery
<1>. QED BY <1>1, <1>2 DEF Tasks, OwnRows, Latest, Fresh, Listed, KnownIn, Over, CachedRight

(* A log that is as long as the one it begins is that log.                   *)
LEMMA WholeLog ==
  ASSUME NEW lg \in Seq(Record), NEW lg2 \in Seq(Record), Grown(lg, lg2), Len(lg2) <= Len(lg)
  PROVE  lg = lg2
<1>1. Len(lg) = Len(lg2) /\ DOMAIN lg = 1 .. Len(lg) /\ DOMAIN lg2 = 1 .. Len(lg2)
  BY LenProperties DEF Grown
<1>2. \A i \in 1 .. Len(lg) : lg[i] = lg2[i]
  BY DEF Grown
<1>. QED BY <1>1, <1>2, SeqEqual

(* What a step of the recovery has to show.                                  *)
LEMMA RecoveryTable ==
  ASSUME TypeInv', LsnInv', phase' \in Recovery, History(log'), KnownOut', Pending', Redone',
         DeleteTail', Rolled', Walked', FilesRight(log)'
  PROVE  TableInv'
<1>1. /\ Tasks' /\ OwnRows' /\ Latest' /\ Fresh' /\ Listed'
      /\ KnownIn(log', cache') /\ Over(cache)' /\ CachedRight(log', txn', cache') /\ durable' = Len(log')
  BY NoMemory
<1>2. Ends'
  <2>1. Len(log') \in Nat
    BY LenProperties DEF TypeInv, TypeOK
  <2>2. \A j \in 1 .. Len(log') : j <= Len(log')
    BY <2>1
  <2>. QED BY <1>1, <2>2 DEF Ends, Recovery
<1>3. DiskRight'
  <2>1. ASSUME NEW lg \in Seq(Record), Grown(lg, log'), durable' <= Len(lg) PROVE FilesRight(lg)'
    <3>1. lg = log'
      BY <1>1, <2>1, WholeLog DEF TypeInv, TypeOK
    <3>. QED BY <3>1 DEF FilesRight
  <2>. QED BY <2>1 DEF DiskRight, FilesRight
<1>. QED BY <1>1, <1>2, <1>3 DEF TableInv, Known

(* The process dies: the log that is left is a prefix, with all of what the  *)
(* page files have.                                                          *)
LEMMA DieTable ==
  ASSUME TypeInv, TypeInv', LsnInv, LsnInv', UndoInv, TableInv, NEW k \in durable .. Len(log),
         phase # "waiting" => k = durable, phase # "down", Die(k)
  PROVE  TableInv'
<1>1. /\ History(log) /\ Known /\ Latest /\ Ends /\ Pending /\ DeleteTail /\ Rolled /\ DiskRight
  BY DEF TableInv
<1>2. /\ phase' = "down" /\ log' = SubSeq(log, 1, k) /\ durable' = k /\ redone' = 0 /\ disk' = disk
      /\ cache' = <<>>
  BY DEF Die
<1>3. Len(log) \in Nat /\ durable \in Nat /\ k \in Nat /\ durable <= k /\ k <= Len(log)
      /\ log \in Seq(Record) /\ log' \in Seq(Record)
  BY PageFields DEF TypeInv, TypeOK
<1>4. Len(log') = k /\ \A i \in 1 .. k : log'[i] = log[i] /\ i \in 1 .. Len(log)
  BY <1>2, <1>3, SubSeqProperties
<1>5. Grown(log', log)
  BY <1>3, <1>4 DEF Grown
<1>6. /\ Tasks' /\ OwnRows' /\ Latest' /\ Fresh' /\ Listed'
      /\ KnownIn(log', cache') /\ Over(cache)' /\ CachedRight(log', txn', cache') /\ DOMAIN cache' = {}
  BY <1>2, NoMemory
<1>7. History(log')
  BY <1>1, <1>3, <1>5, HistoryCut
<1>8. KnownOut'
  <2>1. ASSUME NEW p \in DOMAIN disk PROVE KnownBy(log', k, disk[p].rows, p)
    <3>1. KnownBy(log, durable, disk[p].rows, p)
      BY <1>1 DEF Known, KnownOut
    <3>2. \A i \in 1 .. durable : i \in 1 .. k
      BY <1>3
    <3>. QED BY <1>4, <3>1, <3>2 DEF KnownBy, MadeOn, Makes
  <2>. QED BY <1>2, <2>1 DEF KnownOut
<1>9. Ends'
  <2>1. \A j \in 1 .. k : j <= k
    BY <1>3
  <2>. QED BY <1>2, <1>4, <2>1 DEF Ends
<1>10. \A x, kind : Ended(log', x, kind) => Ended(log, x, kind)
  BY <1>4 DEF Ended
<1>11. \A j \in 1 .. k : Done(log', j) => Done(log, j)
  BY <1>4, <1>10 DEF Done
<1>12. Pending'
  <2>1. ASSUME NEW c \in 1 .. k, NEW p \in Pages, Comp(log', c, p)
        PROVE  /\ p \in DOMAIN disk
               /\ c <= disk[p].last_lsn \/ c = k
    <3>1. log[c].kind = "clr" /\ log'[c] = log[c] /\ c \in 1 .. Len(log)
      BY <1>4, <2>1 DEF Comp
    <3>2. log[c].of \in 1 .. c - 1
      BY <3>1 DEF TypeInv, LinkInv, LinksBack
    <3>3. log[c].of \in 1 .. k
      BY <1>3, <3>2
    <3>4. Comp(log, c, p)
      BY <1>4, <2>1, <3>1, <3>3 DEF Comp, RowRec
    <3>5. /\ p \in DOMAIN disk
          /\ c <= disk[p].last_lsn \/ c = Len(log)
      BY <1>1, <3>1, <3>4 DEF Pending
    <3>6. c = Len(log) => c = k
      BY <1>3
    <3>. QED BY <3>5, <3>6
  <2>. QED BY <1>2, <1>4, <2>1 DEF Pending
<1>13. DeleteTail'
  <2>1. ASSUME NEW i \in 1 .. k, log[i].kind = "delete"
        PROVE  \/ Done(log', i) \/ Ended(log', log[i].txn, "rollback")
               \/ \A j \in 1 .. k : j >= i /\ log[j].kind \in DataKinds => log[j].txn = log[i].txn
    <3>0. i \in 1 .. Len(log)
      BY <1>4
    <3>1. CASE Done(log, i)
      <4>1. PICK c \in 1 .. Len(log) : log[c].kind = "commit" /\ log[c].txn = log[i].txn
        BY <3>1 DEF Done, Ended
      <4>2. CASE c <= k
        <5>1. c \in 1 .. k
          BY <1>3, <4>2
        <5>. QED BY <1>4, <4>1, <5>1 DEF Done, Ended
      <4>3. CASE c > k
        <5>1. Alone(log, c)
          BY <1>1 DEF History, Told
        <5>2. ASSUME NEW j \in 1 .. k, j >= i PROVE log[j].txn = log[i].txn
          <6>1. CASE j = i
            BY <6>1
          <6>2. CASE i < j
            <7>1. i \in 1 .. c - 1 /\ j \in 1 .. c - 1
              BY <1>3, <4>3
            <7>. QED BY <4>1, <5>1, <6>2, <7>1 DEF Alone
          <6>. QED BY <1>3, <5>2, <6>1, <6>2
        <5>. QED BY <5>2
      <4>. QED BY <1>3, <4>2, <4>3
    <3>2. CASE Ended(log, log[i].txn, "rollback")
      <4>1. PICK c \in 1 .. Len(log) : log[c].kind = "rollback" /\ log[c].txn = log[i].txn
        BY <3>2 DEF Ended
      <4>2. c <= durable
        BY <1>1, <4>1 DEF Ends
      <4>3. c \in 1 .. k
        BY <1>3, <4>2
      <4>. QED BY <1>4, <4>1, <4>3 DEF Ended
    <3>3. CASE phase \in InStatement /\ log[i].txn = txn
      <4>1. i > durable
        BY <1>1, <3>0, <3>3 DEF Latest, Running
      <4>2. k = durable
        BY <3>3 DEF InStatement
      <4>. QED BY <1>3, <4>1, <4>2
    <3>4. CASE \A j \in 1 .. Len(log) : j >= i /\ log[j].kind \in DataKinds => log[j].txn = log[i].txn
      BY <1>4, <3>4
    <3>. QED BY <1>1, <2>1, <3>0, <3>1, <3>2, <3>3, <3>4 DEF DeleteTail
  <2>2. phase' \notin Normal
    BY <1>2 DEF Normal, InStatement
  <2>. QED BY <1>4, <2>1, <2>2 DEF DeleteTail
<1>14. ASSUME NEW i \in 1 .. k, Handled(i) PROVE Handled(i)'
  <2>1. SUFFICES ASSUME log[i].kind \in DataKinds
                 PROVE  \/ \E c \in 1 .. k : log'[c].kind = "clr" /\ log'[c].of = i
                        \/ Gone(log[i].page)'
    BY <1>4 DEF Handled
  <2>2. CASE \E c \in 1 .. Len(log) : log[c].kind = "clr" /\ log[c].of = i
    <3>1. PICK c \in 1 .. Len(log) : log[c].kind = "clr" /\ log[c].of = i
      BY <2>2
    <3>2. c <= durable
      BY <1>1, <3>1 DEF Ends
    <3>3. c \in 1 .. k
      BY <1>3, <3>2
    <3>. QED BY <1>4, <3>1, <3>3
  <2>3. CASE Gone(log[i].page)
    <3>1. PICK q : q = log[i].page
      OBVIOUS
    <3>2. \A j \in 1 .. k : RowRec(log', j, q) => ~Done(log', j)
      BY <1>4, <1>11, <2>3, <3>1 DEF Gone, RowRec
    <3>3. Gone(q)'
      BY <1>2, <1>4, <1>6, <2>3, <3>1, <3>2 DEF Gone
    <3>4. log'[i].page = q
      BY <1>4, <3>1
    <3>. QED BY <1>4, <3>1, <3>3, <3>4
  <2>. QED BY <1>14, <2>1, <2>2, <2>3 DEF Handled
<1>15. Rolled'
  <2>1. ASSUME NEW i \in 1 .. k, Ended(log', log'[i].txn, "rollback") PROVE Handled(i)'
    BY <1>1, <1>4, <1>10, <1>14, <2>1 DEF Rolled
  <2>2. ASSUME NEW c \in 1 .. k, NEW i \in 1 .. k, log'[c].kind = "clr", log'[i].txn = log'[c].txn,
               i > log'[c].undo_next
        PROVE  Handled(i)'
    BY <1>1, <1>4, <1>14, <2>2 DEF Rolled
  <2>. QED BY <1>4, <2>1, <2>2 DEF Rolled
<1>16. Redone' /\ Walked'
  BY <1>2 DEF Redone, Reached, Walked
<1>17. DiskRight'
  <2>1. ASSUME NEW lg \in Seq(Record), Grown(lg, log'), k <= Len(lg) PROVE FilesRight(lg)
    <3>1. Len(lg) \in Nat /\ Len(lg) <= k
      BY <1>3, <1>4, <2>1, LenProperties DEF Grown
    <3>2. \A i \in 1 .. Len(lg) : log[i] = lg[i]
      <4>1. \A i \in 1 .. Len(lg) : i \in 1 .. k
        BY <1>3, <3>1
      <4>. QED BY <1>4, <2>1, <4>1 DEF Grown
    <3>3. Grown(lg, log) /\ durable <= Len(lg)
      BY <1>3, <2>1, <3>1, <3>2 DEF Grown
    <3>. QED BY <1>1, <3>3 DEF DiskRight
  <2>. QED BY <1>2, <2>1 DEF DiskRight, FilesRight
<1>. QED BY <1>6, <1>7, <1>8, <1>9, <1>12, <1>13, <1>15, <1>16, <1>17 DEF TableInv, Known

-----------------------------------------------------------------------------
(* Recovery steps that write no page                                       *)

(* Steps that only change where recovery is.                                 *)
LEMMA QuietRecovery ==
  ASSUME TypeInv, TypeInv', LsnInv, LsnInv', TableInv, phase \in Recovery \union {"down"},
         phase' \in Recovery, UNCHANGED <<log, durable, disk, cache>>,
         Pending', Redone', Walked'
  PROVE  TableInv'
<1>1. /\ History(log) /\ Known /\ DeleteTail /\ Rolled /\ DiskRight
  BY DEF TableInv
<1>2. phase \notin Normal /\ phase' \notin Normal /\ phase \notin InStatement
  BY DEF Recovery, Normal, InStatement
<1>3. History(log') /\ KnownOut'
  BY <1>1 DEF Known, KnownOut
<1>4. DeleteTail'
  BY <1>1, <1>2 DEF DeleteTail
<1>5. \A i \in 1 .. Len(log) : Handled(i) => Handled(i)'
  BY DEF Handled, Gone
<1>6. Rolled'
  BY <1>1, <1>5 DEF Rolled
<1>7. FilesRight(log)'
  <2>1. FilesRight(log)
    BY <1>1, GrownSelf DEF DiskRight
  <2>. QED BY <2>1 DEF FilesRight
<1>. QED BY <1>3, <1>4, <1>6, <1>7, RecoveryTable

(* The next start.                                                           *)
LEMMA StartTable ==
  ASSUME TypeInv, TypeInv', LsnInv, LsnInv', UndoInv, TableInv, Start
  PROVE  TableInv'
<1>1. /\ phase = "down" /\ phase' = "redo" /\ redone' = redone /\ redone = 0
      /\ UNCHANGED <<log, durable, disk, cache>>
  BY DEF Start, files, memory, recovery, TableInv, Ends
<1>2. Pending'
  BY <1>1 DEF TableInv, Pending
<1>3. Redone'
  <2>1. \A n \in 1 .. Len(log) : ~(n <= 0)
    BY PageFields
  <2>. QED BY <1>1, <2>1 DEF Redone, Reached
<1>4. Walked'
  BY <1>1 DEF Walked
<1>. QED BY <1>1, <1>2, <1>3, <1>4, QuietRecovery DEF Recovery

(* REDO is through: the page files have seen all they should.                *)
LEMMA EndRedoTable ==
  ASSUME TypeInv, TypeInv', LsnInv, LsnInv', UndoInv, TableInv, EndRedo
  PROVE  TableInv'
<1>1. /\ phase = "redo" /\ phase' = "undo" /\ redone = Len(log)
      /\ active' = {x \in {log[i].txn : i \in DOMAIN log} :
                      ~Marked(x, "commit") /\ ~Marked(x, "rollback")}
      /\ UNCHANGED <<log, durable, disk, cache, txn, current>>
  BY DEF EndRedo, files, memory, statement
<1>2. ASSUME NEW n \in 1 .. Len(log), NEW p \in Pages, Due(n, p)
      PROVE  p \in DOMAIN disk /\ n <= disk[p].last_lsn
  <2>1. n <= redone
    BY <1>1, PageFields
  <2>. QED BY <1>1, <1>2, <2>1 DEF TableInv, Redone, Reached
<1>3. Pending'
  BY <1>1, <1>2 DEF Pending, Due
<1>4. Redone'
  BY <1>1, <1>2 DEF Redone, Due
<1>5. Walked'
  <2>1. txn' = NoTxn
    BY <1>1 DEF UndoInv, WalkInv
  <2>2. ASSUME NEW i \in 1 .. Len(log), log[i].txn \notin active'
        PROVE  Ended(log, log[i].txn, "commit") \/ Ended(log, log[i].txn, "rollback")
    <3>1. i \in DOMAIN log
      BY LenProperties DEF TypeInv, TypeOK
    <3>2. Marked(log[i].txn, "commit") \/ Marked(log[i].txn, "rollback")
      BY <1>1, <2>2, <3>1
    <3>. QED BY <3>2, MarkedIs
  <2>. QED BY <1>1, <2>1, <2>2 DEF Walked
<1>. QED BY <1>1, <1>3, <1>4, <1>5, QuietRecovery DEF Recovery

(* undo() takes up a transaction.                                            *)
LEMMA UndoTxnTable ==
  ASSUME TypeInv, TypeInv', LsnInv, LsnInv', UndoInv, TableInv, NEW x \in Txns, UndoTxn(x)
  PROVE  TableInv'
<1>1. /\ phase = "undo" /\ phase' = "undo" /\ txn' = x /\ current' = LastLsn(x, log)
      /\ UNCHANGED <<log, durable, disk, cache, active, redone>>
  BY DEF UndoTxn, files, memory
<1>2. Pending' /\ Redone'
  BY <1>1 DEF TableInv, Pending, Redone, Reached, Due
<1>3. Walked'
  <2>1. /\ LastLsn(x, log) \in 0 .. Len(log)
        /\ \A i \in 1 .. Len(log) : log[i].txn = x => i <= LastLsn(x, log)
    BY LastLsnIs DEF TypeInv, TypeOK
  <2>2. \A i \in 1 .. Len(log) : log[i].txn = x => ~(i > LastLsn(x, log))
    BY <2>1, PageFields
  <2>. QED BY <1>1, <2>2 DEF Walked, TableInv
<1>. QED BY <1>1, <1>2, <1>3, QuietRecovery DEF Recovery

(* Between a record and the one before it there is none of its transaction,  *)
(* so that undo() misses nothing; a record it skips has nothing to undo.     *)
LEMMA PassedOver ==
  ASSUME TypeInv, LsnInv, UndoInv, TableInv, phase \in {"undo", "undo_apply"}, current # 0,
         log[current].kind # "clr"
  PROVE  /\ current \in 1 .. Len(log) /\ txn # NoTxn /\ log[current].txn = txn
         /\ \A i \in 1 .. Len(log) :
              log[i].txn = txn /\ i > log[current].prev => i = current \/ Handled(i)
<1>1. current \in 1 .. Len(log) /\ Len(log) \in Nat
  BY PageFields DEF TypeInv, TypeOK
<1>2. txn # NoTxn /\ log[current].txn = txn /\ log[current].kind # "rollback"
  BY <1>1 DEF UndoInv, WalkInv
<1>3. \A j \in 1 .. current - 1 : log[j].txn = txn => j <= log[current].prev
  BY <1>1, <1>2 DEF UndoInv, LogInv, Chained
<1>4. \A i \in 1 .. Len(log) : log[i].txn = txn /\ i > current => Handled(i)
  BY <1>2 DEF TableInv, Walked
<1>5. log[current].prev \in Nat
  <2>1. log[current] \in Record
    BY <1>1, ElementOfSeq DEF TypeInv, TypeOK
  <2>. QED BY <2>1, RecordFields
<1>6. ASSUME NEW i \in 1 .. Len(log), log[i].txn = txn, i > log[current].prev
      PROVE  i = current \/ Handled(i)
  <2>1. CASE i < current
    <3>1. i \in 1 .. current - 1
      BY <1>1, <2>1
    <3>. QED BY <1>1, <1>3, <1>5, <1>6, <3>1
  <2>2. CASE i > current
    BY <1>4, <1>6, <2>2
  <2>. QED BY <1>1, <2>1, <2>2
<1>. QED BY <1>1, <1>2, <1>6

(* undo() passes a record that has nothing to undo.                          *)
LEMMA UndoSkipTable ==
  ASSUME TypeInv, TypeInv', LsnInv, LsnInv', UndoInv, TableInv, UndoSkip
  PROVE  TableInv'
<1>1. /\ phase = "undo" /\ phase' = "undo" /\ current # 0 /\ ~Undoable(log[current])
      /\ current' = IF log[current].kind = "clr" THEN log[current].undo_next ELSE log[current].prev
      /\ UNCHANGED <<log, durable, disk, cache, active, redone, txn>>
  BY DEF UndoSkip, files, memory, statement
<1>2. Pending' /\ Redone'
  BY <1>1 DEF TableInv, Pending, Redone, Reached, Due
<1>3. ASSUME NEW i \in 1 .. Len(log), log[i].txn = txn, i > current' PROVE Handled(i)
  <2>1. CASE log[current].kind = "clr"
    <3>1. current \in 1 .. Len(log) /\ log[current].txn = txn
      BY <1>1, PageFields DEF TypeInv, TypeOK, UndoInv, WalkInv
    <3>. QED BY <1>1, <1>3, <2>1, <3>1 DEF TableInv, Rolled
  <2>2. CASE log[current].kind # "clr"
    <3>1. /\ current \in 1 .. Len(log)
          /\ log[i].txn = txn /\ i > log[current].prev => i = current \/ Handled(i)
      BY <1>1, <2>2, PassedOver
    <3>2. Handled(current)
      <4>1. SUFFICES ASSUME log[current].kind \in DataKinds PROVE Gone(log[current].page)
        BY DEF Handled
      <4>2. log[current] \in Record
        BY <3>1, ElementOfSeq DEF TypeInv, TypeOK
      <4>3. log[current].page \in Pages \ DOMAIN disk
        BY <1>1, <4>1, <4>2, RecordFields DEF Undoable
      <4>4. DOMAIN cache = {}
        BY <1>1 DEF LsnInv
      <4>5. ASSUME NEW j \in 1 .. Len(log), RowRec(log, j, log[current].page), Done(log, j) PROVE FALSE
        <5>1. Due(j, log[current].page) /\ Reached(j)
          BY <1>1, <4>5 DEF Due, Reached
        <5>. QED BY <4>3, <5>1 DEF TableInv, Redone
      <4>. QED BY <4>3, <4>4, <4>5 DEF Gone
    <3>. QED BY <1>1, <1>3, <2>2, <3>1, <3>2
  <2>. QED BY <2>1, <2>2
<1>4. \A i \in 1 .. Len(log) : Handled(i) => Handled(i)'
  BY <1>1 DEF Handled, Gone
<1>5. Walked'
  <2>1. \A i \in 1 .. Len(log) : log[i].txn \notin active =>
          Ended(log, log[i].txn, "commit") \/ Ended(log, log[i].txn, "rollback")
    BY <1>1 DEF TableInv, Walked
  <2>. QED BY <1>1, <1>3, <1>4, <2>1 DEF Walked
<1>. QED BY <1>1, <1>2, <1>5, QuietRecovery DEF Recovery

-----------------------------------------------------------------------------
(* undo() writes to the log; recovery ends                                 *)

(* A compensation or rollback record and the page files.                     *)
LEMMA UndoAdds ==
  ASSUME TypeInv, TypeInv', LsnInv, LsnInv', UndoInv, TableInv, phase = "undo", phase' \in Recovery,
         NEW r, Adds(r), r.kind \in {"clr", "rollback"},
         UNCHANGED <<disk, cache>>, durable' = Len(log) + 1
  PROVE  /\ History(log') /\ KnownOut' /\ DeleteTail' /\ FilesRight(log)'
         /\ \A x : Ended(log', x, "commit") <=> Ended(log, x, "commit")
         /\ \A x : Ended(log, x, "rollback") => Ended(log', x, "rollback")
         /\ \A x : Ended(log', x, "rollback") => Ended(log, x, "rollback") \/ (r.kind = "rollback" /\ r.txn = x)
         /\ \A i \in 1 .. Len(log) : Handled(i) => Handled(i)'
         /\ \A n \in 1 .. Len(log), p \in Pages : (Due(n, p)' => Due(n, p)) /\ (Comp(log', n, p) => Comp(log, n, p))
<1>1. /\ History(log) /\ Known /\ DeleteTail /\ DiskRight
  BY DEF TableInv
<1>2. /\ Len(log) \in Nat /\ Len(log') = Len(log) + 1 /\ log'[Len(log) + 1] = r
      /\ Grown(log, log') /\ log \in Seq(Record) /\ log' \in Seq(Record)
      /\ \A i \in 1 .. Len(log) : i \in 1 .. Len(log') /\ log'[i] = log[i]
      /\ \A m \in 1 .. Len(log') : m > Len(log) => m = Len(log) + 1 /\ log'[m] = r
      /\ \A m \in 1 .. Len(log') : m \in 1 .. Len(log) \/ m > Len(log)
  BY AddsLog
<1>3. r.kind \notin DataKinds /\ r.kind # "commit"
  BY DEF DataKinds
<1>4. ASSUME NEW x
      PROVE  /\ Ended(log', x, "commit") <=> Ended(log, x, "commit")
             /\ Ended(log', x, "rollback") <=> Ended(log, x, "rollback") \/ (r.kind = "rollback" /\ r.txn = x)
  BY <1>3, AddsEnded
<1>5. \A i \in 1 .. Len(log) : (Done(log', i) <=> Done(log, i))
  BY <1>2, <1>4 DEF Done
<1>6. History(log')
  <2>1. \A m \in 1 .. Len(log') : m > Len(log) => Told(log', m)
    BY <1>2, <1>3, PlainTold
  <2>. QED BY <1>1, <1>2, <2>1, HistoryGrows
<1>7. KnownOut'
  <2>1. ASSUME NEW p \in DOMAIN disk PROVE KnownBy(log', Len(log) + 1, disk[p].rows, p)
    <3>1. KnownBy(log, durable, disk[p].rows, p)
      BY <1>1 DEF Known, KnownOut
    <3>2. \A i \in 1 .. durable : i \in 1 .. Len(log) /\ i \in 1 .. Len(log) + 1
      BY <1>2, PageFields
    <3>. QED BY <1>2, <3>1, <3>2 DEF KnownBy, MadeOn, Makes
  <2>. QED BY <2>1 DEF KnownOut
<1>8. DeleteTail'
  <2>1. phase \notin Normal /\ phase' \notin Normal /\ phase \notin InStatement
    BY DEF Recovery, Normal, InStatement
  <2>2. ASSUME NEW i \in 1 .. Len(log'), log'[i].kind = "delete"
        PROVE  \/ Done(log', i) \/ Ended(log', log'[i].txn, "rollback")
               \/ \A j \in 1 .. Len(log') : j >= i /\ log'[j].kind \in DataKinds => log'[j].txn = log'[i].txn
    <3>1. i \in 1 .. Len(log) /\ log'[i] = log[i] /\ log[i].kind = "delete"
      BY <1>2, <1>3, <2>2
    <3>2. \/ Done(log, i) \/ Ended(log, log[i].txn, "rollback")
          \/ \A j \in 1 .. Len(log) : j >= i /\ log[j].kind \in DataKinds => log[j].txn = log[i].txn
      BY <1>1, <2>1, <3>1 DEF DeleteTail
    <3>3. CASE \A j \in 1 .. Len(log) : j >= i /\ log[j].kind \in DataKinds => log[j].txn = log[i].txn
      BY <1>2, <1>3, <3>1, <3>3
    <3>. QED BY <1>4, <1>5, <3>1, <3>2, <3>3
  <2>. QED BY <2>1, <2>2 DEF DeleteTail
<1>9. FilesRight(log)'
  <2>1. FilesRight(log)
    BY <1>1, GrownSelf DEF DiskRight
  <2>2. FilesRight(log')
    BY <1>1, <1>2, <1>3, <2>1, FilesAdd
  <2>. QED BY <2>2 DEF FilesRight
<1>10. ASSUME NEW i \in 1 .. Len(log), Handled(i) PROVE Handled(i)'
  <2>1. ASSUME Gone(log[i].page), RowRec(log, i, log[i].page) PROVE Gone(log[i].page)'
    <3>1. PICK q : q = log[i].page
      OBVIOUS
    <3>2. \A j \in 1 .. Len(log') : RowRec(log', j, q) => ~Done(log', j)
      BY <1>2, <1>3, <1>5, <2>1, <3>1 DEF Gone, RowRec
    <3>3. Gone(q)'
      BY <2>1, <3>1, <3>2 DEF Gone
    <3>4. log'[i].page = q
      BY <1>2, <3>1
    <3>. QED BY <3>3, <3>4
  <2>. QED BY <1>2, <1>10, <2>1, HandledStays
<1>11. ASSUME NEW n \in 1 .. Len(log), NEW p \in Pages, Comp(log', n, p) PROVE Comp(log, n, p)
  <2>1. log[n].kind = "clr" /\ log'[n] = log[n]
    BY <1>2, <1>11 DEF Comp
  <2>2. log[n].of \in 1 .. n - 1
    BY <2>1 DEF TypeInv, LinkInv, LinksBack
  <2>3. log[n].of \in 1 .. Len(log)
    BY <1>2, <2>2
  <2>. QED BY <1>2, <1>11, <2>1, <2>3 DEF Comp, RowRec
<1>12. ASSUME NEW n \in 1 .. Len(log), NEW p \in Pages, Due(n, p)' PROVE Due(n, p)
  <2>1. Comp(log', n, p) \/ (RowRec(log', n, p) /\ Done(log', n))
    BY <1>12 DEF Due
  <2>. QED BY <1>2, <1>5, <1>11, <2>1 DEF Due, RowRec
<1>. QED BY <1>4, <1>6, <1>7, <1>8, <1>9, <1>10, <1>11, <1>12

(* undo() logs a compensation record.                                        *)
LEMMA UndoLogsTable ==
  ASSUME TypeInv, TypeInv', LsnInv, LsnInv', UndoInv, UndoInv', TableInv, UndoLogs
  PROVE  TableInv'
<1>1. /\ phase = "undo" /\ phase' = "undo_apply" /\ current # 0 /\ Undoable(log[current])
      /\ log' = Append(log, make_clr(current)) /\ durable' = Len(log) + 1
      /\ UNCHANGED <<disk, cache, active, current, txn>>
  BY DEF UndoLogs, memory, statement, recovery
<1>2. PICK r : r = make_clr(current)
  OBVIOUS
<1>3. /\ r.kind = "clr" /\ r.of = current /\ r.undo_next = log[current].prev /\ r.txn = log[current].txn
  BY <1>2 DEF make_clr
<1>4. current \in 1 .. Len(log) /\ Len(log) \in Nat /\ log[current] \in Record
  <2>1. current \in 1 .. Len(log)
    BY <1>1, PageFields DEF TypeInv, TypeOK
  <2>. QED BY <2>1, PageFields, ElementOfSeq DEF TypeInv, TypeOK
<1>5. Adds(r)
  <2>1. log' \in Seq(Record) /\ log \in Seq(Record)
    BY DEF TypeInv, TypeOK
  <2>2. r \in Record
    <3>1. log[current].txn \in Txns /\ log[current].prev \in Nat
      BY <1>4, RecordFields
    <3>. QED BY <1>2, <1>4, <3>1 DEF make_clr, Record
  <2>. QED BY <1>1, <1>2, <2>1, <2>2, AppendProperties DEF Adds, Grown
<1>6. /\ Len(log') = Len(log) + 1 /\ log'[Len(log) + 1] = r
      /\ \A i \in 1 .. Len(log) : i \in 1 .. Len(log') /\ log'[i] = log[i]
      /\ \A m \in 1 .. Len(log') : m > Len(log) => m = Len(log) + 1 /\ log'[m] = r
      /\ \A m \in 1 .. Len(log') : m \in 1 .. Len(log) \/ m > Len(log)
      /\ Len(log) + 1 \in 1 .. Len(log')
  BY <1>5, AddsLog
<1>7. /\ History(log') /\ KnownOut' /\ DeleteTail' /\ FilesRight(log)'
      /\ \A x : Ended(log', x, "commit") <=> Ended(log, x, "commit")
      /\ \A x : Ended(log, x, "rollback") => Ended(log', x, "rollback")
      /\ \A x : Ended(log', x, "rollback") => Ended(log, x, "rollback")
      /\ \A i \in 1 .. Len(log) : Handled(i) => Handled(i)'
      /\ \A n \in 1 .. Len(log), p \in Pages : (Due(n, p)' => Due(n, p)) /\ (Comp(log', n, p) => Comp(log, n, p))
  BY <1>1, <1>3, <1>5, UndoAdds DEF Recovery
<1>8. log[current].kind # "clr"
  BY <1>1 DEF Undoable, DataKinds
<1>9. /\ txn # NoTxn /\ log[current].txn = txn
      /\ \A i \in 1 .. Len(log) : log[i].txn = txn /\ i > log[current].prev => i = current \/ Handled(i)
  BY <1>1, <1>8, PassedOver
<1>10. Handled(current)'
  <2>1. \E c \in 1 .. Len(log') : log'[c].kind = "clr" /\ log'[c].of = current
    BY <1>3, <1>6
  <2>2. log'[current] = log[current]
    BY <1>4, <1>6
  <2>. QED BY <1>1, <2>1, <2>2 DEF Handled
<1>11. ASSUME NEW i \in 1 .. Len(log'), log'[i].txn = txn, i > log[current].prev PROVE Handled(i)'
  <2>1. CASE i > Len(log)
    BY <1>3, <1>6, <2>1 DEF Handled, DataKinds
  <2>2. CASE i \in 1 .. Len(log)
    <3>1. i = current \/ Handled(i)
      BY <1>6, <1>9, <1>11, <2>2
    <3>2. CASE i = current
      BY <1>1, <1>10, <3>2
    <3>. QED BY <1>7, <2>2, <3>1, <3>2
  <2>. QED BY <1>6, <2>1, <2>2
<1>12. Pending'
  <2>1. ASSUME NEW c \in 1 .. Len(log'), NEW p \in Pages, Comp(log', c, p)
        PROVE  c <= disk[p].last_lsn \/ c = Len(log')
    <3>1. CASE c \in 1 .. Len(log)
      <4>1. Comp(log, c, p)
        BY <1>7, <2>1, <3>1
      <4>. QED BY <1>1, <3>1, <4>1 DEF TableInv, Pending
    <3>2. CASE c > Len(log)
      <4>1. c = Len(log') /\ log'[c] = r
        BY <1>6, <3>2
      <4>2. RowRec(log, current, p)
        BY <1>3, <1>4, <1>6, <2>1, <4>1 DEF Comp, RowRec
      <4>. QED BY <1>1, <4>1, <4>2 DEF Undoable, RowRec, DataKinds
    <3>. QED BY <1>6, <3>1, <3>2
  <2>2. ASSUME NEW c \in 1 .. Len(log'), NEW p \in Pages, Comp(log', c, p) PROVE p \in DOMAIN disk
    <3>1. CASE c \in 1 .. Len(log)
      <4>1. Comp(log, c, p)
        BY <1>7, <2>2, <3>1
      <4>. QED BY <1>1, <3>1, <4>1 DEF TableInv, Pending
    <3>2. CASE c > Len(log)
      <4>1. c = Len(log') /\ log'[c] = r
        BY <1>6, <3>2
      <4>2. RowRec(log, current, p)
        BY <1>3, <1>4, <1>6, <2>2, <4>1 DEF Comp, RowRec
      <4>. QED BY <1>1, <4>1, <4>2 DEF Undoable, RowRec, DataKinds
    <3>. QED BY <1>6, <3>1, <3>2
  <2>. QED BY <1>1, <2>1, <2>2 DEF Pending
<1>13. Redone'
  <2>1. ASSUME NEW n \in 1 .. Len(log'), NEW p \in Pages, Reached(n)', Due(n, p)'
        PROVE  p \in DOMAIN disk' /\ n <= disk'[p].last_lsn
    <3>1. n < Len(log')
      BY <1>1, <2>1 DEF Reached
    <3>2. n \in 1 .. Len(log)
      BY <1>4, <1>6, <3>1
    <3>3. Due(n, p) /\ Reached(n)
      BY <1>1, <1>7, <2>1, <3>2 DEF Reached
    <3>. QED BY <1>1, <3>2, <3>3 DEF TableInv, Redone
  <2>. QED BY <2>1 DEF Redone
<1>14. Rolled'
  <2>1. ASSUME NEW i \in 1 .. Len(log'), Ended(log', log'[i].txn, "rollback") PROVE Handled(i)'
    <3>1. CASE i > Len(log)
      BY <1>3, <1>6, <3>1 DEF Handled, DataKinds
    <3>2. CASE i \in 1 .. Len(log)
      <4>1. Ended(log, log[i].txn, "rollback")
        BY <1>6, <1>7, <2>1, <3>2
      <4>. QED BY <1>7, <3>2, <4>1 DEF TableInv, Rolled
    <3>. QED BY <1>6, <3>1, <3>2
  <2>2. ASSUME NEW c \in 1 .. Len(log'), NEW i \in 1 .. Len(log'), log'[c].kind = "clr",
               log'[i].txn = log'[c].txn, i > log'[c].undo_next
        PROVE  Handled(i)'
    <3>1. CASE c > Len(log)
      BY <1>3, <1>6, <1>9, <1>11, <2>2, <3>1
    <3>2. CASE i > Len(log)
      BY <1>3, <1>6, <3>2 DEF Handled, DataKinds
    <3>3. CASE c \in 1 .. Len(log) /\ i \in 1 .. Len(log)
      <4>1. Handled(i)
        BY <1>6, <2>2, <3>3 DEF TableInv, Rolled
      <4>. QED BY <1>7, <3>3, <4>1
    <3>. QED BY <1>6, <3>1, <3>2, <3>3
  <2>. QED BY <2>1, <2>2 DEF Rolled
<1>15. Walked'
  <2>1. ASSUME NEW i \in 1 .. Len(log'), log'[i].txn = txn, i > current PROVE Handled(i)'
    <3>1. log[current].prev < current
      BY <1>4 DEF TypeInv, LinkInv, LinksBack
    <3>2. log[current].prev \in Nat
      BY <1>4, RecordFields
    <3>3. i > log[current].prev
      BY <1>4, <1>6, <2>1, <3>1, <3>2
    <3>. QED BY <1>11, <2>1, <3>3
  <2>2. ASSUME NEW i \in 1 .. Len(log'), log'[i].txn \notin active
        PROVE  Ended(log', log'[i].txn, "commit") \/ Ended(log', log'[i].txn, "rollback")
    <3>1. txn \in active
      BY <1>1, <1>9 DEF UndoInv, WalkInv
    <3>2. i \in 1 .. Len(log) /\ log'[i] = log[i]
      BY <1>3, <1>6, <1>9, <2>2, <3>1
    <3>3. Ended(log, log[i].txn, "commit") \/ Ended(log, log[i].txn, "rollback")
      BY <1>1, <2>2, <3>2 DEF TableInv, Walked
    <3>. QED BY <1>7, <3>2, <3>3
  <2>. QED BY <1>1, <2>1, <2>2 DEF Walked
<1>. QED BY <1>1, <1>7, <1>12, <1>13, <1>14, <1>15, RecoveryTable DEF Recovery

(* undo() is through with a transaction.                                     *)
LEMMA UndoEndTable ==
  ASSUME TypeInv, TypeInv', LsnInv, LsnInv', UndoInv, UndoInv', TableInv, UndoEnd
  PROVE  TableInv'
<1>1. /\ phase = "undo" /\ phase' = "undo" /\ txn # NoTxn /\ current = 0 /\ durable' = Len(log) + 1
      /\ log' = Append(log, [kind |-> "rollback", txn |-> txn, prev |-> 0])
      /\ active' = active \ {txn} /\ txn' = NoTxn
      /\ UNCHANGED <<disk, cache, current>>
  BY DEF UndoEnd, memory
<1>2. PICK r : r = [kind |-> "rollback", txn |-> txn, prev |-> 0]
  OBVIOUS
<1>3. r.kind = "rollback" /\ r.txn = txn /\ r \in Record
  <2>1. txn \in Txns
    BY <1>1 DEF TypeInv, TypeOK
  <2>. QED BY <1>2, <2>1 DEF Record
<1>5. Adds(r)
  <2>1. log' \in Seq(Record) /\ log \in Seq(Record)
    BY DEF TypeInv, TypeOK
  <2>. QED BY <1>1, <1>2, <1>3, <2>1, AppendProperties DEF Adds, Grown
<1>6. /\ Len(log) \in Nat /\ Len(log') = Len(log) + 1 /\ log'[Len(log) + 1] = r
      /\ \A i \in 1 .. Len(log) : i \in 1 .. Len(log') /\ log'[i] = log[i]
      /\ \A m \in 1 .. Len(log') : m > Len(log) => m = Len(log) + 1 /\ log'[m] = r
      /\ \A m \in 1 .. Len(log') : m \in 1 .. Len(log) \/ m > Len(log)
      /\ Len(log) + 1 \in 1 .. Len(log')
  BY <1>5, AddsLog
<1>7. /\ History(log') /\ KnownOut' /\ DeleteTail' /\ FilesRight(log)'
      /\ \A x : Ended(log', x, "commit") <=> Ended(log, x, "commit")
      /\ \A x : Ended(log, x, "rollback") => Ended(log', x, "rollback")
      /\ \A x : Ended(log', x, "rollback") => Ended(log, x, "rollback") \/ txn = x
      /\ \A i \in 1 .. Len(log) : Handled(i) => Handled(i)'
      /\ \A n \in 1 .. Len(log), p \in Pages : (Due(n, p)' => Due(n, p)) /\ (Comp(log', n, p) => Comp(log, n, p))
  BY <1>1, <1>3, <1>5, UndoAdds DEF Recovery
<1>8. \A i \in 1 .. Len(log) : log[i].txn = txn => Handled(i)
  <2>1. \A i \in 1 .. Len(log) : i > 0
    OBVIOUS
  <2>. QED BY <1>1, <2>1 DEF TableInv, Walked
<1>9. Ended(log', txn, "rollback")
  BY <1>3, <1>6 DEF Ended
<1>10. Pending'
  <2>1. ASSUME NEW c \in 1 .. Len(log'), NEW p \in Pages, Comp(log', c, p)
        PROVE  p \in DOMAIN disk /\ c <= disk[p].last_lsn
    <3>1. c \in 1 .. Len(log)
      BY <1>3, <1>6, <2>1 DEF Comp
    <3>2. Comp(log, c, p)
      BY <1>7, <2>1, <3>1
    <3>. QED BY <1>1, <3>1, <3>2 DEF TableInv, Pending
  <2>. QED BY <1>1, <2>1 DEF Pending
<1>11. Redone'
  <2>1. ASSUME NEW n \in 1 .. Len(log'), NEW p \in Pages, Due(n, p)'
        PROVE  p \in DOMAIN disk' /\ n <= disk'[p].last_lsn
    <3>1. n \in 1 .. Len(log)
      BY <1>3, <1>6, <2>1 DEF Due, Comp, RowRec, DataKinds
    <3>2. Due(n, p) /\ Reached(n)
      BY <1>1, <1>7, <2>1, <3>1 DEF Reached
    <3>. QED BY <1>1, <3>1, <3>2 DEF TableInv, Redone
  <2>. QED BY <2>1 DEF Redone
<1>12. Rolled'
  <2>1. ASSUME NEW i \in 1 .. Len(log'), Ended(log', log'[i].txn, "rollback") PROVE Handled(i)'
    <3>1. CASE i > Len(log)
      BY <1>3, <1>6, <3>1 DEF Handled, DataKinds
    <3>2. CASE i \in 1 .. Len(log)
      <4>1. Ended(log, log[i].txn, "rollback") \/ log[i].txn = txn
        BY <1>6, <1>7, <2>1, <3>2
      <4>. QED BY <1>7, <1>8, <3>2, <4>1 DEF TableInv, Rolled
    <3>. QED BY <1>6, <3>1, <3>2
  <2>2. ASSUME NEW c \in 1 .. Len(log'), NEW i \in 1 .. Len(log'), log'[c].kind = "clr",
               log'[i].txn = log'[c].txn, i > log'[c].undo_next
        PROVE  Handled(i)'
    <3>2. CASE i > Len(log)
      BY <1>3, <1>6, <3>2 DEF Handled, DataKinds
    <3>3. CASE i \in 1 .. Len(log)
      <4>1. c \in 1 .. Len(log)
        BY <1>3, <1>6, <2>2
      <4>2. Handled(i)
        BY <1>6, <2>2, <3>3, <4>1 DEF TableInv, Rolled
      <4>. QED BY <1>7, <3>3, <4>2
    <3>. QED BY <1>6, <3>2, <3>3
  <2>. QED BY <2>1, <2>2 DEF Rolled
<1>13. Walked'
  <2>1. ASSUME NEW i \in 1 .. Len(log'), log'[i].txn \notin active'
        PROVE  Ended(log', log'[i].txn, "commit") \/ Ended(log', log'[i].txn, "rollback")
    <3>1. CASE log'[i].txn = txn
      BY <1>9, <3>1
    <3>2. CASE log'[i].txn # txn
      <4>1. i \in 1 .. Len(log) /\ log'[i] = log[i] /\ log[i].txn \notin active
        BY <1>1, <1>3, <1>6, <2>1, <3>2
      <4>2. Ended(log, log[i].txn, "commit") \/ Ended(log, log[i].txn, "rollback")
        BY <1>1, <4>1 DEF TableInv, Walked
      <4>. QED BY <1>7, <4>1, <4>2
    <3>. QED BY <3>1, <3>2
  <2>. QED BY <1>1, <2>1 DEF Walked
<1>. QED BY <1>1, <1>7, <1>10, <1>11, <1>12, <1>13, RecoveryTable DEF Recovery

(* The instance is up again.                                                 *)
LEMMA RecoveredTable ==
  ASSUME TypeInv, TypeInv', LsnInv, LsnInv', UndoInv, UndoInv', TableInv, Recovered
  PROVE  TableInv'
<1>1. /\ phase = "undo" /\ phase' = "idle" /\ active = {} /\ redone' = 0
      /\ pages' \in [1 .. Cardinality(DOMAIN disk) -> DOMAIN disk]
      /\ \A j, k \in DOMAIN pages' : pages'[j] = pages'[k] => j = k
      /\ UNCHANGED <<log, durable, disk, cache, dirty, txn, todo, active, current>>
  BY DEF Recovered, files, statement
<1>2. /\ History(log) /\ Known /\ Ends /\ Pending /\ Redone /\ Rolled /\ Walked /\ DiskRight
  BY DEF TableInv
<1>3. DOMAIN cache = {} /\ dirty = {} /\ txn = NoTxn /\ todo = {}
  BY <1>1 DEF LsnInv, TypeInv, TypeOK, StmtInv, UndoInv, WalkInv
<1>4. History(log') /\ Known'
  BY <1>1, <1>2 DEF Known, KnownIn, KnownOut, Over
<1>5. Tasks' /\ OwnRows' /\ Latest' /\ Ends'
  BY <1>1, <1>2, <1>3 DEF Tasks, OwnRows, Latest, Ends, InStatement, Running
<1>6. Fresh'
  <2>1. ASSUME NEW j \in 1 .. Len(log), NEW p \in Pages, RowRec(log, j, p), Done(log, j)
        PROVE  p \in DOMAIN disk /\ j <= disk[p].last_lsn
    BY <1>1, <1>2, <2>1 DEF Redone, Reached, Due
  <2>. QED BY <1>1, <1>3, <2>1 DEF Fresh, FreshIn
<1>7. Pending' /\ Redone' /\ Walked'
  BY <1>1, <1>2 DEF Pending, Redone, Reached, Walked
<1>8. DeleteTail'
  BY <1>1, <1>2 DEF Walked, DeleteTail, Done
<1>9. Rolled'
  <2>1. \A i \in 1 .. Len(log) : Handled(i) => Handled(i)'
    BY <1>1 DEF Handled, Gone
  <2>. QED BY <1>1, <1>2, <2>1 DEF Rolled
<1>10. Listed'
  <2> DEFINE D == DOMAIN disk
             c == Cardinality(D)
             f == pages'
  <2>1. IsFiniteSet(D) /\ c \in Nat
    <3>1. D \in SUBSET Pages
      BY DEF TypeInv, TypeOK
    <3>2. IsFiniteSet(D)
      BY <3>1, FS_Subset, ConstantsAssumption
    <3>. QED BY <3>2, FS_CardinalityType
  <2>2. IsFiniteSet(1 .. c) /\ Cardinality(1 .. c) = c
    <3>1. c = 1 - 1 \/ c - 1 + 1 = c
      BY <2>1
    <3>. QED BY <2>1, FS_Interval
  <2>3. f \in Injection(1 .. c, D)
    <3>1. f \in [1 .. c -> D] /\ \A a, b \in 1 .. c : f[a] = f[b] => a = b
      BY <1>1
    <3>. HIDE DEF f, c, D
    <3>. QED BY <3>1, Fun_IsInj
  <2>4. f \in Surjection(1 .. c, D)
    <3>. HIDE DEF f, D
    <3>1. Cardinality(1 .. c) = Cardinality(D)
      BY <2>2
    <3>. HIDE DEF c
    <3>. QED BY <2>1, <2>3, <3>1, FS_Injection
  <2>5. \A q \in D : \E k \in 1 .. c : f[k] = q
    <3>. HIDE DEF f, D, c
    <3>. QED BY <2>4 DEF Surjection
  <2>6. Len(pages') = c
    <3>1. DOMAIN pages' = 1 .. c /\ pages' \in Seq(Pages)
      BY <1>1 DEF TypeInv, TypeOK
    <3>2. Len(pages') \in Nat /\ DOMAIN pages' = 1 .. Len(pages')
      BY <3>1, LenProperties
    <3>. HIDE DEF c
    <3>. QED BY <2>1, <3>1, <3>2
  <2>. QED BY <1>1, <1>3, <2>5, <2>6 DEF Listed, Lists
<1>11. CachedRight(log', txn', cache')
  BY <1>1, <1>3 DEF CachedRight
<1>12. DiskRight'
  BY <1>1, <1>2 DEF DiskRight, FilesRight
<1>. QED BY <1>4, <1>5, <1>6, <1>7, <1>8, <1>9, <1>10, <1>11, <1>12 DEF TableInv

-----------------------------------------------------------------------------
(* REDO and UNDO change pages                                              *)

(* redo and undo_record find rows by their ids and do not change these.      *)
LEMMA RecoveredIds ==
  ASSUME NEW r \in Record, r.kind \in DataKinds, NEW rows \in Seq(Row)
  PROVE  /\ \A n \in 1 .. Len(RedoRows(r, rows)) :
              \/ n \in 1 .. Len(rows) /\ RedoRows(r, rows)[n].id = rows[n].id
              \/ r.kind # "delete" /\ RedoRows(r, rows)[n].id = r.after.id
         /\ \A n \in 1 .. Len(UndoRows(r, rows)) :
              n \in 1 .. Len(rows) /\ UndoRows(r, rows)[n].id = rows[n].id
<1>1. r.before \in Row /\ r.after \in Row
  BY RecordFields
<1>2. r.before.val \in Vals
  BY <1>1 DEF Row
<1>3. /\ Len(rows) \in Nat /\ DOMAIN rows = 1 .. Len(rows)
      /\ \A n \in 1 .. Len(rows) : rows[n] \in Row
  BY RowFields
<1>4. ASSUME NEW d, NEW b \in BOOLEAN
      PROVE  /\ Len(FlagFirst(rows, d, b)) = Len(rows) /\ FlagFirst(rows, d, b) \in Seq(Row)
             /\ \A n \in 1 .. Len(rows) : FlagFirst(rows, d, b)[n].id = rows[n].id
  <2>1. Len(FlagFirst(rows, d, b)) = Len(rows) /\ FlagFirst(rows, d, b) \in Seq(Row)
    BY <1>2, RowsType
  <2>2. ASSUME NEW n \in 1 .. Len(rows) PROVE FlagFirst(rows, d, b)[n].id = rows[n].id
    <3>1. [rows[n] EXCEPT !.obsolete = b].id = rows[n].id
      BY <1>3 DEF Row
    <3>. QED BY <1>3, <3>1 DEF FlagFirst
  <2>. QED BY <2>1, <2>2
<1>5. ASSUME NEW d, NEW v \in Vals
      PROVE  /\ Len(RestoreFirst(rows, d, v)) = Len(rows)
             /\ \A n \in 1 .. Len(rows) : RestoreFirst(rows, d, v)[n].id = rows[n].id
  <2>1. Len(RestoreFirst(rows, d, v)) = Len(rows)
    <3>1. TRUE \in BOOLEAN
      OBVIOUS
    <3>. QED BY <3>1, RowsType
  <2>2. ASSUME NEW n \in 1 .. Len(rows) PROVE RestoreFirst(rows, d, v)[n].id = rows[n].id
    <3>1. [rows[n] EXCEPT !.obsolete = FALSE, !.val = v].id = rows[n].id
      BY <1>3 DEF Row
    <3>. QED BY <1>3, <3>1 DEF RestoreFirst
  <2>. QED BY <2>1, <2>2
<1>6. ASSUME NEW s \in Seq(Row), Len(s) = Len(rows), \A n \in 1 .. Len(rows) : s[n].id = rows[n].id
      PROVE  \A n \in 1 .. Len(Append(s, r.after)) :
               \/ n \in 1 .. Len(rows) /\ Append(s, r.after)[n].id = rows[n].id
               \/ Append(s, r.after)[n].id = r.after.id
  BY <1>1, <1>3, <1>6, AppendProperties
<1>7. TRUE \in BOOLEAN /\ FALSE \in BOOLEAN
  OBVIOUS
<1>8. CASE r.kind = "insert"
  BY <1>3, <1>4, <1>6, <1>7, <1>8 DEF RedoRows, UndoRows
<1>9. CASE r.kind = "update"
  <2>1. RedoRows(r, rows) = Append(FlagFirst(rows, r.before.id, TRUE), r.after)
    BY <1>9 DEF RedoRows
  <2>2. UndoRows(r, rows) = RestoreFirst(rows, r.after.id, r.before.val)
    BY <1>9 DEF UndoRows
  <2>3. \A n \in 1 .. Len(RedoRows(r, rows)) :
               \/ n \in 1 .. Len(rows) /\ RedoRows(r, rows)[n].id = rows[n].id
               \/ RedoRows(r, rows)[n].id = r.after.id
    BY <1>4, <1>6, <1>7, <2>1, ZenonT(60)
  <2>4. \A n \in 1 .. Len(UndoRows(r, rows)) :
              n \in 1 .. Len(rows) /\ UndoRows(r, rows)[n].id = rows[n].id
    BY <1>2, <1>5, <2>2
  <2>. QED BY <1>9, <2>3, <2>4
<1>10. CASE r.kind = "delete"
  <2>1. PICK t \in BOOLEAN : RedoRows(r, rows) = FlagFirst(rows, r.before.id, t)
    BY <1>7, <1>10 DEF RedoRows
  <2>2. PICK f \in BOOLEAN : UndoRows(r, rows) = FlagFirst(rows, r.before.id, f)
    BY <1>7, <1>10 DEF UndoRows
  <2>3. /\ Len(RedoRows(r, rows)) = Len(rows)
        /\ \A n \in 1 .. Len(rows) : RedoRows(r, rows)[n].id = rows[n].id
    BY <1>4, <2>1
  <2>4. /\ Len(UndoRows(r, rows)) = Len(rows)
        /\ \A n \in 1 .. Len(rows) : UndoRows(r, rows)[n].id = rows[n].id
    BY <1>4, <2>2
  <2>. QED BY <2>3, <2>4
<1>. QED BY <1>8, <1>9, <1>10 DEF DataKinds

(* Page p has seen all of the first n - 1 records that it should have.       *)
Current(n, p) ==
  \A m \in 1 .. Len(log) : m < n /\ Due(m, p) => p \in DOMAIN disk /\ m <= disk[p].last_lsn

(* The compensation of the log's last record: undoing it, after whatever has *)
(* been done to the page, gives the page that record says.                   *)
LEMMA UndoFile ==
  ASSUME TypeInv, UndoInv, TableInv, phase \notin Normal, Fine(log), NEW n, n = Len(log), NEW p \in DOMAIN disk,
         Comp(log, n, p), Current(n, p), n > 0
  PROVE  FileOK(log, UndoRows(log[log[n].of], disk[p].rows), n, p)
<1> DEFINE L == disk[p].last_lsn
           u == log[n].of
           rows == disk[p].rows
           S == InFile(log, p, L)
           U == Undone(log, L)
<1>1. /\ Len(log) \in Nat /\ log \in Seq(Record) /\ L \in Nat /\ p \in Pages /\ rows \in Seq(Row)
      /\ n \in 1 .. Len(log)
  BY PageFields DEF TypeInv, TypeOK
<1>2. log[n].kind = "clr" /\ RowRec(log, u, p) /\ History(log) /\ DeleteTail
  BY DEF Comp, TableInv
<1>3. \A c \in 1 .. Len(log) : log[c].kind = "clr" =>
        /\ log[c].of \in 1 .. Len(log) /\ log[c].of < c
        /\ ~Ended(log, log[c].txn, "commit") /\ ~Done(log, log[c].of)
  <2>1. LogInv(log) /\ \A i \in 1 .. Len(log) : LinksBack(log, i)
    BY DEF UndoInv, TypeInv, LinkInv
  <2>. QED BY <1>1, <2>1, UndoneNotDone
<1>4. u \in 1 .. Len(log) /\ u < n /\ ~Done(log, u)
  BY <1>1, <1>2, <1>3
<1>5. Content(log, S, U, rows, p)
  <2>1. FilesRight(log)
    BY GrownSelf DEF TableInv, DiskRight
  <2>. QED BY <2>1 DEF FilesRight, FileOK
<1>6. Undoes(log[u], rows, UndoRows(log[u], rows))
  <2>1. Once(rows)
    BY <1>5 DEF Content
  <2>2. log[u] \in Record /\ log[u].kind \in DataKinds
    BY <1>1, <1>2, <1>4, ElementOfSeq DEF RowRec
  <2>. HIDE DEF rows, u
  <2>. QED BY <1>1, <2>1, <2>2, RecoveredShape
<1>7. \A k \in 1 .. Len(log) : log[u].kind = "update" => ~Replaces(log, k, u)
  <2>1. ASSUME NEW k \in 1 .. Len(log), Replaces(log, k, u) PROVE FALSE
    <3>. HIDE DEF u
    <3>. QED BY <1>1, <1>2, <1>4, <2>1, ReplacedRow
  <2>. QED BY <2>1
<1>8. ASSUME NEW i \in 1 .. Len(log), log[u].kind = "delete", Replaces(log, u, i)
      PROVE  /\ i \notin U
             /\ \A k \in 1 .. Len(log) : Replaces(log, k, i) => ~Applied(log, S, rows, k)
  <2>. HIDE DEF u, rows, S, U, L
  <2>1. Done(log, i)
    BY <1>1, <1>2, <1>4, <1>8, ReplacedRow
  <2>2. i \notin U
    BY <1>3, <2>1 DEF U, Undone
  <2>3. ASSUME NEW k \in 1 .. Len(log), Replaces(log, k, i), Applied(log, S, rows, k) PROVE FALSE
    <3>1. u <= k
      BY <1>4, <1>5, <1>8, <2>3 DEF Content, LastWins
    <3>2. CASE k = u
      <4>1. u \in S
        BY <1>8, <2>3, <3>2 DEF Applied
      <4>. QED BY <1>4, <4>1 DEF S, InFile
    <3>3. CASE u < k
      <4>1. log[u].txn # log[k].txn
        BY <1>1, <1>2, <1>4, <1>8, <2>3, <3>3, ReplacedByOthers
      <4>2. ~Ended(log, log[u].txn, "rollback")
        <5>1. ASSUME NEW c \in 1 .. Len(log), log[c].kind = "rollback", log[c].txn = log[u].txn PROVE FALSE
          <6>1. c # n
            BY <1>2, <5>1
          <6>2. c < n
            BY <1>1, <6>1
          <6>3. log[n].txn = log[u].txn
            BY <1>1, <1>2 DEF UndoInv, LogInv, Compensates, u
          <6>. QED BY <1>1, <5>1, <6>2, <6>3 DEF UndoInv, LogInv, Follows
        <5>. QED BY <5>1 DEF Ended
      <4>3. phase \notin InStatement
        BY DEF Normal
      <4>4. \A j \in 1 .. Len(log) : j >= u /\ log[j].kind \in DataKinds => log[j].txn = log[u].txn
        BY <1>2, <1>4, <1>8, <4>2, <4>3 DEF DeleteTail
      <4>5. log[k].kind \in DataKinds /\ k >= u
        BY <1>1, <1>4, <2>3, <3>3 DEF Replaces, DataKinds
      <4>. QED BY <4>1, <4>4, <4>5
    <3>. QED BY <1>1, <1>4, <3>1, <3>2, <3>3
  <2>. QED BY <2>2, <2>3
<1>9. Content(log, S, U \union {u}, UndoRows(log[u], rows), p)
  <2>. HIDE DEF u, rows, S, U, L
  <2>. QED BY <1>1, <1>2, <1>4, <1>5, <1>6, <1>7, <1>8, UndoRecord
<1>10. InFile(log, p, n) = S
  <2>1. ASSUME NEW j \in 1 .. Len(log), RowRec(log, j, p), Done(log, j) PROVE j <= L /\ j <= n
    <3>1. j # n
      BY <1>2, <2>1 DEF RowRec, DataKinds
    <3>2. j < n
      BY <1>1, <3>1
    <3>. QED BY <1>1, <2>1, <3>2 DEF Current, Due
  <2>. QED BY <2>1 DEF InFile
<1>11. ASSUME NEW i \in 1 .. Len(log), MadeOn(log, i, p)
       PROVE  i \in U \union {u} <=> i \in Undone(log, n)
  <2>1. RowRec(log, i, p)
    BY <1>11 DEF MadeOn, Makes, RowRec, DataKinds
  <2>2. ASSUME NEW c \in 1 .. Len(log), log[c].kind = "clr", log[c].of = i
        PROVE  c = n \/ c <= L
    <3>1. Comp(log, c, p)
      BY <2>1, <2>2 DEF Comp
    <3>2. CASE c < n
      BY <3>1, <3>2 DEF Current, Due
    <3>. QED BY <1>1, <3>2
  <2>3. \A c \in 1 .. Len(log) : c <= n
    BY <1>1
  <2>. QED BY <1>1, <1>2, <2>2, <2>3 DEF Undone
<1>12. Content(log, S, Undone(log, n), UndoRows(log[u], rows), p)
  <2>. HIDE DEF u, rows, S, U, L
  <2>. QED BY <1>9, <1>11, ContentSame
<1>13. \A j \in 1 .. Len(log) : ~(j > n)
  BY <1>1
<1>. QED BY <1>10, <1>12, <1>13 DEF FileOK

(* REDO of a committed record: the page has seen what it builds on.          *)
LEMMA RedoFile ==
  ASSUME TypeInv, UndoInv, TableInv, Fine(log), NEW n \in 1 .. Len(log), NEW p \in Pages,
         RowRec(log, n, p), Done(log, n), Current(n, p), OldLsn(p) < n
  PROVE  FileOK(log, RedoRows(log[n], OldRows(p)), n, p)
<1> DEFINE L == OldLsn(p)
           rows == OldRows(p)
           S == InFile(log, p, L)
           U == Undone(log, L)
           rows2 == RedoRows(log[n], rows)
<1>1. /\ Len(log) \in Nat /\ log \in Seq(Record) /\ L \in Nat /\ rows \in Seq(Row) /\ n \in Nat
      /\ History(log)
  BY PageFields, OldPage DEF TypeInv, TypeOK, TableInv
<1>2. \A c \in 1 .. Len(log) : log[c].kind = "clr" => ~Done(log, log[c].of)
  <2>1. LogInv(log) /\ \A i \in 1 .. Len(log) : LinksBack(log, i)
    BY DEF UndoInv, TypeInv, LinkInv
  <2>. QED BY <1>1, <2>1, UndoneNotDone
<1>3. \A m \in 1 .. Len(log) : m < n /\ Due(m, p) => m <= L
  BY OldPage DEF Current
<1>4. FileOK(log, rows, L, p)
  <2>1. CASE p \in DOMAIN disk
    <3>1. FilesRight(log)
      BY GrownSelf DEF TableInv, DiskRight
    <3>. QED BY <2>1, <3>1, OldPage DEF FilesRight
  <2>2. CASE p \notin DOMAIN disk
    <3>1. L = 0 /\ rows = <<>>
      BY <2>2, OldPage
    <3>2. S = {}
      BY <3>1 DEF InFile
    <3>3. Len(rows) = 0
      BY <3>1
    <3>4. Content(log, S, U, rows, p)
      <4>. HIDE DEF S, U, rows
      <4>. QED BY <3>2, <3>3, EmptyContent
    <3>5. \A d : ~Has(rows, d)
      BY <3>3 DEF Has
    <3>. QED BY <3>4, <3>5 DEF FileOK
  <2>. QED BY <2>1, <2>2
<1>5. /\ Content(log, S, U, rows, p)
      /\ \A j \in 1 .. Len(log) : MadeOn(log, j, p) /\ Done(log, j) /\ j > L => ~Has(rows, log[j].after.id)
  BY <1>4 DEF FileOK
<1>6. Applies(log[n], rows, rows2)
  <2>1. Once(rows)
    BY <1>5 DEF Content
  <2>2. log[n] \in Record /\ log[n].kind \in DataKinds
    BY <1>1, ElementOfSeq DEF RowRec
  <2>. HIDE DEF rows
  <2>. QED BY <1>1, <2>1, <2>2, RecoveredShape
<1>7. n \notin U
  BY <1>2 DEF Undone
<1>8. ASSUME Makes(log, n) PROVE ~Has(rows, log[n].after.id)
  BY <1>1, <1>5, <1>8 DEF MadeOn, RowRec
<1>9. ASSUME NEW i \in 1 .. Len(log), Replaces(log, n, i)
      PROVE  /\ Has(rows, log[i].after.id)
             /\ \A k \in 1 .. Len(log) : Replaces(log, k, i) => k <= n /\ ~Applied(log, S, rows, k)
  <2>. HIDE DEF rows, S, U, L
  <2>1. i < n /\ log[i].page = p /\ Done(log, i)
    BY <1>1, <1>9, ReplacedRow DEF RowRec
  <2>2. Makes(log, i) /\ RowRec(log, i, p)
    BY <1>9, <2>1 DEF Replaces, Makes, RowRec, DataKinds
  <2>3. i \in S
    BY <1>3, <2>1, <2>2 DEF S, InFile, Due
  <2>4. Has(rows, log[i].after.id)
    BY <1>5, <2>2, <2>3 DEF Content, Present
  <2>5. ASSUME NEW k \in 1 .. Len(log), Replaces(log, k, i) PROVE k <= n /\ ~Applied(log, S, rows, k)
    <3>1. k <= n
      BY <1>1, <1>9, <2>5, CommittedLast
    <3>2. ASSUME Applied(log, S, rows, k) PROVE FALSE
      <4>1. n <= k
        BY <1>5, <1>9, <2>5, <3>2 DEF Content, LastWins
      <4>2. k = n
        BY <1>1, <3>1, <4>1
      <4>3. n \notin S
        BY <1>1 DEF S, InFile, L
      <4>. QED BY <1>8, <3>2, <4>2, <4>3 DEF Applied, Makes
    <3>. QED BY <3>1, <3>2
  <2>. QED BY <2>4, <2>5
<1>10. Content(log, S \union {n}, U, rows2, p)
  <2>1. BornLive(log)
    BY <1>1 DEF History, Told, BornLive
  <2>. HIDE DEF rows, S, U, L, rows2
  <2>. QED BY <1>1, <1>5, <1>6, <1>7, <1>8, <1>9, <2>1, ApplyRecord
<1>11. InFile(log, p, n) = S \union {n}
  <2>1. ASSUME NEW j \in 1 .. Len(log), RowRec(log, j, p), Done(log, j)
        PROVE  j <= n <=> j <= L \/ j = n
    <3>1. CASE j < n
      BY <1>1, <1>3, <2>1, <3>1 DEF Due
    <3>. QED BY <1>1, <3>1
  <2>. QED BY <2>1 DEF InFile
<1>12. ASSUME NEW i \in 1 .. Len(log), MadeOn(log, i, p)
       PROVE  i \in U <=> i \in Undone(log, n)
  <2>1. RowRec(log, i, p)
    BY <1>12 DEF MadeOn, Makes, RowRec, DataKinds
  <2>2. ASSUME NEW c \in 1 .. Len(log), log[c].kind = "clr", log[c].of = i
        PROVE  c <= n <=> c <= L
    <3>1. Comp(log, c, p)
      BY <2>1, <2>2 DEF Comp
    <3>2. c # n
      BY <2>2 DEF RowRec, DataKinds
    <3>3. c < n => c <= L
      BY <1>3, <3>1 DEF Due
    <3>. QED BY <1>1, <3>2, <3>3
  <2>. QED BY <2>2 DEF Undone
<1>13. Content(log, S \union {n}, Undone(log, n), rows2, p)
  <2>. HIDE DEF rows2, S, U, L
  <2>. QED BY <1>10, <1>12, ContentSame
<1>14. ASSUME NEW j \in 1 .. Len(log), MadeOn(log, j, p), Done(log, j), j > n
       PROVE  ~Has(rows2, log[j].after.id)
  <2>1. ~Has(rows, log[j].after.id)
    BY <1>1, <1>5, <1>14
  <2>2. log[n].kind # "delete" => log[n].after.id # log[j].after.id
    <3>1. log[n].kind # "delete" => Makes(log, n)
      BY DEF Makes, RowRec, DataKinds
    <3>. QED BY <1>1, <1>14, <3>1 DEF Fine, IdsDistinct, MadeOn
  <2>3. log[n].kind \in DataKinds
    BY DEF RowRec
  <2>. HIDE DEF rows, rows2
  <2>. QED BY <1>1, <1>6, <2>1, <2>2, <2>3, HasNow
<1>. QED BY <1>11, <1>13, <1>14 DEF FileOK

(* A page file is written for record n.                                      *)
LEMMA PageWritten ==
  ASSUME TypeInv, TypeInv', LsnInv, LsnInv', UndoInv, TableInv, phase \in Recovery, phase' \in Recovery,
         UNCHANGED <<log, durable, cache>>, NEW n \in 1 .. Len(log), NEW p \in Pages, Due(n, p),
         NEW rows2, Writes(n, p, rows2), KnownBy(log, Len(log), rows2, p),
         Fine(log) => FileOK(log, rows2, n, p)
  PROVE  /\ History(log') /\ KnownOut' /\ DeleteTail' /\ Rolled' /\ FilesRight(log)'
         /\ \A i \in 1 .. Len(log) : Handled(i) => Handled(i)'
<1>1. /\ History(log) /\ Known /\ DeleteTail /\ Rolled /\ Pending /\ FilesRight(log)
  BY GrownSelf DEF TableInv, DiskRight
<1>2. /\ DOMAIN disk' = DOMAIN disk \union {p} /\ \A q \in DOMAIN disk \ {p} : disk'[q] = disk[q]
      /\ disk'[p].rows = rows2 /\ disk'[p].last_lsn = n
  BY DEF Writes
<1>3. durable = Len(log) /\ DOMAIN cache = {}
  BY DEF LsnInv, Recovery
<1>4. KnownOut'
  BY <1>1, <1>2, <1>3 DEF Known, KnownOut
<1>5. DeleteTail'
  <2>1. phase \notin Normal /\ phase' \notin Normal /\ phase \notin InStatement
    BY DEF Recovery, Normal, InStatement
  <2>. QED BY <1>1, <2>1 DEF DeleteTail
<1>6. ASSUME NEW i \in 1 .. Len(log), Handled(i) PROVE Handled(i)'
  <2>1. ASSUME NEW q, Gone(q) PROVE Gone(q)'
    <3>1. q # p
      BY <1>1, <2>1 DEF Gone, Due, Pending
    <3>. QED BY <1>2, <2>1, <3>1 DEF Gone
  <2>. QED BY <1>6, <2>1 DEF Handled
<1>7. Rolled'
  BY <1>1, <1>6 DEF Rolled
<1>8. FilesRight(log)'
  <2>1. ASSUME Fine(log), NEW q \in DOMAIN disk' PROVE FileOK(log, disk'[q].rows, disk'[q].last_lsn, q)
    <3>1. CASE q = p
      BY <1>2, <2>1, <3>1
    <3>2. CASE q # p
      BY <1>1, <1>2, <2>1, <3>2 DEF FilesRight
    <3>. QED BY <3>1, <3>2
  <2>. QED BY <2>1 DEF FilesRight
<1>. QED BY <1>1, <1>4, <1>5, <1>6, <1>7, <1>8

(* The rows REDO or UNDO leaves come from the log.                           *)
LEMMA RecoveredKnown ==
  ASSUME TypeInv, LsnInv, TableInv, phase \in Recovery, NEW p \in Pages, NEW j \in 1 .. Len(log),
         RowRec(log, j, p)
  PROVE  /\ KnownBy(log, Len(log), RedoRows(log[j], OldRows(p)), p)
         /\ KnownBy(log, Len(log), UndoRows(log[j], OldRows(p)), p)
<1> DEFINE rows == OldRows(p)
<1>1. rows \in Seq(Row) /\ log[j] \in Record /\ log[j].kind \in DataKinds /\ durable = Len(log)
  BY OldPage, ElementOfSeq DEF RowRec, TypeInv, TypeOK, LsnInv, Recovery
<1>2. KnownBy(log, Len(log), rows, p)
  <2>1. CASE p \in DOMAIN disk
    BY <1>1, <2>1, OldPage DEF TableInv, Known, KnownOut
  <2>2. CASE p \notin DOMAIN disk
    <3>1. Len(rows) = 0
      BY <2>2, OldPage
    <3>. QED BY <3>1 DEF KnownBy
  <2>. QED BY <2>1, <2>2
<1>3. /\ \A n \in 1 .. Len(RedoRows(log[j], rows)) :
              \/ n \in 1 .. Len(rows) /\ RedoRows(log[j], rows)[n].id = rows[n].id
              \/ log[j].kind # "delete" /\ RedoRows(log[j], rows)[n].id = log[j].after.id
      /\ \A n \in 1 .. Len(UndoRows(log[j], rows)) :
              n \in 1 .. Len(rows) /\ UndoRows(log[j], rows)[n].id = rows[n].id
  <2>. HIDE DEF rows
  <2>. QED BY <1>1, RecoveredIds
<1>4. log[j].kind # "delete" => MadeOn(log, j, p)
  BY DEF MadeOn, Makes, RowRec, DataKinds
<1>. HIDE DEF rows
<1>5. KnownBy(log, Len(log), RedoRows(log[j], rows), p)
  BY <1>2, <1>3, <1>4 DEF KnownBy
<1>6. KnownBy(log, Len(log), UndoRows(log[j], rows), p)
  BY <1>2, <1>3 DEF KnownBy
<1>. QED BY <1>5, <1>6 DEF rows

(* redo of one record.                                                       *)
LEMMA RedoTable ==
  ASSUME TypeInv, TypeInv', LsnInv, LsnInv', LsnsUp, UndoInv, TableInv, Redo
  PROVE  TableInv'
<1> DEFINE n == redone + 1
<1>1. /\ n \in 1 .. Len(log) /\ phase = "redo" /\ redone' = n
      /\ UNCHANGED <<phase, log, durable, pages, cache, dirty, txn, todo, active, current>>
      /\ \/ \E p \in Pages : Redoes(n, p)
         \/ /\ disk' = disk
            /\ \A p \in Pages : Due(n, p) => p \in DOMAIN disk /\ n <= disk[p].last_lsn
  BY RedoShape
<1>2. /\ Len(log) \in Nat /\ redone \in Nat /\ n \in Nat
      /\ \A m \in 1 .. Len(log) : m <= n => m <= redone \/ m = n
  BY PageFields DEF TypeInv, TypeOK
<1>. HIDE DEF n
<1>3. ASSUME NEW m \in 1 .. Len(log), NEW q \in Pages, Due(m, q), m <= redone
      PROVE  q \in DOMAIN disk /\ m <= disk[q].last_lsn
  BY <1>1, <1>3 DEF TableInv, Redone, Reached
<1>4. Walked'
  BY <1>1 DEF Walked
<1>5. ASSUME NEW q \in DOMAIN disk PROVE q \in DOMAIN disk' /\ disk[q].last_lsn <= disk'[q].last_lsn
                                        /\ disk[q].last_lsn \in Nat /\ disk'[q].last_lsn \in Nat
  BY <1>5 DEF LsnsUp, TypeInv, TypeOK, Page
<1>6. Pending'
  <2>1. ASSUME NEW c \in 1 .. Len(log), NEW q \in Pages, Comp(log, c, q)
        PROVE  /\ q \in DOMAIN disk'
               /\ c <= disk'[q].last_lsn \/ c = Len(log)
    <3>1. /\ q \in DOMAIN disk
          /\ c <= disk[q].last_lsn \/ c = Len(log)
      BY <2>1 DEF TableInv, Pending
    <3>2. q \in DOMAIN disk' /\ (c <= disk[q].last_lsn => c <= disk'[q].last_lsn)
      BY <1>2, <1>5, <3>1
    <3>. QED BY <3>1, <3>2
  <2>. QED BY <1>1, <2>1 DEF Pending
<1>7. CASE disk' = disk /\ \A p \in Pages : Due(n, p) => p \in DOMAIN disk /\ n <= disk[p].last_lsn
  <2>1. Redone'
    <3>1. ASSUME NEW m \in 1 .. Len(log), NEW q \in Pages, m <= n, Due(m, q)
          PROVE  q \in DOMAIN disk /\ m <= disk[q].last_lsn
      BY <1>2, <1>3, <1>7, <3>1
    <3>. QED BY <1>1, <1>7, <3>1 DEF Redone, Reached, Due
  <2>. QED BY <1>1, <1>4, <1>6, <1>7, <2>1, QuietRecovery DEF Recovery
<1>8. ASSUME NEW p \in Pages, Redoes(n, p) PROVE TableInv'
  <2>1. Current(n, p)
    <3>1. \A m \in 1 .. Len(log) : m < n => m <= redone
      BY <1>2 DEF n
    <3>. QED BY <1>3, <3>1 DEF Current
  <2>2. OldLsn(p) < n /\ Due(n, p)
    BY <1>8 DEF Redoes, Due
  <2>3. phase \in Recovery /\ phase' \in Recovery /\ phase \notin Normal
    BY <1>1 DEF Recovery, Normal, InStatement
  <2>4. PICK rows2 : /\ Writes(n, p, rows2) /\ KnownBy(log, Len(log), rows2, p)
                     /\ Fine(log) => FileOK(log, rows2, n, p)
    <3>1. CASE RowRec(log, n, p) /\ Done(log, n) /\ Writes(n, p, RedoRows(log[n], OldRows(p)))
      <4>1. KnownBy(log, Len(log), RedoRows(log[n], OldRows(p)), p)
        BY <1>1, <2>3, <3>1, RecoveredKnown
      <4>2. Fine(log) => FileOK(log, RedoRows(log[n], OldRows(p)), n, p)
        BY <1>1, <2>1, <2>2, <3>1, RedoFile
      <4>. QED BY <3>1, <4>1, <4>2
    <3>2. CASE Comp(log, n, p) /\ Writes(n, p, UndoRows(log[log[n].of], OldRows(p)))
      <4>1. log[n].of \in 1 .. Len(log) /\ RowRec(log, log[n].of, p) /\ n > 0
        <5>1. log[n].of \in 1 .. n - 1
          BY <1>1, <3>2 DEF Comp, TypeInv, LinkInv, LinksBack
        <5>. QED BY <1>1, <1>2, <3>2, <5>1 DEF Comp
      <4>2. KnownBy(log, Len(log), UndoRows(log[log[n].of], OldRows(p)), p)
        BY <2>3, <4>1, RecoveredKnown
      <4>3. /\ p \in DOMAIN disk
            /\ n <= disk[p].last_lsn \/ n = Len(log)
        BY <1>1, <3>2 DEF TableInv, Pending
      <4>4. OldRows(p) = disk[p].rows /\ OldLsn(p) = disk[p].last_lsn /\ disk[p].last_lsn \in Nat
        BY <4>3, OldPage
      <4>5. n = Len(log)
        BY <1>2, <2>2, <4>3, <4>4
      <4>6. Fine(log) => FileOK(log, UndoRows(log[log[n].of], OldRows(p)), n, p)
        BY <2>1, <2>3, <3>2, <4>1, <4>3, <4>4, <4>5, UndoFile
      <4>. QED BY <3>2, <4>2, <4>6
    <3>. QED BY <1>8, <3>1, <3>2 DEF Redoes
  <2>5. /\ History(log') /\ KnownOut' /\ DeleteTail' /\ Rolled' /\ FilesRight(log)'
    BY <1>1, <2>2, <2>3, <2>4, PageWritten
  <2>6. Redone'
    <3>1. ASSUME NEW m \in 1 .. Len(log), NEW q \in Pages, m <= n, Due(m, q)
          PROVE  q \in DOMAIN disk' /\ m <= disk'[q].last_lsn
      <4>1. CASE m <= redone
        <5>1. q \in DOMAIN disk /\ m <= disk[q].last_lsn
          BY <1>3, <3>1, <4>1
        <5>. QED BY <1>2, <1>5, <5>1
      <4>2. CASE m = n
        <5>1. q = p
          BY <2>2, <3>1, <4>2 DEF Due, Comp, RowRec, DataKinds
        <5>2. p \in DOMAIN disk' /\ disk'[p].last_lsn = n
          BY <2>4 DEF Writes
        <5>. QED BY <1>2, <4>2, <5>1, <5>2
      <4>. QED BY <1>2, <3>1, <4>1, <4>2
    <3>2. \A m, q : Due(m, q)' <=> Due(m, q)
      BY <1>1 DEF Due
    <3>. QED BY <1>1, <3>1, <3>2 DEF Redone, Reached
  <2>. QED BY <1>4, <1>6, <2>3, <2>5, <2>6, RecoveryTable
<1>. QED BY <1>1, <1>7, <1>8

(* undo_record after its compensation record was logged.                     *)
LEMMA UndoAppliesTable ==
  ASSUME TypeInv, TypeInv', LsnInv, LsnInv', LsnsUp, UndoInv, TableInv, UndoApplies
  PROVE  TableInv'
<1> DEFINE n == Len(log)
<1>1. /\ current \in 1 .. Len(log) /\ log[Len(log)].kind = "clr" /\ log[Len(log)].of = current
      /\ phase = "undo_apply" /\ phase' = "undo" /\ current' = log[current].prev
      /\ UNCHANGED <<log, durable, pages, cache, dirty, txn, todo, redone, active>>
      /\ \/ \E p \in DOMAIN disk :
              /\ Comp(log, Len(log), p)
              /\ Writes(Len(log), p, UndoRows(log[log[Len(log)].of], OldRows(p)))
         \/ disk' = disk /\ \A p : ~Comp(log, Len(log), p)
  BY UndoAppliesShape
<1>2. Len(log) \in Nat /\ n \in 1 .. Len(log) /\ \A m \in 1 .. Len(log) : m < n \/ m = n
  BY <1>1, PageFields
<1>3. phase \in Recovery /\ phase' \in Recovery /\ phase \notin Normal
  BY <1>1 DEF Recovery, Normal, InStatement
<1>4. ASSUME NEW m \in 1 .. Len(log), NEW q \in Pages, Due(m, q), m < n
      PROVE  q \in DOMAIN disk /\ m <= disk[q].last_lsn
  BY <1>1, <1>4 DEF TableInv, Redone, Reached
<1>5. ASSUME NEW q \in DOMAIN disk PROVE q \in DOMAIN disk' /\ disk[q].last_lsn <= disk'[q].last_lsn
                                        /\ disk[q].last_lsn \in Nat /\ disk'[q].last_lsn \in Nat
  BY <1>5 DEF LsnsUp, TypeInv, TypeOK, Page
<1>6. log[current].kind # "clr"
  BY <1>1, <1>2 DEF TypeInv, LinkInv, LinksBack, DataKinds
<1>7. /\ txn # NoTxn
      /\ \A i \in 1 .. Len(log) : log[i].txn = txn /\ i > log[current].prev => i = current \/ Handled(i)
  BY <1>1, <1>2, <1>6, PassedOver
<1>8. Handled(current)
  BY <1>1, <1>2 DEF Handled
<1>9. ASSUME \A i \in 1 .. Len(log) : Handled(i) => Handled(i)' PROVE Walked'
  <2>1. \A i \in 1 .. Len(log) : log[i].txn = txn /\ i > current' => Handled(i)'
    BY <1>1, <1>7, <1>8, <1>9
  <2>2. \A i \in 1 .. Len(log) : log[i].txn \notin active =>
          Ended(log, log[i].txn, "commit") \/ Ended(log, log[i].txn, "rollback")
    BY <1>1 DEF TableInv, Walked
  <2>. QED BY <1>1, <2>1, <2>2 DEF Walked
<1>10. ASSUME \A q \in Pages : Due(n, q) => q \in DOMAIN disk' /\ n <= disk'[q].last_lsn
       PROVE  Pending' /\ Redone'
  <2>1. ASSUME NEW m \in 1 .. Len(log), NEW q \in Pages, Due(m, q)
        PROVE  q \in DOMAIN disk' /\ m <= disk'[q].last_lsn
    <3>1. CASE m < n
      <4>1. q \in DOMAIN disk /\ m <= disk[q].last_lsn
        BY <1>4, <2>1, <3>1
      <4>. QED BY <1>2, <1>5, <4>1
    <3>2. CASE m = n
      BY <1>10, <2>1, <3>2
    <3>. QED BY <1>2, <3>1, <3>2
  <2>. QED BY <1>1, <2>1 DEF Pending, Redone, Due
<1>. HIDE DEF n
<1>11. CASE disk' = disk /\ \A p : ~Comp(log, Len(log), p)
  <2>1. \A i \in 1 .. Len(log) : Handled(i) => Handled(i)'
    BY <1>1, <1>11 DEF Handled, Gone
  <2>2. \A q \in Pages : ~Due(n, q)
    BY <1>1, <1>11 DEF Due, RowRec, DataKinds, n
  <2>. QED BY <1>1, <1>3, <1>9, <1>10, <1>11, <2>1, <2>2, QuietRecovery
<1>12. ASSUME NEW p \in DOMAIN disk, Comp(log, n, p),
              Writes(n, p, UndoRows(log[log[n].of], OldRows(p)))
       PROVE  TableInv'
  <2>1. p \in Pages /\ OldRows(p) = disk[p].rows
    <3>1. p \in Pages
      BY PageFields
    <3>. QED BY <3>1, OldPage
  <2>2. Current(n, p)
    BY <1>4, <2>1 DEF Current
  <2>3. Due(n, p)
    BY <1>12 DEF Due
  <2>4. PICK rows2 : rows2 = UndoRows(log[log[n].of], OldRows(p))
    OBVIOUS
  <2>5. KnownBy(log, Len(log), rows2, p)
    <3>1. RowRec(log, current, p) /\ log[n].of = current
      BY <1>1, <1>12 DEF Comp, n
    <3>. QED BY <1>1, <1>3, <2>1, <2>4, <3>1, RecoveredKnown
  <2>7. Fine(log) => FileOK(log, rows2, n, p)
    <3>1. n > 0 /\ n = Len(log)
      BY <1>2 DEF n
    <3>. QED BY <1>3, <1>12, <2>1, <2>2, <2>4, <3>1, UndoFile
  <2>8. /\ History(log') /\ KnownOut' /\ DeleteTail' /\ Rolled' /\ FilesRight(log)'
        /\ \A i \in 1 .. Len(log) : Handled(i) => Handled(i)'
    BY <1>1, <1>2, <1>3, <1>12, <2>1, <2>3, <2>4, <2>5, <2>7, PageWritten
  <2>9. \A q \in Pages : Due(n, q) => q \in DOMAIN disk' /\ n <= disk'[q].last_lsn
    <3>1. \A q \in Pages : Due(n, q) => q = p
      BY <1>12 DEF Due, Comp, RowRec, DataKinds
    <3>2. p \in DOMAIN disk' /\ disk'[p].last_lsn = n
      BY <1>12 DEF Writes
    <3>. QED BY <1>2, <3>1, <3>2
  <2>. QED BY <1>3, <1>9, <1>10, <2>8, <2>9, RecoveryTable
<1>. QED BY <1>1, <1>11, <1>12 DEF n

-----------------------------------------------------------------------------
(* The invariant holds throughout                                          *)

(* The initial state: nothing in the log, no pages.                          *)
LEMMA InitTable == Init => TableInv
<1>. SUFFICES ASSUME Init PROVE TableInv
  OBVIOUS
<1>1. /\ phase = "idle" /\ Len(log) = 0 /\ DOMAIN disk = {} /\ DOMAIN cache = {} /\ todo = {}
      /\ txn = NoTxn
  BY DEF Init
<1>2. \A i \in 1 .. Len(log) : FALSE
  BY <1>1
<1>3. History(log)
  BY <1>2 DEF History
<1>4. Known /\ Tasks /\ OwnRows /\ Latest /\ Ends
  BY <1>1, <1>2 DEF Known, KnownIn, KnownOut, Over, Tasks, OwnRows, Latest, Ends
<1>5. Fresh /\ Pending /\ Redone /\ DeleteTail /\ Listed
  BY <1>1, <1>2 DEF Fresh, FreshIn, Pending, Redone, DeleteTail, Listed
<1>6. Rolled /\ Walked /\ CachedRight(log, txn, cache) /\ DiskRight
  BY <1>1, <1>2 DEF Rolled, Walked, CachedRight, DiskRight, FilesRight
<1>. QED BY <1>3, <1>4, <1>5, <1>6 DEF TableInv

(* A step that changes nothing.                                              *)
LEMMA StutterTable == ASSUME TableInv, UNCHANGED vars PROVE TableInv'
<1>1. UNCHANGED <<phase, log, durable, disk, pages, cache, dirty, txn, todo, redone, active, current>>
  BY DEF vars, files, memory, statement, recovery
<1>2. /\ History(log) /\ Known /\ Tasks /\ OwnRows /\ Latest /\ Ends
      /\ Fresh /\ Pending /\ Redone /\ DeleteTail /\ Listed /\ Rolled /\ Walked
      /\ CachedRight(log, txn, cache) /\ DiskRight
  BY DEF TableInv
<1>3. Known' /\ Tasks'
  BY <1>1, <1>2 DEF Known, KnownIn, KnownOut, Over, Tasks
<1>4. OwnRows' /\ Latest' /\ Ends' /\ Listed'
  BY <1>1, <1>2 DEF OwnRows, OwnRow, Latest, Ends, Listed
<1>5. Fresh' /\ Pending' /\ DeleteTail'
  BY <1>1, <1>2 DEF Fresh, FreshIn, Pending, DeleteTail
<1>6. Redone'
  BY <1>1, <1>2 DEF Redone, Reached, Due
<1>7. \A i \in 1 .. Len(log) : Handled(i)' <=> Handled(i)
  BY <1>1 DEF Handled, Gone
<1>8. Rolled' /\ Walked'
  BY <1>1, <1>2, <1>7 DEF Rolled, Walked
<1>9. DiskRight'
  BY <1>1, <1>2 DEF DiskRight, FilesRight
<1>. QED BY <1>1, <1>2, <1>3, <1>4, <1>5, <1>6, <1>8, <1>9 DEF TableInv

(* Every step keeps it, as long as a full cache only drops clean pages and   *)
(* no flag of update_row has been lost.                                      *)
LEMMA NextTable ==
  ASSUME Evictions # "any", lost_flags' = 0, TypeInv, LsnInv, UndoInv, TableInv, [Next]_vars
  PROVE  TableInv'
<1>0. TypeInv' /\ LsnInv' /\ LsnsUp /\ UndoInv'
  BY NextType, NextLsn, NextUndo
<1>1. ASSUME NEW x \in Txns, BeginInsert(x) \/ \E kind \in {"update", "delete"} : BeginOnRows(x, kind)
      PROVE  TableInv'
  BY <1>0, <1>1, BeginBegins, BeginsTable
<1>2. ASSUME phase \in Normal PROVE Tasks /\ \A q \in DOMAIN cache : Lists(pages, q)
  BY <1>2 DEF TableInv, Listed
<1>3. CASE RowWork
  <2>1. phase \in Normal
    BY <1>3, RowWorkLogs DEF Normal
  <2>2. PICK c, p, r : Works(c, p, r)
    BY <1>0, <1>2, <1>3, <2>1, RowWorks
  <2>. QED BY <1>0, <2>2, WorksTable
<1>4. CASE InsertThrows
  <2>1. phase \in Normal
    BY <1>4 DEF Normal, InStatement, InsertThrows
  <2>2. Throws
    BY <1>2, <1>4, <2>1, InsertThrowsThrows
  <2>. QED BY <1>0, <2>2, ThrowsTable
<1>5. CASE Commit
  BY <1>0, <1>5, CommitTable
<1>6. CASE WaitForDurable
  BY <1>0, <1>6, WaitTable
<1>7. CASE CommitDone \/ \E p \in Pages : Evict(p)
  BY <1>0, <1>7, ReturnTable
<1>8. ASSUME NEW p \in Pages, FlushDirty(p) PROVE TableInv'
  BY <1>0, <1>8, FlushTable
<1>9. CASE Start
  BY <1>0, <1>9, StartTable
<1>10. CASE Redo
  BY <1>0, <1>10, RedoTable
<1>11. CASE EndRedo
  BY <1>0, <1>11, EndRedoTable
<1>12. ASSUME NEW x \in Txns, UndoTxn(x) PROVE TableInv'
  BY <1>0, <1>12, UndoTxnTable
<1>13. CASE UndoSkip
  BY <1>0, <1>13, UndoSkipTable
<1>14. CASE UndoLogs
  BY <1>0, <1>14, UndoLogsTable
<1>15. CASE UndoApplies
  BY <1>0, <1>15, UndoAppliesTable
<1>16. CASE UndoEnd
  BY <1>0, <1>16, UndoEndTable
<1>17. CASE Recovered
  BY <1>0, <1>17, RecoveredTable
<1>18. CASE Crash
  <2>1. PICK k \in durable .. Len(log) : (phase # "waiting" => k = durable) /\ Die(k)
    BY <1>18 DEF Crash
  <2>2. phase # "down"
    BY <1>18 DEF Crash
  <2>. QED BY <1>0, <2>1, <2>2, DieTable
<1>19. CASE Close
  <2>1. durable \in durable .. Len(log)
    BY PageFields
  <2>2. phase # "down" /\ Die(durable)
    BY <1>19 DEF Close
  <2>. QED BY <1>0, <2>1, <2>2, DieTable
<1>20. CASE UNCHANGED vars
  BY <1>20, StutterTable
<1>. QED BY <1>1, <1>3, <1>4, <1>5, <1>6, <1>7, <1>8, <1>9, <1>10, <1>11, <1>12, <1>13, <1>14, <1>15,
            <1>16, <1>17, <1>18, <1>19, <1>20
         DEF Next, Statement, Committing, Recovering, RowWork

(* A flag that update_row lost stays lost.                                   *)
LEMMA LostStays ==
  ASSUME TypeInv, [Next]_vars, lost_flags' = 0 PROVE lost_flags = 0
<1>0. lost_flags \in Nat
  BY DEF TypeInv, TypeOK
<1>1. CASE Statement
  <2>1. ASSUME NEW x \in Txns, BeginInsert(x) PROVE lost_flags' = lost_flags
    BY <2>1 DEF BeginInsert, history
  <2>2. ASSUME NEW v \in Vals, InsertRow(v) PROVE lost_flags' = lost_flags
    BY <2>2 DEF InsertRow, history
  <2>3. CASE InsertThrows
    BY <2>3 DEF InsertThrows
  <2>4. ASSUME NEW x \in Txns, NEW kind \in {"update", "delete"}, BeginOnRows(x, kind)
        PROVE  lost_flags' = lost_flags
    BY <2>4 DEF BeginOnRows, history
  <2>5. ASSUME NEW t \in todo, NEW v \in Vals, UpdateRow(t, v) \/ UpdateThrows(t, v)
        PROVE  lost_flags' \in {lost_flags, lost_flags + 1}
    BY <2>5 DEF UpdateRow, UpdateThrows
  <2>6. ASSUME NEW t \in todo, DeleteRow(t) PROVE lost_flags' = lost_flags
    BY <2>6 DEF DeleteRow, history
  <2>. QED BY <1>0, <1>1, <2>1, <2>2, <2>3, <2>4, <2>5, <2>6 DEF Statement
<1>2. CASE Committing
  BY <1>2 DEF Committing, Commit, WaitForDurable, CommitDone, FlushDirty, history
<1>3. CASE Recovering
  BY <1>3 DEF Recovering, Start, Redo, EndRedo, UndoTxn, UndoSkip, UndoLogs, UndoApplies, UndoEnd,
              Recovered, history
<1>4. CASE (\E p \in Pages : Evict(p)) \/ Crash \/ Close
  BY <1>4 DEF Evict, Crash, Close, Die
<1>5. CASE UNCHANGED vars
  BY <1>5 DEF vars, history
<1>. QED BY <1>1, <1>2, <1>3, <1>4, <1>5 DEF Next

(* The invariants hold throughout, until a flag is lost.                     *)
LEMMA TableInvHolds ==
  ASSUME Evictions # "any"
  PROVE  Spec => [](TypeInv /\ LsnInv /\ UndoInv /\ (lost_flags = 0 => TableInv))
<1>1. TypeInv /\ LsnInv /\ UndoInv /\ (lost_flags = 0 => TableInv) /\ [Next]_vars
        => (TypeInv /\ LsnInv /\ UndoInv /\ (lost_flags = 0 => TableInv))'
  BY NextType, NextLsn, NextUndo, NextTable, LostStays
<1>. QED BY <1>1, InitType, InitLsn, InitUndo, InitTable, PTL DEF Spec

-----------------------------------------------------------------------------
(* Slots and the records of the log that committed                         *)

(* A table between statements, when every transaction of the log has ended:  *)
(* its pages are right, and a record is undone unless it is committed.       *)
Settled(c) ==
  /\ log \in Seq(Record) /\ Fine(log) /\ History(log)
  /\ \A p \in DOMAIN c :
       /\ c[p].rows \in Seq(Row) /\ KnownBy(log, Len(log), c[p].rows, p)
       /\ CachedOK(log, NoTxn, c[p].rows, p)
  /\ \A i \in 1 .. Len(log) :
       /\ log[i].txn # NoTxn
       /\ log[i].kind \in DataKinds /\ Done(log, i) => log[i].page \in DOMAIN c
       /\ log[i].kind \in DataKinds /\ log[i].page \in DOMAIN c =>
            (i \in Undone(log, Len(log)) <=> ~Done(log, i))

(* Slot n of page p has the version that record i added.                     *)
Holds(c, p, n, i) ==
  /\ p \in DOMAIN c /\ n \in 1 .. Len(c[p].rows) /\ i \in 1 .. Len(log)
  /\ MadeOn(log, i, p) /\ log[i].after.id = c[p].rows[n].id

(* The row in slot n of page p is not obsolete.                              *)
Live(c, p, n) == ~c[p].rows[n].obsolete

(* Record m is committed, and no committed statement replaced its version.   *)
Left(m) ==
  /\ m \in 1 .. Len(log) /\ Makes(log, m) /\ Done(log, m)
  /\ \A j \in 1 .. Len(log) : Replaces(log, j, m) => ~Done(log, j)

(* Slot n of page p stands for record m: it has the version m added, or the  *)
(* version of an update of that one which was undone.                        *)
Stands(c, p, n, m) ==
  \/ Holds(c, p, n, m) /\ Done(log, m)
  \/ \E i \in 1 .. Len(log) : Holds(c, p, n, i) /\ ~Done(log, i) /\ Replaces(log, i, m)

(* A page's part of Settled.                                                 *)
LEMMA SettledPage ==
  ASSUME NEW c, Settled(c), NEW p \in DOMAIN c
  PROVE  LET S == InCache(log, NoTxn, p)
             U == Undone(log, Len(log))
             rows == c[p].rows
         IN  /\ Once(rows) /\ Versions(log, S, U, rows, p)
             /\ LastWins(log, S, rows) /\ Present(log, S, rows)
             /\ \A j \in 1 .. Len(log) : RowRec(log, j, p) => (j \in S <=> Done(log, j))
             /\ \A j \in S : j \in 1 .. Len(log) /\ Done(log, j)
             /\ \A j \in 1 .. Len(log) : RowRec(log, j, p) => (j \in U <=> ~Done(log, j))
BY DEF Settled, CachedOK, Content, InCache, RowRec

(* What Versions says of one slot.                                           *)
LEMMA SlotVersion ==
  ASSUME NEW c, Settled(c), NEW p, NEW n, NEW i, Holds(c, p, n, i)
  PROVE  LET S == InCache(log, NoTxn, p)
             r == c[p].rows[n]
         IN  /\ r.obsolete <=> \/ \E j \in 1 .. Len(log) : Replaces(log, j, i) /\ Applied(log, S, c[p].rows, j)
                               \/ log[i].kind = "insert" /\ ~Done(log, i)
             /\ r.val = IF log[i].kind = "update" /\ ~Done(log, i) THEN log[i].before.val
                                                                   ELSE log[i].after.val
<1> DEFINE S == InCache(log, NoTxn, p)
           U == Undone(log, Len(log))
           rows == c[p].rows
<1>1. p \in DOMAIN c /\ i \in 1 .. Len(log) /\ n \in 1 .. Len(rows) /\ MadeOn(log, i, p)
      /\ log[i].after.id = rows[n].id
  BY DEF Holds
<1>2. RowRec(log, i, p)
  BY <1>1 DEF MadeOn, Makes, RowRec, DataKinds
<1>3. Versions(log, S, U, rows, p) /\ (i \in U <=> ~Done(log, i))
  BY <1>1, <1>2, SettledPage
<1>. HIDE DEF S, U, rows
<1>4. /\ rows[n].obsolete <=> \/ \E j \in 1 .. Len(log) : Replaces(log, j, i) /\ Applied(log, S, rows, j)
                              \/ log[i].kind = "insert" /\ i \in U
      /\ rows[n].val = IF log[i].kind = "update" /\ i \in U THEN log[i].before.val
                                                            ELSE log[i].after.val
  BY <1>1, <1>3 DEF Versions
<1>. QED BY <1>3, <1>4 DEF S, rows

(* An update whose version is in the page is applied.                        *)
LEMMA HeldApplied ==
  ASSUME NEW c, Settled(c), NEW p, NEW n, NEW i, Holds(c, p, n, i), NEW m \in 1 .. Len(log),
         Replaces(log, i, m)
  PROVE  /\ i \in 1 .. Len(log) /\ log[i].kind = "update" /\ MadeOn(log, m, p) /\ Done(log, m)
         /\ Applied(log, InCache(log, NoTxn, p), c[p].rows, i)
         /\ log[i].before.val = log[m].after.val
<1>1. i \in 1 .. Len(log) /\ MadeOn(log, i, p) /\ log[i].kind = "update" /\ Makes(log, m)
  BY DEF Holds, MadeOn, Makes, Replaces
<1>2. log[i].page = log[m].page /\ Done(log, m) /\ log[i].before.val = log[m].after.val
  BY <1>1, ReplacedRow DEF Settled
<1>3. Has(c[p].rows, log[i].after.id)
  BY DEF Holds, Has
<1>. QED BY <1>1, <1>2, <1>3 DEF Applied, MadeOn

(* A committed change of a version is applied to its page.                   *)
LEMMA DoneApplied ==
  ASSUME NEW c, Settled(c), NEW p \in DOMAIN c, NEW j \in 1 .. Len(log), RowRec(log, j, p), Done(log, j),
         log[j].kind # "insert"
  PROVE  Applied(log, InCache(log, NoTxn, p), c[p].rows, j)
<1>1. j \in InCache(log, NoTxn, p) /\ Present(log, InCache(log, NoTxn, p), c[p].rows)
  BY SettledPage
<1>2. log[j].kind = "delete" \/ log[j].kind = "update"
  BY DEF RowRec, DataKinds
<1>3. log[j].kind = "update" => Has(c[p].rows, log[j].after.id)
  BY <1>1 DEF Present, Makes
<1>. QED BY <1>1, <1>2, <1>3 DEF Applied

(* A live slot stands for a committed row, and has its value.                *)
LEMMA LiveStands ==
  ASSUME NEW c, Settled(c), NEW p \in DOMAIN c, NEW n \in 1 .. Len(c[p].rows), Live(c, p, n)
  PROVE  \E m \in 1 .. Len(log) : /\ Left(m) /\ Stands(c, p, n, m)
                                  /\ log[m].after.val = c[p].rows[n].val
<1> DEFINE S == InCache(log, NoTxn, p)
           rows == c[p].rows
<1>1. PICK i \in 1 .. Len(log) : Holds(c, p, n, i)
  BY DEF Settled, KnownBy, Holds
<1>2. /\ MadeOn(log, i, p) /\ log[i].page = p /\ Makes(log, i)
      /\ \A j \in 1 .. Len(log) : Replaces(log, j, i) => ~Applied(log, S, rows, j)
      /\ ~(log[i].kind = "insert" /\ ~Done(log, i))
      /\ rows[n].val = IF log[i].kind = "update" /\ ~Done(log, i) THEN log[i].before.val
                                                                ELSE log[i].after.val
  <2>1. ~rows[n].obsolete
    BY DEF Live
  <2>. QED BY <1>1, <2>1, SlotVersion DEF Holds, MadeOn
<1>3. CASE Done(log, i)
  <2>1. ASSUME NEW j \in 1 .. Len(log), Replaces(log, j, i) PROVE ~Done(log, j)
    <3>1. log[j].page = log[i].page
      BY <2>1, ReplacedRow DEF Settled
    <3>2. RowRec(log, j, p) /\ log[j].kind # "insert"
      BY <1>2, <2>1, <3>1 DEF RowRec, Replaces, DataKinds
    <3>. QED BY <1>2, <2>1, <3>2, DoneApplied
  <2>2. Left(i)
    BY <1>2, <1>3, <2>1 DEF Left
  <2>. QED BY <1>1, <1>2, <1>3, <2>2 DEF Stands
<1>4. CASE ~Done(log, i)
  <2>1. log[i].kind = "update" /\ rows[n].val = log[i].before.val
    BY <1>2, <1>4 DEF Makes
  <2>2. PICK m \in 1 .. i - 1 : MadeOn(log, m, log[i].page) /\ log[m].after.id = log[i].before.id
    BY <2>1 DEF Settled, History, Told, Sourced
  <2>3. m \in 1 .. Len(log) /\ Replaces(log, i, m)
    <3>1. Len(log) \in Nat
      BY LenProperties DEF Settled
    <3>. QED BY <2>1, <2>2, <3>1 DEF Replaces, MadeOn
  <2>4. Done(log, m) /\ Makes(log, m) /\ Applied(log, S, rows, i) /\ log[i].before.val = log[m].after.val
    BY <1>1, <2>3, HeldApplied DEF MadeOn
  <2>5. ASSUME NEW j \in 1 .. Len(log), Replaces(log, j, m) PROVE ~Done(log, j)
    <3>1. LastWins(log, S, rows)
      BY SettledPage
    <3>2. j <= i
      BY <2>3, <2>4, <2>5, <3>1 DEF LastWins
    <3>3. Done(log, j) => i <= j
      BY <2>3, <2>5, CommittedLast DEF Settled
    <3>4. Done(log, j) => i = j
      BY <3>2, <3>3
    <3>. QED BY <1>4, <3>4
  <2>6. Left(m)
    BY <2>3, <2>4, <2>5 DEF Left
  <2>. QED BY <1>1, <1>4, <2>1, <2>3, <2>4, <2>6 DEF Stands
<1>. QED BY <1>3, <1>4

(* A slot has one version, and stands for one record.                        *)
LEMMA StandsForOne ==
  ASSUME NEW c, Settled(c), NEW p, NEW n, NEW m1 \in 1 .. Len(log), NEW m2 \in 1 .. Len(log),
         Stands(c, p, n, m1), Stands(c, p, n, m2)
  PROVE  m1 = m2
<1>1. \A i, j \in 1 .. Len(log) : Holds(c, p, n, i) /\ Holds(c, p, n, j) => i = j
  BY DEF Settled, Fine, IdsDistinct, Holds, MadeOn
<1>2. \A i \in 1 .. Len(log) : Replaces(log, i, m1) /\ Replaces(log, i, m2) => m1 = m2
  BY DEF Settled, Fine, IdsDistinct, Replaces
<1>. QED BY <1>1, <1>2 DEF Stands

(* What is where a slot stands for m: m's version, or that of an applied     *)
(* update of it.                                                             *)
LEMMA StandsAt ==
  ASSUME NEW c, Settled(c), NEW p, NEW n, NEW m \in 1 .. Len(log), Stands(c, p, n, m)
  PROVE  /\ p \in DOMAIN c /\ n \in 1 .. Len(c[p].rows) /\ p = log[m].page
         /\ \/ Holds(c, p, n, m)
            \/ \E i \in 1 .. Len(log) :
                 /\ Holds(c, p, n, i) /\ Replaces(log, i, m)
                 /\ Applied(log, InCache(log, NoTxn, p), c[p].rows, i)
<1>1. CASE Holds(c, p, n, m)
  BY <1>1 DEF Holds, MadeOn
<1>2. ASSUME NEW i \in 1 .. Len(log), Holds(c, p, n, i), Replaces(log, i, m)
      PROVE  p = log[m].page /\ Applied(log, InCache(log, NoTxn, p), c[p].rows, i)
  BY <1>2, HeldApplied DEF MadeOn
<1>. QED BY <1>1, <1>2 DEF Stands, Holds

(* Two live slots do not stand for the same record.                          *)
LEMMA OneStands ==
  ASSUME NEW c, Settled(c), NEW m \in 1 .. Len(log), NEW p, NEW n, NEW q, NEW k,
         Stands(c, p, n, m), Stands(c, q, k, m), Live(c, p, n), Live(c, q, k)
  PROVE  p = q /\ n = k
<1> DEFINE S == InCache(log, NoTxn, p)
           rows == c[p].rows
           Takes(s) == \E i \in 1 .. Len(log) :
                         /\ Holds(c, p, s, i) /\ Replaces(log, i, m) /\ Applied(log, S, rows, i)
<1>1. p = q /\ p \in DOMAIN c /\ n \in 1 .. Len(rows) /\ k \in 1 .. Len(rows)
  BY StandsAt
<1>2. (Holds(c, p, n, m) \/ Takes(n)) /\ (Holds(c, p, k, m) \/ Takes(k))
  BY <1>1, StandsAt
<1>3. Once(rows) /\ LastWins(log, S, rows)
  BY <1>1, SettledPage
<1>4. ~rows[n].obsolete /\ ~rows[k].obsolete
  BY <1>1 DEF Live
<1>5. /\ ~(Holds(c, p, n, m) /\ Takes(k))
      /\ ~(Holds(c, p, k, m) /\ Takes(n))
  BY <1>4, SlotVersion
<1>6. CASE Holds(c, p, n, m) /\ Holds(c, p, k, m)
  BY <1>1, <1>3, <1>6 DEF Holds, Once
<1>7. CASE Takes(n) /\ Takes(k)
  <2>1. PICK i \in 1 .. Len(log) : Holds(c, p, n, i) /\ Replaces(log, i, m) /\ Applied(log, S, rows, i)
    BY <1>7
  <2>2. PICK j \in 1 .. Len(log) : Holds(c, p, k, j) /\ Replaces(log, j, m) /\ Applied(log, S, rows, j)
    BY <1>7
  <2>3. i <= j /\ j <= i
    BY <1>3, <2>1, <2>2 DEF LastWins
  <2>4. i = j
    BY <2>3
  <2>. QED BY <1>1, <1>3, <2>1, <2>2, <2>4 DEF Holds, Once
<1>. QED BY <1>2, <1>5, <1>6, <1>7

(* Every committed row has a live slot that stands for it.                   *)
LEMMA LeftStands ==
  ASSUME NEW c, Settled(c), NEW m \in 1 .. Len(log), Left(m)
  PROVE  \E p \in DOMAIN c : \E n \in 1 .. Len(c[p].rows) :
           Live(c, p, n) /\ Stands(c, p, n, m) /\ c[p].rows[n].val = log[m].after.val
<1> DEFINE p == log[m].page
           S == InCache(log, NoTxn, p)
           rows == c[p].rows
<1>1. Makes(log, m) /\ Done(log, m) /\ MadeOn(log, m, p) /\ RowRec(log, m, p)
  BY DEF Left, MadeOn, Makes, RowRec, DataKinds
<1>2. p \in DOMAIN c
  BY <1>1 DEF Settled, RowRec
<1>3. m \in S /\ Present(log, S, rows)
  BY <1>1, <1>2, SettledPage
<1>4. PICK n \in 1 .. Len(rows) : rows[n].id = log[m].after.id
  BY <1>1, <1>3 DEF Present, Has
<1>5. Holds(c, p, n, m)
  BY <1>1, <1>2, <1>4 DEF Holds
<1>6. /\ rows[n].obsolete => \E j \in 1 .. Len(log) : Replaces(log, j, m) /\ Applied(log, S, rows, j)
      /\ rows[n].val = log[m].after.val
  BY <1>1, <1>5, SlotVersion
<1>7. CASE ~rows[n].obsolete
  BY <1>1, <1>2, <1>5, <1>6, <1>7 DEF Live, Stands
<1>8. CASE rows[n].obsolete
  <2>1. PICK j \in 1 .. Len(log) : Replaces(log, j, m) /\ Applied(log, S, rows, j)
    BY <1>6, <1>8
  <2>2. ~Done(log, j)
    BY <2>1 DEF Left
  <2>3. j \notin S
    BY <1>2, <2>2, SettledPage
  <2>4. log[j].kind = "update" /\ Has(rows, log[j].after.id)
    BY <2>1, <2>3 DEF Applied
  <2>5. PICK k \in 1 .. Len(rows) : rows[k].id = log[j].after.id
    BY <2>4 DEF Has
  <2>6. log[j].page = p /\ log[j].before.val = log[m].after.val
    BY <2>1, ReplacedRow DEF Settled
  <2>7. Holds(c, p, k, j)
    BY <1>2, <2>4, <2>5, <2>6 DEF Holds, MadeOn, Makes
  <2>8. \A l \in 1 .. Len(log) : ~Replaces(log, l, j)
    BY <2>2, ReplacedRow DEF Settled
  <2>9. ~rows[k].obsolete /\ rows[k].val = log[j].before.val
    BY <2>2, <2>4, <2>7, <2>8, SlotVersion
  <2>. QED BY <1>2, <2>1, <2>2, <2>6, <2>7, <2>9 DEF Live, Stands
<1>. QED BY <1>7, <1>8

-----------------------------------------------------------------------------
(* The table between statements                                            *)

(* Under TableMatchesLog's conditions the log is fine: a row's transaction   *)
(* committed before the next one began to write.                             *)
LEMMA LogIsFine ==
  ASSUME TypeInv, History(log), RowIdsDistinct, NoDirtyWrite
  PROVE  Fine(log)
<1>0. DOMAIN log = 1 .. Len(log) /\ Len(log) \in Nat
  BY LenProperties DEF TypeInv, TypeOK
<1>1. IdsDistinct(log)
  BY <1>0 DEF RowIdsDistinct, IdsDistinct, Creates, Makes
<1>2. ASSUME NEW i \in 1 .. Len(log), NEW j \in 1 .. Len(log), Replaces(log, j, i)
      PROVE  i < j /\ \E k \in 1 .. j - 1 : log[k].kind = "commit" /\ log[k].txn = log[i].txn
  <2>1. Told(log, j) /\ log[j].kind \in {"update", "delete"} /\ Makes(log, i)
    BY <1>2 DEF History, Replaces
  <2>2. PICK m \in 1 .. j - 1 : MadeOn(log, m, log[j].page) /\ log[m].after.id = log[j].before.id
                                /\ log[m].txn # log[j].txn
    BY <2>1 DEF Told, Sourced
  <2>3. m \in 1 .. Len(log) /\ m < j
    BY <1>0
  <2>4. m = i
    BY <1>1, <1>2, <2>1, <2>2, <2>3 DEF IdsDistinct, Replaces, MadeOn
  <2>5. Supersedes(j, i)
    BY <1>2 DEF Supersedes, Replaces, Creates, Makes
  <2>6. Ended(log, log[i].txn, "commit")
    BY <1>0, <2>5, MarkedIs DEF NoDirtyWrite
  <2>7. PICK k \in 1 .. Len(log) : log[k].kind = "commit" /\ log[k].txn = log[i].txn
    BY <2>6 DEF Ended
  <2>8. ~(j < k)
    <3>. SUFFICES ASSUME j < k PROVE FALSE
      OBVIOUS
    <3>1. i \in 1 .. k - 1 /\ j \in 1 .. k - 1 /\ i < j
      BY <1>0, <2>3, <2>4
    <3>2. Alone(log, k)
      BY DEF History, Told
    <3>3. log[j].txn = log[k].txn
      BY <2>7, <3>1, <3>2 DEF Alone
    <3>. QED BY <2>2, <2>4, <2>7, <3>3
  <2>9. k # j
    BY <2>1, <2>7
  <2>10. k \in 1 .. j - 1
    BY <1>0, <2>8, <2>9
  <2>. QED BY <2>3, <2>4, <2>7, <2>10
<1>. QED BY <1>1, <1>2 DEF Fine, OnCommitted

(* get_table_data gives a settled table.                                     *)
LEMMA TableSettled ==
  ASSUME TypeInv, LsnInv, UndoInv, TableInv, phase = "idle", AllFinished, RowIdsDistinct, NoDirtyWrite,
         NEW c, c = get_table_data
  PROVE  Settled(c)
<1>0. DOMAIN log = 1 .. Len(log) /\ Len(log) \in Nat /\ log \in Seq(Record)
  BY LenProperties DEF TypeInv, TypeOK
<1>1. History(log) /\ Fine(log) /\ txn = NoTxn /\ phase \in Normal
  BY LogIsFine DEF TableInv, Ends, Normal
<1>2. Loads(c, pages, dirty)
  BY TableLoads
<1>3. CachedRight(log, txn, c) /\ KnownIn(log, c)
  BY <1>2, LoadedRight, LoadedKnown DEF TableInv
<1>4. ASSUME NEW p \in DOMAIN c
      PROVE  /\ c[p].rows \in Seq(Row) /\ KnownBy(log, Len(log), c[p].rows, p)
             /\ CachedOK(log, NoTxn, c[p].rows, p)
  <2>1. c[p] \in Page
    BY <1>2 DEF Loads, PageMap
  <2>. QED BY <1>1, <1>3, <2>1 DEF CachedRight, KnownIn, Page
<1>5. \A p : p \in DOMAIN cache \/ p \in DOMAIN disk => p \in DOMAIN c
  <2>1. \A p : p \in DOMAIN disk => Lists(pages, p)
    BY <1>1 DEF TableInv, Listed
  <2>2. DOMAIN pages = 1 .. Len(pages)
    BY LenProperties DEF TypeInv, TypeOK
  <2>. QED BY <2>1, <2>2 DEF get_table_data, Lists
<1>6. ASSUME NEW i \in 1 .. Len(log), log[i].kind \in DataKinds, Done(log, i)
      PROVE  log[i].page \in DOMAIN c
  <2>0. log[i].page \in Pages
    <3>1. log[i] \in Record
      BY <1>0, ElementOfSeq
    <3>. QED BY <1>6, <3>1, RecordFields
  <2>1. log[i].page \notin dirty => log[i].page \in DOMAIN disk
    BY <1>1, <1>6, <2>0 DEF TableInv, Fresh, FreshIn, RowRec
  <2>2. dirty \subseteq DOMAIN cache
    BY DEF TypeInv, TypeOK
  <2>. QED BY <1>5, <2>1, <2>2
<1>7. ASSUME NEW i \in 1 .. Len(log), log[i].kind \in DataKinds, log[i].page \in DOMAIN c, ~Done(log, i)
      PROVE  i \in Undone(log, Len(log))
  <2>1. Ended(log, log[i].txn, "rollback")
    BY <1>0, <1>7, MarkedIs DEF AllFinished, Done
  <2>2. Handled(i)
    BY <2>1 DEF TableInv, Rolled
  <2>3. ~Gone(log[i].page)
    BY <1>2, <1>7 DEF Loads, Gone, NewIn
  <2>4. PICK d \in 1 .. Len(log) : log[d].kind = "clr" /\ log[d].of = i
    BY <1>7, <2>2, <2>3 DEF Handled
  <2>. QED BY <1>0, <2>4 DEF Undone
<1>8. ASSUME NEW i \in Undone(log, Len(log)) PROVE ~Done(log, i)
  <2>1. LogInv(log) /\ \A k \in 1 .. Len(log) : LinksBack(log, k)
    BY DEF UndoInv, TypeInv, LinkInv
  <2>2. PICK d \in 1 .. Len(log) : log[d].kind = "clr" /\ log[d].of = i
    BY DEF Undone
  <2>. QED BY <1>0, <2>1, <2>2, UndoneNotDone
<1>. QED BY <1>0, <1>1, <1>4, <1>6, <1>7, <1>8, NoOwner DEF Settled

-----------------------------------------------------------------------------
(* Counting                                                                *)

(* The slots that LiveWith counts.                                           *)
LEMMA LiveWithIs ==
  ASSUME NEW c, \A p \in DOMAIN c : c[p].rows \in Seq(Row), NEW v, NEW t
  PROVE  t \in LiveWith(c, v) <=>
           \E p \in DOMAIN c : \E n \in 1 .. Len(c[p].rows) :
             t = <<p, n>> /\ Live(c, p, n) /\ c[p].rows[n].val = v
<1>1. \A p \in DOMAIN c : DOMAIN c[p].rows = 1 .. Len(c[p].rows)
  BY LenProperties
<1>2. t \in LiveSlots(c, DOMAIN c) <=>
        \E p \in DOMAIN c : \E n \in 1 .. Len(c[p].rows) : t = <<p, n>> /\ Live(c, p, n)
  BY <1>1 DEF LiveSlots, Live
<1>3. \A p, n : t = <<p, n>> => RowAt(c, t) = c[p].rows[n]
  BY DEF RowAt
<1>. QED BY <1>2, <1>3 DEF LiveWith

(* Between two sets, each element of one standing for one of the other.      *)
LEMMA OneToOne ==
  ASSUME NEW S, NEW T, IsFiniteSet(T), NEW f \in [S -> T],
         \A s, t \in S : f[s] = f[t] => s = t,
         \A y \in T : \E s \in S : f[s] = y
  PROVE  Cardinality(S) = Cardinality(T)
<1>1. f \in Injection(S, T)
  BY Fun_IsInj
<1>2. f \in Surjection(S, T)
  BY DEF Surjection
<1>. QED BY <1>1, <1>2, FS_Injection

(* A settled table has, of every value, as many rows as were left.           *)
LEMMA SettledCounts ==
  ASSUME NEW c, Settled(c), NEW v
  PROVE  Cardinality(LiveWith(c, v)) = Cardinality({m \in 1 .. Len(log) : Left(m) /\ log[m].after.val = v})
<1> DEFINE S == LiveWith(c, v)
           T == {m \in 1 .. Len(log) : Left(m) /\ log[m].after.val = v}
           For(t, m) == Stands(c, t[1], t[2], m)
           f == [t \in S |-> CHOOSE m \in T : For(t, m)]
<1>1. IsFiniteSet(T)
  <2>1. Len(log) \in Nat
    BY LenProperties DEF Settled
  <2>2. IsFiniteSet(1 .. Len(log))
    BY <2>1, FS_Interval
  <2>. QED BY <2>2, FS_Subset
<1>2. \A p \in DOMAIN c : c[p].rows \in Seq(Row)
  BY DEF Settled
<1>3. ASSUME NEW t \in S
      PROVE  /\ t = <<t[1], t[2]>> /\ t[1] \in DOMAIN c /\ t[2] \in 1 .. Len(c[t[1]].rows)
             /\ Live(c, t[1], t[2]) /\ c[t[1]].rows[t[2]].val = v
  <2>0. PICK p \in DOMAIN c : \E n \in 1 .. Len(c[p].rows) :
          t = <<p, n>> /\ Live(c, p, n) /\ c[p].rows[n].val = v
    BY <1>2, LiveWithIs
  <2>1. PICK n \in 1 .. Len(c[p].rows) : t = <<p, n>> /\ Live(c, p, n) /\ c[p].rows[n].val = v
    BY <2>0
  <2>2. t[1] = p /\ t[2] = n
    BY <2>1
  <2>. QED BY <2>1, <2>2
<1>4. ASSUME NEW t \in S PROVE \E m \in T : For(t, m)
  BY <1>3, LiveStands
<1>. HIDE DEF S
<1>5. \A t \in S : f[t] \in T /\ For(t, f[t])
  BY <1>4
<1>6. f \in [S -> T]
  BY <1>5
<1>7. ASSUME NEW s \in S, NEW t \in S, f[s] = f[t] PROVE s = t
  <2>1. f[s] \in T /\ For(s, f[s]) /\ For(t, f[s])
    BY <1>5, <1>7
  <2>. HIDE DEF f
  <2>2. f[s] \in 1 .. Len(log)
    BY <2>1
  <2>3. s[1] = t[1] /\ s[2] = t[2]
    BY <1>3, <2>1, <2>2, OneStands
  <2>. QED BY <1>3, <2>3
<1>8. ASSUME NEW m \in T PROVE \E s \in S : f[s] = m
  <2>0. PICK p \in DOMAIN c : \E n \in 1 .. Len(c[p].rows) :
          Live(c, p, n) /\ Stands(c, p, n, m) /\ c[p].rows[n].val = log[m].after.val
    BY LeftStands
  <2>1. PICK n \in 1 .. Len(c[p].rows) :
          Live(c, p, n) /\ Stands(c, p, n, m) /\ c[p].rows[n].val = log[m].after.val
    BY <2>0
  <2>2. PICK s : s = <<p, n>>
    OBVIOUS
  <2>3. s \in S /\ s[1] = p /\ s[2] = n
    BY <1>2, <2>1, <2>2, LiveWithIs DEF S
  <2>4. f[s] \in T /\ Stands(c, p, n, f[s])
    BY <1>5, <2>3
  <2>. HIDE DEF f
  <2>5. f[s] = m
    BY <2>1, <2>4, StandsForOne
  <2>. QED BY <2>3, <2>5
<1>. HIDE DEF f, T
<1>9. Cardinality(S) = Cardinality(T)
  BY <1>1, <1>6, <1>7, <1>8, OneToOne
<1>. QED BY <1>9 DEF S, T

(* CommittedRows in the terms of the proof.                                  *)
LEMMA CommittedRowsAre ==
  ASSUME TypeInv, NEW v
  PROVE  {i \in CommittedRows : log[i].after.val = v}
           = {m \in 1 .. Len(log) : Left(m) /\ log[m].after.val = v}
<1>0. DOMAIN log = 1 .. Len(log)
  BY LenProperties DEF TypeInv, TypeOK
<1>1. ASSUME NEW i \in 1 .. Len(log) PROVE i \in CommittedRows <=> Left(i)
  <2>1. /\ Creates(i) <=> Makes(log, i)
        /\ \A j \in 1 .. Len(log) : Supersedes(j, i) <=> Replaces(log, j, i)
    BY DEF Creates, Makes, Supersedes, Replaces
  <2>2. \A j \in 1 .. Len(log) : Marked(log[j].txn, "commit") <=> Done(log, j)
    BY MarkedIs DEF Done
  <2>. QED BY <1>0, <2>1, <2>2 DEF CommittedRows, Left
<1>2. CommittedRows \subseteq 1 .. Len(log)
  BY <1>0 DEF CommittedRows
<1>. QED BY <1>1, <1>2

(* The invariants give TableMatchesLog.                                      *)
LEMMA TableCounts ==
  ASSUME TypeInv, LsnInv, UndoInv, lost_flags = 0 => TableInv PROVE TableMatchesLog
<1>. SUFFICES ASSUME phase = "idle", AllFinished, RowIdsDistinct, NoDirtyWrite, lost_flags = 0,
                     NEW v \in Vals
              PROVE  Cardinality(LiveWith(get_table_data, v))
                       = Cardinality({i \in CommittedRows : log[i].after.val = v})
  BY DEF TableMatchesLog, RowsAsCommitted
<1>1. PICK c : c = get_table_data
  OBVIOUS
<1>2. Settled(c)
  BY <1>1, TableSettled
<1>. QED BY <1>1, <1>2, SettledCounts, CommittedRowsAre

(* Exactly the committed statements count: in every state between statements *)
(* whose log has no unfinished transaction, no row id that was used twice    *)
(* and no statement built on a failed one's rows, the pages that             *)
(* get_table_data returns hold, of every value, as many live rows as the     *)
(* committed INSERT, UPDATE and DELETE records left, whatever crashes, also  *)
(* inside redo and undo, restarts, failed statements, evictions of clean     *)
(* pages and interrupted flushes came before (insert_row, update_row,        *)
(* delete_rows, flush_dirty, redo, undo).  The property holds up to the      *)
(* first OBSOLETE flag that update_row writes into memory its own push_back  *)
(* has freed (lost_flags); a row the freed memory hides from the loop, and   *)
(* a process that dies there, are covered.  The condition on the constant    *)
(* leaves out the eviction of a dirty page, which breaks write-ahead         *)
(* logging.                                                                  *)
THEOREM TableMatchesLogHolds ==
  ASSUME Evictions # "any"
  PROVE  Spec => []TableMatchesLog
BY TableInvHolds, TableCounts, PTL

-----------------------------------------------------------------------------
(* The files after recovery                                                *)

(* When undo has no transaction left, the page files are a settled table.    *)
LEMMA FilesSettled ==
  ASSUME TypeInv, LsnInv, UndoInv, TableInv, phase = "undo", active = {}, RowIdsDistinct, NoDirtyWrite
  PROVE  Settled(disk)
<1>0. DOMAIN log = 1 .. Len(log) /\ Len(log) \in Nat /\ log \in Seq(Record)
  BY LenProperties DEF TypeInv, TypeOK
<1>1. History(log) /\ Fine(log)
  BY LogIsFine DEF TableInv
<1>2. \A i \in 1 .. Len(log) : Done(log, i) \/ Ended(log, log[i].txn, "rollback")
  BY DEF TableInv, Walked, Done
<1>3. ASSUME NEW n \in 1 .. Len(log), NEW p \in Pages, Due(n, p)
      PROVE  p \in DOMAIN disk /\ n <= disk[p].last_lsn
  BY <1>3 DEF TableInv, Redone, Reached
<1>4. ASSUME NEW p \in DOMAIN disk
      PROVE  /\ disk[p].rows \in Seq(Row) /\ KnownBy(log, Len(log), disk[p].rows, p)
             /\ CachedOK(log, NoTxn, disk[p].rows, p)
  <2> DEFINE L == disk[p].last_lsn
  <2>0. p \in Pages /\ disk[p].rows \in Seq(Row) /\ L \in Nat
    BY PageFields
  <2>1. FileOK(log, disk[p].rows, L, p)
    BY <1>1, GrownSelf DEF TableInv, DiskRight, FilesRight
  <2>2. InFile(log, p, L) = InCache(log, NoTxn, p)
    <3>1. ASSUME NEW j \in 1 .. Len(log), RowRec(log, j, p), Done(log, j) PROVE j <= L
      BY <1>3, <2>0, <3>1 DEF Due
    <3>. QED BY <3>1, NoOwner DEF InFile, InCache
  <2>3. ASSUME NEW i \in 1 .. Len(log), MadeOn(log, i, p)
        PROVE  i \in Undone(log, L) <=> i \in Undone(log, Len(log))
    <3>1. RowRec(log, i, p)
      BY <2>3 DEF MadeOn, Makes, RowRec, DataKinds
    <3>2. ASSUME NEW d \in 1 .. Len(log), log[d].kind = "clr", log[d].of = i PROVE d <= L
      BY <1>3, <2>0, <3>1, <3>2 DEF Due, Comp
    <3>3. \A d \in 1 .. Len(log) : d <= Len(log)
      BY <1>0
    <3>. QED BY <3>2, <3>3 DEF Undone
  <2>4. Content(log, InFile(log, p, L), Undone(log, L), disk[p].rows, p)
    BY <2>1 DEF FileOK
  <2>5. Content(log, InFile(log, p, L), Undone(log, Len(log)), disk[p].rows, p)
    BY <2>3, <2>4, ContentSame
  <2>6. KnownBy(log, Len(log), disk[p].rows, p)
    <3>1. KnownBy(log, durable, disk[p].rows, p) /\ durable <= Len(log) /\ durable \in Nat
      BY PageFields DEF TableInv, Known, KnownOut
    <3>2. \A i \in 1 .. durable : i \in 1 .. Len(log)
      BY <1>0, <3>1
    <3>. QED BY <3>1, <3>2 DEF KnownBy
  <2>. QED BY <2>0, <2>2, <2>5, <2>6 DEF CachedOK
<1>5. ASSUME NEW i \in 1 .. Len(log), log[i].kind \in DataKinds, Done(log, i)
      PROVE  log[i].page \in DOMAIN disk
  <2>1. log[i].page \in Pages
    <3>1. log[i] \in Record
      BY <1>0, ElementOfSeq
    <3>. QED BY <1>5, <3>1, RecordFields
  <2>. QED BY <1>3, <1>5, <2>1 DEF Due, RowRec
<1>6. ASSUME NEW i \in 1 .. Len(log), log[i].kind \in DataKinds, log[i].page \in DOMAIN disk, ~Done(log, i)
      PROVE  i \in Undone(log, Len(log))
  <2>1. Handled(i)
    BY <1>2, <1>6 DEF TableInv, Rolled
  <2>2. PICK d \in 1 .. Len(log) : log[d].kind = "clr" /\ log[d].of = i
    BY <1>6, <2>1 DEF Handled, Gone
  <2>. QED BY <1>0, <2>2 DEF Undone
<1>7. ASSUME NEW i \in Undone(log, Len(log)) PROVE ~Done(log, i)
  <2>1. LogInv(log) /\ \A k \in 1 .. Len(log) : LinksBack(log, k)
    BY DEF UndoInv, TypeInv, LinkInv
  <2>2. PICK d \in 1 .. Len(log) : log[d].kind = "clr" /\ log[d].of = i
    BY DEF Undone
  <2>. QED BY <1>0, <2>1, <2>2, UndoneNotDone
<1>. QED BY <1>0, <1>1, <1>4, <1>5, <1>6, <1>7, NoOwner DEF Settled

(* Recovery restores the committed statements, in the page files themselves, *)
(* unless row ids were used twice or update_row lost an OBSOLETE flag in     *)
(* memory that its push_back had freed: with dirty pages kept from eviction, *)
(* these are the two ways in which CommittedRecovered can fail, however      *)
(* often recovery was interrupted (redo, undo).                              *)
THEOREM RecoveredUnlessIdsReused ==
  ASSUME Evictions # "any"
  PROVE  Spec => [](RowIdsDistinct /\ lost_flags = 0 => CommittedRecovered)
<1>1. TypeInv /\ LsnInv /\ UndoInv /\ (lost_flags = 0 => TableInv)
        => (RowIdsDistinct /\ lost_flags = 0 => CommittedRecovered)
  <2>. SUFFICES ASSUME TypeInv, LsnInv, UndoInv, TableInv, RowIdsDistinct, lost_flags = 0,
                       phase = "undo", active = {}, NoDirtyWrite, NEW v \in Vals
                PROVE  Cardinality(LiveWith(disk, v))
                         = Cardinality({i \in CommittedRows : log[i].after.val = v})
    BY DEF CommittedRecovered
  <2>1. Settled(disk)
    BY FilesSettled
  <2>. QED BY <2>1, SettledCounts, CommittedRowsAre
<1>. QED BY <1>1, TableInvHolds, PTL
=============================================================================
