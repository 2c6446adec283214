--------------------------- MODULE CatalogProofs ---------------------------
(* Proofs about module Catalog, for any names and bounds: recovery throws  *)
(* in one case only, a cut file that read_table_meta meets too early, and  *)
(* the catalog is what the committed statements made of it.                *)
EXTENDS Catalog, FiniteSetTheorems, SequenceTheorems, TLAPS

-----------------------------------------------------------------------------
(* Types                                                                   *)

Changes == {"create_schema", "create_table", "update_table", "create_index", "drop_index"}
Id == 1 .. MaxIds
Listing == UNION {[S -> Nat] : S \in SUBSET Id}
MetaTable == [id : Id, name : Names, schema_id : Id, indexes : Listing, filled : BOOLEAN]
MetaIndex == [id : Id, table_id : Id]
Image == MetaTable \union MetaIndex \union Id \union {Nothing}
LogRecord == [kind : Changes \union Markers, clr : BOOLEAN, txn : Id, prev : Nat,
              undo_next : Nat, before : Image, after : Image]
Dir == [meta : MetaTable \union {NoTable}, index_files : SUBSET Id]
Files == [ok : BOOLEAN, schema : 0 .. MaxIds, dirs : [Names -> Dir]]

(* What a record holds, by its kind; the object a statement makes has the  *)
(* id of its transaction                                                   *)
Fits(r) ==
  /\ r.kind = "create_schema" => r.after = r.txn
  /\ r.kind = "create_table" =>
       r.after \in MetaTable /\ r.after.id = r.txn /\ r.after.indexes = EmptyBag
  /\ r.kind = "update_table" => r.before \in MetaTable /\ r.after = [r.before EXCEPT !.filled = TRUE]
  /\ r.kind = "create_index" => r.after \in MetaIndex /\ r.after.id = r.txn
  /\ r.kind = "drop_index" => r.before \in MetaIndex
  /\ r.kind \in Markers => ~r.clr
  /\ r.kind \in Changes /\ ~r.clr => r.prev = 0
  /\ r.clr => r.undo_next = 0

TypeInv ==
  /\ phase \in {"down", "redo", "undo", "up"}
  /\ log \in Seq(LogRecord) /\ \A i \in 1 .. Len(log) : Fits(log[i])
  /\ durable \in 0 .. Len(log) /\ ids \in 0 .. MaxIds
  /\ disk \in Files /\ disk.ok
  /\ schema \in 0 .. MaxIds
  /\ DOMAIN tables \subseteq Id /\ \A t \in DOMAIN tables : tables[t] \in MetaTable
  /\ running \in [txn : 0 .. MaxIds, stage : {"none", "ran", "committing"}]
  /\ undoing \in [txn : 0 .. MaxIds, logged : BOOLEAN]
  /\ at \in Nat
  /\ \A i \in 1 .. Len(log) : log[i].txn <= ids

-----------------------------------------------------------------------------
(* The log                                                                 *)

(* the record of a statement, as opposed to CLRs and markers               *)
Makes(lg, i) == lg[i].kind \in Changes /\ ~lg[i].clr
(* its commit record is the next one                                       *)
Done(lg, i) == Makes(lg, i) /\ i + 1 <= Len(lg) /\ lg[i + 1].kind = "commit"
Ended(lg, i) == Done(lg, i) \/ \E k \in 1 .. Len(lg) : lg[k].kind = "rollback" /\ lg[k].txn = lg[i].txn
(* done, or the statement that runs                                        *)
Live(lg, run, i) == Done(lg, i) \/ (Makes(lg, i) /\ lg[i].txn = run)

TableOf(r) ==
  CASE r.kind = "create_table" -> r.after.id
    [] r.kind = "update_table" -> r.before.id
    [] r.kind = "create_index" -> r.after.table_id
    [] r.kind = "drop_index" -> r.before.table_id
    [] OTHER -> 0

(* one record per statement                                                *)
Once(lg) == \A i, j \in 1 .. Len(lg) : Makes(lg, i) /\ Makes(lg, j) /\ lg[i].txn = lg[j].txn => i = j
(* a commit record follows the record of its statement                     *)
CommitNext(lg) ==
  \A i \in 1 .. Len(lg) : lg[i].kind = "commit" =>
    i > 1 /\ Makes(lg, i - 1) /\ lg[i - 1].txn = lg[i].txn
(* a CLR is that of a statement before it that was not committed           *)
ClrOf(lg) ==
  \A i \in 1 .. Len(lg) : lg[i].clr =>
    \E j \in 1 .. i - 1 : Makes(lg, j) /\ ~Done(lg, j) /\ lg[i] = MakeClr(lg[j])
(* no record is undone twice, whatever crashes cut recovery short          *)
ClrOnce(lg) == \A i, j \in 1 .. Len(lg) : lg[i].clr /\ lg[j].clr /\ lg[i].txn = lg[j].txn => i = j

(* nothing is committed before a CREATE SCHEMA                             *)
SchemaFirst(lg) ==
  \A i \in 1 .. Len(lg) : lg[i].kind = "create_schema" => \A k \in 1 .. i - 1 : lg[k].kind # "commit"
MakesSchema(lg, j) == Makes(lg, j) /\ lg[j].kind = "create_schema"
MakesTable(lg, j) == Makes(lg, j) /\ lg[j].kind = "create_table"
MakesIndex(lg, j) == Makes(lg, j) /\ lg[j].kind = "create_index"
Drops(lg, j) == Makes(lg, j) /\ lg[j].kind = "drop_index"
(* the schema that a record needs was committed before it                  *)
HasSchema(lg, i) ==
  \E j \in 1 .. i - 1 :
    /\ MakesSchema(lg, j) /\ Done(lg, j)
    /\ lg[i].kind = "create_table" => lg[i].after.schema_id = lg[j].txn
    /\ lg[i].kind = "update_table" => lg[i].before.schema_id = lg[j].txn
SchemaBefore(lg) == \A i \in 1 .. Len(lg) : lg[i].kind \in Changes \ {"create_schema"} => HasSchema(lg, i)
(* and so was its table                                                    *)
HasTable(lg, i) ==
  \E j \in 1 .. i - 1 :
    /\ MakesTable(lg, j) /\ Done(lg, j) /\ TableOf(lg[i]) = lg[j].txn
    /\ lg[i].kind = "update_table" => lg[i].before.name = lg[j].after.name
TableBefore(lg) ==
  \A i \in 1 .. Len(lg) : lg[i].kind \in {"update_table", "create_index", "drop_index"} => HasTable(lg, i)
(* no committed table before it has the name that CREATE TABLE takes       *)
NamesDiffer(lg) ==
  \A i \in 1 .. Len(lg) : lg[i].kind = "create_table" =>
    \A j \in 1 .. i - 1 :
      MakesTable(lg, j) /\ Done(lg, j) => lg[j].after.name # lg[i].after.name
(* no statement follows a CREATE SCHEMA or CREATE TABLE that has not ended *)
LastOnes(lg) ==
  \A j \in 1 .. Len(lg) :
    Makes(lg, j) /\ lg[j].kind \in {"create_schema", "create_table"} /\ ~Ended(lg, j) =>
      \A k \in j + 1 .. Len(lg) : ~Makes(lg, k)
LogInv(lg) ==
  /\ Once(lg) /\ CommitNext(lg) /\ ClrOf(lg) /\ ClrOnce(lg)
  /\ SchemaFirst(lg) /\ SchemaBefore(lg) /\ TableBefore(lg) /\ NamesDiffer(lg) /\ LastOnes(lg)

-----------------------------------------------------------------------------
(* Where the program is                                                    *)

(* what is not flushed: statements, and at most the commit record that     *)
(* waits                                                                   *)
DurableInv ==
  /\ phase # "up" => durable = Len(log)
  /\ \A i \in 1 .. Len(log) : (log[i].kind \in Markers \/ log[i].clr) =>
       i <= durable \/ (i = Len(log) /\ running.stage = "committing")
(* the statement under way is the last of the log                          *)
RunningInv ==
  /\ running.stage = "none" <=> running = NoStatement
  /\ running.stage = "none" <=> running.txn = 0
  /\ running.stage # "none" => phase = "up"
  /\ running.stage = "ran" => Len(log) > 0 /\ Makes(log, Len(log)) /\ log[Len(log)].txn = running.txn
  /\ running.stage = "committing" =>
       Len(log) > 0 /\ log[Len(log)].kind = "commit" /\ log[Len(log)].txn = running.txn
(* in a session, recovery has ended every such statement but the running   *)
(* one                                                                     *)
SettledInv ==
  phase = "up" =>
    \A j \in 1 .. Len(log) :
      Makes(log, j) /\ log[j].kind \in {"create_schema", "create_table"} =>
        Ended(log, j) \/ log[j].txn = running.txn
(* undo: the record it is at, and what it has logged of it                 *)
WalkInv ==
  /\ phase = "redo" => at \in 1 .. Len(log) + 1
  /\ phase # "undo" => undoing = NotUndoing
  /\ phase = "undo" => active = Unfinished
  /\ undoing # NotUndoing =>
       /\ undoing.txn \in active /\ at \in 0 .. Len(log)
       /\ at # 0 =>
            /\ log[at].txn = undoing.txn /\ log[at].kind \in Changes
            /\ log[at].clr => ~undoing.logged
            /\ ~log[at].clr /\ ~undoing.logged =>
                 \A k \in 1 .. Len(log) : log[k].txn = undoing.txn => ~log[k].clr
       /\ undoing.logged => at # 0 /\ \E k \in at + 1 .. Len(log) : log[k] = MakeClr(log[at])

-----------------------------------------------------------------------------
(* Files and cache                                                         *)

(* the end of the part of the log that recovery has redone                 *)
Upto == IF phase = "redo" THEN at - 1 ELSE Len(log)
(* the table was made by the statement at j                                *)
Stems(mt, lg, j) ==
  /\ MakesTable(lg, j) /\ lg[j].txn = mt.id
  /\ lg[j].after.name = mt.name /\ lg[j].after.schema_id = mt.schema_id

(* metadata files hold committed objects, under their names                *)
StoredInv ==
  /\ disk.schema # 0 => \E j \in 1 .. durable - 1 : MakesSchema(log, j) /\ Done(log, j) /\ log[j].txn = disk.schema
  /\ \A n \in Names : disk.dirs[n].meta # NoTable =>
       /\ disk.dirs[n].meta \in MetaTable /\ disk.dirs[n].meta.name = n
       /\ \E j \in 1 .. durable - 1 : Done(log, j) /\ Stems(disk.dirs[n].meta, log, j)
(* the objects made up to there are in the files                           *)
RedoneInv ==
  phase \in {"redo", "undo"} =>
    \A j \in 1 .. Upto : Done(log, j) =>
      /\ log[j].kind = "create_schema" => disk.schema = log[j].txn
      /\ log[j].kind = "create_table" => disk.dirs[log[j].after.name].meta.id = log[j].txn
(* the cache has the live objects and no other                             *)
CachedInv ==
  /\ phase # "up" => schema = 0 /\ DOMAIN tables = {}
  /\ phase = "up" =>
       /\ \A j \in 1 .. Len(log) : Live(log, running.txn, j) =>
            /\ log[j].kind = "create_schema" => schema = log[j].txn
            /\ log[j].kind = "create_table" => log[j].txn \in DOMAIN tables
       /\ schema # 0 => \E j \in 1 .. Len(log) : Live(log, running.txn, j) /\ MakesSchema(log, j) /\ log[j].txn = schema
       /\ \A t \in DOMAIN tables :
            /\ tables[t].id = t
            /\ \E j \in 1 .. Len(log) : Live(log, running.txn, j) /\ Stems(tables[t], log, j)

(* Indexes: x was created for table t by a live statement at or before p   *)
Created(lg, run, x, t, p) ==
  \E j \in 1 .. p : MakesIndex(lg, j) /\ Live(lg, run, j) /\ lg[j].txn = x /\ lg[j].after.table_id = t
Dropped(lg, run, x, p) ==
  \E j \in 1 .. p : Drops(lg, j) /\ Live(lg, run, j) /\ lg[j].before.id = x
Made(lg, run, t, p) == {x \in Id : Created(lg, run, x, t, p) /\ ~Dropped(lg, run, x, p)}
Spoiled(lg, t) ==
  \E i \in 1 .. Len(lg) :
    lg[i].clr /\ lg[i].kind \in {"update_table", "drop_index"} /\ TableOf(lg[i]) = t
Removed(lg, n) ==
  \E i \in 1 .. Len(lg) :
    /\ lg[i].clr
    /\ lg[i].kind = "create_schema" \/ (lg[i].kind = "create_table" /\ lg[i].after.name = n)

(* no listing has an index that was never made for its table               *)
ListedInv ==
  /\ \A i \in 1 .. Len(log) : Makes(log, i) =>
       /\ log[i].kind = "update_table" =>
            \A x \in DOMAIN log[i].before.indexes : Created(log, running.txn, x, log[i].before.id, i - 1)
       /\ log[i].kind = "drop_index" => Created(log, running.txn, log[i].before.id, log[i].before.table_id, i - 1)
  /\ \A n \in Names : \A x \in DOMAIN disk.dirs[n].meta.indexes :
       Created(log, 0, x, disk.dirs[n].meta.id, durable - 1)
  /\ \A t \in DOMAIN tables : \A x \in DOMAIN tables[t].indexes :
       Created(log, running.txn, x, t, Len(log))
(* listings are exact: in images of UPDATE, in files and in the cache      *)
IndexesInv ==
  /\ \A i \in 1 .. Len(log) :
       Makes(log, i) /\ log[i].kind = "update_table" /\ ~Spoiled(log, log[i].before.id) =>
         log[i].before.indexes = SetToBag(Made(log, running.txn, log[i].before.id, i - 1))
  /\ phase \in {"redo", "undo"} =>
       \A j \in 1 .. Upto : MakesTable(log, j) /\ Done(log, j) /\ ~Spoiled(log, log[j].txn) =>
         disk.dirs[log[j].after.name].meta.indexes = SetToBag(Made(log, 0, log[j].txn, Upto))
  /\ phase = "up" =>
       \A t \in DOMAIN tables : ~Spoiled(log, t) =>
         tables[t].indexes = SetToBag(Made(log, running.txn, t, Len(log)))
(* the file of every index ever made is where its table is                 *)
FilesInv ==
  \A i, j \in 1 .. Len(log) :
    MakesIndex(log, i) /\ MakesTable(log, j) /\ log[i].after.table_id = log[j].txn
      /\ ~Removed(log, log[j].after.name) =>
        log[i].txn \in disk.dirs[log[j].after.name].index_files

(* the inductive invariant                                                 *)
CatalogInv ==
  /\ TypeInv /\ LogInv(log) /\ DurableInv /\ RunningInv /\ SettledInv /\ WalkInv
  /\ StoredInv /\ RedoneInv /\ CachedInv /\ ListedInv /\ IndexesInv /\ FilesInv

-----------------------------------------------------------------------------
(* Logs that grow and logs that are cut                                    *)

Typed(lg) == lg \in Seq(LogRecord) /\ \A i \in 1 .. Len(lg) : Fits(lg[i])
Extended(l2, lg, r) ==
  Len(l2) = Len(lg) + 1 /\ l2[Len(lg) + 1] = r /\ \A i \in 1 .. Len(lg) : l2[i] = lg[i]
Part(l2, lg) == Len(l2) <= Len(lg) /\ \A i \in 1 .. Len(l2) : l2[i] = lg[i]

(* The fields of a record.                                                 *)
LEMMA RecordFields ==
  ASSUME NEW lg, Typed(lg)
  PROVE  /\ Len(lg) \in Nat /\ DOMAIN lg = 1 .. Len(lg)
         /\ \A i \in 1 .. Len(lg) :
              /\ lg[i].kind \in Changes \union Markers /\ lg[i].clr \in BOOLEAN /\ lg[i].txn \in Id
              /\ lg[i] \in LogRecord /\ Fits(lg[i])
              /\ lg[i].clr => lg[i].kind \in Changes
<1>1. lg \in Seq(LogRecord) /\ Len(lg) \in Nat /\ DOMAIN lg = 1 .. Len(lg)
  BY DEF Typed
<1>2. ASSUME NEW i \in 1 .. Len(lg)
      PROVE  /\ lg[i].kind \in Changes \union Markers /\ lg[i].clr \in BOOLEAN /\ lg[i].txn \in Id
             /\ lg[i] \in LogRecord /\ Fits(lg[i])
             /\ lg[i].clr => lg[i].kind \in Changes
  <2>1. lg[i] \in LogRecord /\ Fits(lg[i])
    BY <1>1 DEF Typed
  <2>2. lg[i].kind \in Changes \union Markers /\ lg[i].clr \in BOOLEAN /\ lg[i].txn \in Id
    BY <2>1 DEF LogRecord
  <2>. QED BY <2>1, <2>2 DEF Fits
<1>. QED BY <1>1, <1>2

(* Appending and cutting.                                                  *)
LEMMA AppendExtends ==
  ASSUME NEW lg, Typed(lg), NEW r \in LogRecord, Fits(r)
  PROVE  Typed(Append(lg, r)) /\ Extended(Append(lg, r), lg, r)
<1>1. lg \in Seq(LogRecord) /\ Len(lg) \in Nat
  BY DEF Typed
<1>2. /\ Append(lg, r) \in Seq(LogRecord) /\ Len(Append(lg, r)) = Len(lg) + 1
      /\ Append(lg, r)[Len(lg) + 1] = r
      /\ \A i \in 1 .. Len(lg) : Append(lg, r)[i] = lg[i]
  BY <1>1, AppendProperties
<1>. QED BY <1>1, <1>2 DEF Typed, Extended

(* The records that are left of a log cut at k.                            *)
LEMMA CutIsPart ==
  ASSUME NEW lg, Typed(lg), NEW k \in 0 .. Len(lg)
  PROVE  Typed(SubSeq(lg, 1, k)) /\ Part(SubSeq(lg, 1, k), lg) /\ Len(SubSeq(lg, 1, k)) = k
<1>1. lg \in Seq(LogRecord) /\ Len(lg) \in Nat
  BY DEF Typed
<1>2. /\ SubSeq(lg, 1, k) \in Seq(LogRecord) /\ Len(SubSeq(lg, 1, k)) = k
      /\ \A i \in 1 .. k : SubSeq(lg, 1, k)[i] = lg[i]
  BY <1>1, SubSeqProperties
<1>. QED BY <1>1, <1>2 DEF Typed, Part

(* What the new record changes of the old ones.                            *)
LEMMA GrowFacts ==
  ASSUME NEW lg, NEW l2, NEW r, Typed(lg), Typed(l2), Extended(l2, lg, r)
  PROVE  /\ \A i \in 1 .. Len(lg) : Makes(l2, i) <=> Makes(lg, i)
         /\ \A i \in 1 .. Len(lg) : Done(lg, i) => Done(l2, i) /\ i < Len(lg)
         /\ \A i \in 1 .. Len(lg) : i < Len(lg) \/ r.kind # "commit" => (Done(l2, i) <=> Done(lg, i))
         /\ \A i \in 1 .. Len(lg) : Ended(lg, i) => Ended(l2, i)
         /\ \A i \in 1 .. Len(lg) : lg[i].clr <=> l2[i].clr
         /\ ~Done(l2, Len(l2))
<1>1. Len(lg) \in Nat /\ Len(l2) = Len(lg) + 1
  BY RecordFields DEF Extended
<1>2. \A i \in 1 .. Len(lg) : Makes(l2, i) <=> Makes(lg, i)
  BY DEF Makes, Extended
<1>3. \A i \in 1 .. Len(lg) : Done(lg, i) => Done(l2, i) /\ i < Len(lg)
  BY <1>1, <1>2 DEF Done, Extended
<1>4. \A i \in 1 .. Len(lg) : i < Len(lg) \/ r.kind # "commit" => (Done(l2, i) <=> Done(lg, i))
  BY <1>1, <1>2, <1>3 DEF Done, Extended
<1>5. \A i \in 1 .. Len(lg) : Ended(lg, i) => Ended(l2, i)
  BY <1>1, <1>3 DEF Ended, Extended
<1>6. ~Done(l2, Len(l2))
  BY <1>1 DEF Done
<1>. QED BY <1>2, <1>3, <1>4, <1>5, <1>6 DEF Extended

(* A cut log has the statements of the longer one; only the last may have  *)
(* lost its commit record.                                                 *)
LEMMA CutFacts ==
  ASSUME NEW lg, NEW l2, Typed(lg), Typed(l2), Part(l2, lg)
  PROVE  /\ \A i \in 1 .. Len(l2) : Makes(l2, i) <=> Makes(lg, i)
         /\ \A i \in 1 .. Len(l2) : Done(l2, i) => Done(lg, i)
         /\ \A i \in 1 .. Len(l2) : Done(lg, i) /\ i < Len(l2) => Done(l2, i)
<1>1. Len(lg) \in Nat /\ Len(l2) \in Nat /\ Len(l2) <= Len(lg)
  BY RecordFields DEF Part
<1>2. \A i \in 1 .. Len(l2) : Makes(l2, i) <=> Makes(lg, i)
  BY DEF Makes, Part
<1>. QED BY <1>1, <1>2 DEF Done, Part

(* A transaction that is done is known by its commit record, and only so.  *)
LEMMA DoneCommitted ==
  ASSUME NEW lg, Typed(lg), Once(lg), CommitNext(lg), NEW j \in 1 .. Len(lg), Makes(lg, j)
  PROVE  Done(lg, j) <=> \E k \in 1 .. Len(lg) : lg[k].kind = "commit" /\ lg[k].txn = lg[j].txn
<1>1. Len(lg) \in Nat
  BY RecordFields
<1>2. ASSUME Done(lg, j)
      PROVE  \E k \in 1 .. Len(lg) : lg[k].kind = "commit" /\ lg[k].txn = lg[j].txn
  <2>1. j + 1 \in 1 .. Len(lg) /\ lg[j + 1].kind = "commit"
    BY <1>1, <1>2 DEF Done
  <2>2. lg[(j + 1) - 1].txn = lg[j + 1].txn
    BY <2>1 DEF CommitNext
  <2>. QED BY <2>1, <2>2
<1>3. ASSUME NEW k \in 1 .. Len(lg), lg[k].kind = "commit", lg[k].txn = lg[j].txn
      PROVE  Done(lg, j)
  <2>1. k > 1 /\ Makes(lg, k - 1) /\ lg[k - 1].txn = lg[k].txn
    BY <1>3 DEF CommitNext
  <2>2. k - 1 = j
    BY <1>1, <1>3, <2>1 DEF Once
  <2>3. j + 1 = k
    BY <1>1, <2>2
  <2>. QED BY <1>1, <1>3, <2>3 DEF Done
<1>. QED BY <1>2, <1>3

-----------------------------------------------------------------------------
(* The log keeps its order                                                 *)

(* TableOf of a record's CLR is that of the record.                        *)
LEMMA ClrFields ==
  ASSUME NEW r \in LogRecord, ~r.clr, r.kind \in Changes, Fits(r)
  PROVE  /\ MakeClr(r) \in LogRecord /\ Fits(MakeClr(r)) /\ MakeClr(r).clr
         /\ MakeClr(r).kind = r.kind /\ MakeClr(r).txn = r.txn
         /\ MakeClr(r).before = r.before /\ MakeClr(r).after = r.after
         /\ TableOf(MakeClr(r)) = TableOf(r)
         /\ MakeClr(r).undo_next = 0
<1>0. r.prev = 0
  BY DEF Fits
<1>1. /\ MakeClr(r).clr /\ MakeClr(r).kind = r.kind /\ MakeClr(r).txn = r.txn
      /\ MakeClr(r).before = r.before /\ MakeClr(r).after = r.after
      /\ MakeClr(r).undo_next = 0 /\ MakeClr(r).prev = 0
  BY <1>0 DEF MakeClr, LogRecord
<1>2. MakeClr(r) \in LogRecord
  BY <1>0 DEF MakeClr, LogRecord
<1>3. Fits(MakeClr(r))
  BY <1>1 DEF Fits, Changes, Markers
<1>4. TableOf(MakeClr(r)) = TableOf(r)
  BY <1>1 DEF TableOf
<1>. QED BY <1>1, <1>2, <1>3, <1>4

(* What stands before a record stays before it.                            *)
LEMMA BeforeKept ==
  ASSUME NEW lg, NEW l2, Typed(lg), Typed(l2), NEW i \in 1 .. Len(l2),
         i <= Len(lg), l2[i] = lg[i],
         \A j \in 1 .. i - 1 : l2[j] = lg[j],
         \A j \in 1 .. i - 1 : Done(lg, j) => Done(l2, j)
  PROVE  (HasSchema(lg, i) => HasSchema(l2, i)) /\ (HasTable(lg, i) => HasTable(l2, i))
<1>1. Len(lg) \in Nat /\ Len(l2) \in Nat
  BY RecordFields
<1>2. \A j \in 1 .. i - 1 : Makes(lg, j) => Makes(l2, j)
  BY DEF Makes
<1>3. HasSchema(lg, i) => HasSchema(l2, i)
  BY <1>1, <1>2 DEF HasSchema, MakesSchema
<1>4. HasTable(lg, i) => HasTable(l2, i)
  BY <1>1, <1>2 DEF HasTable, MakesTable
<1>. QED BY <1>3, <1>4

(* An unfinished CREATE TABLE or CREATE SCHEMA has no commit after it.     *)
LEMMA NoCommitAfter ==
  ASSUME NEW lg, Typed(lg), LogInv(lg), NEW j \in 1 .. Len(lg), Makes(lg, j), ~Ended(lg, j),
         lg[j].kind \in {"create_schema", "create_table"}, NEW k \in 1 .. Len(lg), lg[k].kind = "commit"
  PROVE  k < j
<1>1. Len(lg) \in Nat
  BY RecordFields
<1>2. k > 1 /\ Makes(lg, k - 1)
  BY DEF LogInv, CommitNext
<1>3. ~(k - 1 \in j + 1 .. Len(lg))
  BY <1>2 DEF LogInv, LastOnes
<1>4. k - 1 # j
  <2>1. SUFFICES ASSUME k - 1 = j PROVE FALSE
    OBVIOUS
  <2>2. j + 1 = k /\ Done(lg, j)
    BY <1>1, <2>1 DEF Done
  <2>. QED BY <2>2 DEF Ended
<1>5. k # j
  BY DEF Makes, Changes
<1>. QED BY <1>1, <1>2, <1>3, <1>4, <1>5

(* The record of a new statement.                                          *)
LEMMA LogTakesStatement ==
  ASSUME NEW lg, NEW l2, NEW r, Typed(lg), Typed(l2), Extended(l2, lg, r), LogInv(lg),
         r.kind \in Changes, ~r.clr, \A i \in 1 .. Len(lg) : lg[i].txn # r.txn,
         \A j \in 1 .. Len(lg) :
           Makes(lg, j) /\ lg[j].kind \in {"create_schema", "create_table"} => Ended(lg, j),
         r.kind = "create_schema" => \A k \in 1 .. Len(lg) : lg[k].kind # "commit",
         r.kind # "create_schema" => HasSchema(l2, Len(l2)),
         r.kind \in {"update_table", "create_index", "drop_index"} => HasTable(l2, Len(l2)),
         r.kind = "create_table" =>
           \A j \in 1 .. Len(lg) :
             MakesTable(lg, j) /\ Done(lg, j) => lg[j].after.name # r.after.name
  PROVE  LogInv(l2)
<1> DEFINE n == Len(lg)
<1>1. n \in Nat /\ Len(l2) = n + 1 /\ l2[n + 1] = r /\ \A i \in 1 .. n : l2[i] = lg[i]
  BY RecordFields DEF Extended
<1>2. /\ r.kind # "commit" /\ Makes(l2, n + 1) /\ ~Done(l2, n + 1)
      /\ \A i \in 1 .. n : (Makes(l2, i) <=> Makes(lg, i)) /\ (Done(l2, i) <=> Done(lg, i))
  BY <1>1, GrowFacts DEF Makes, Changes
<1>3. \A i \in 1 .. n : Ended(lg, i) => Ended(l2, i)
  BY GrowFacts
<1>. HIDE DEF n
<1>4. Once(l2)
  BY <1>1, <1>2 DEF LogInv, Once, n
<1>5. CommitNext(l2)
  BY <1>1, <1>2 DEF LogInv, CommitNext, n
<1>6. ClrOf(l2)
  BY <1>1, <1>2 DEF LogInv, ClrOf, n
<1>7. ClrOnce(l2)
  BY <1>1 DEF LogInv, ClrOnce, n
<1>8. SchemaFirst(l2)
  BY <1>1 DEF LogInv, SchemaFirst, n
<1>9. \A i \in 1 .. n : (HasSchema(lg, i) => HasSchema(l2, i)) /\ (HasTable(lg, i) => HasTable(l2, i))
  BY <1>1, <1>2, BeforeKept DEF n
<1>10. SchemaBefore(l2)
  BY <1>1, <1>9 DEF LogInv, SchemaBefore, n
<1>11. TableBefore(l2)
  BY <1>1, <1>9 DEF LogInv, TableBefore, n
<1>12. NamesDiffer(l2)
  BY <1>1, <1>2 DEF LogInv, NamesDiffer, MakesTable, n
<1>13. LastOnes(l2)
  BY <1>1, <1>2, <1>3 DEF LastOnes, n
<1>. QED BY <1>4, <1>5, <1>6, <1>7, <1>8, <1>10, <1>11, <1>12, <1>13 DEF LogInv

(* The commit record of the last statement.                                *)
LEMMA LogTakesCommit ==
  ASSUME NEW lg, NEW l2, NEW r, Typed(lg), Typed(l2), Extended(l2, lg, r), LogInv(lg),
         r.kind = "commit", ~r.clr, Len(lg) > 0, Makes(lg, Len(lg)), lg[Len(lg)].txn = r.txn
  PROVE  LogInv(l2)
<1> DEFINE n == Len(lg)
<1>1. n \in Nat /\ Len(l2) = n + 1 /\ l2[n + 1] = r /\ \A i \in 1 .. n : l2[i] = lg[i]
  BY RecordFields DEF Extended
<1>2. /\ ~Makes(l2, n + 1) /\ ~Done(l2, n + 1)
      /\ \A i \in 1 .. n : (Makes(l2, i) <=> Makes(lg, i)) /\ (i < n => (Done(l2, i) <=> Done(lg, i)))
      /\ \A i \in 1 .. n : Done(lg, i) => Done(l2, i)
  BY <1>1, GrowFacts DEF Makes, Changes
<1>3. \A i \in 1 .. n : Ended(lg, i) => Ended(l2, i)
  BY GrowFacts
<1>. HIDE DEF n
<1>4. Once(l2)
  BY <1>1, <1>2 DEF LogInv, Once, n
<1>5. CommitNext(l2)
  <2>1. (n + 1) - 1 = n
    BY <1>1
  <2>. QED BY <1>1, <1>2, <2>1 DEF LogInv, CommitNext, n
<1>6. ClrOf(l2)
  <2>1. ASSUME NEW i \in 1 .. n, lg[i].clr
        PROVE  \E j \in 1 .. i - 1 : Makes(l2, j) /\ ~Done(l2, j) /\ l2[i] = MakeClr(l2[j])
    <3>1. i # n
      BY <2>1 DEF Makes, n
    <3>2. PICK j \in 1 .. i - 1 : Makes(lg, j) /\ ~Done(lg, j) /\ lg[i] = MakeClr(lg[j])
      BY <2>1 DEF LogInv, ClrOf, n
    <3>. QED BY <1>1, <1>2, <3>1, <3>2
  <2>. QED BY <1>1, <2>1 DEF ClrOf
<1>7. ClrOnce(l2)
  BY <1>1 DEF LogInv, ClrOnce, n
<1>8. SchemaFirst(l2)
  BY <1>1 DEF LogInv, SchemaFirst, n
<1>9. \A i \in 1 .. n : (HasSchema(lg, i) => HasSchema(l2, i)) /\ (HasTable(lg, i) => HasTable(l2, i))
  BY <1>1, <1>2, BeforeKept DEF n
<1>10. SchemaBefore(l2)
  BY <1>1, <1>9 DEF LogInv, SchemaBefore, Changes, n
<1>11. TableBefore(l2)
  BY <1>1, <1>9 DEF LogInv, TableBefore, n
<1>12. NamesDiffer(l2)
  BY <1>1, <1>2 DEF LogInv, NamesDiffer, MakesTable, n
<1>13. LastOnes(l2)
  BY <1>1, <1>2, <1>3 DEF LogInv, LastOnes, n
<1>. QED BY <1>4, <1>5, <1>6, <1>7, <1>8, <1>10, <1>11, <1>12, <1>13 DEF LogInv

(* The CLR of a record whose transaction has neither a marker nor a CLR.   *)
LEMMA LogTakesClr ==
  ASSUME NEW lg, NEW l2, NEW r, Typed(lg), Typed(l2), Extended(l2, lg, r), LogInv(lg),
         NEW j \in 1 .. Len(lg), Makes(lg, j), ~Ended(lg, j), r = MakeClr(lg[j]),
         \A i \in 1 .. Len(lg) : lg[i].txn = lg[j].txn => ~lg[i].clr
  PROVE  LogInv(l2)
<1> DEFINE n == Len(lg)
<1>0. /\ r.kind = lg[j].kind /\ r.clr /\ r.txn = lg[j].txn /\ r.before = lg[j].before
      /\ r.after = lg[j].after /\ TableOf(r) = TableOf(lg[j]) /\ r.kind \in Changes
  BY ClrFields, RecordFields DEF Makes
<1>1. n \in Nat /\ Len(l2) = n + 1 /\ l2[n + 1] = r /\ \A i \in 1 .. n : l2[i] = lg[i]
  BY RecordFields DEF Extended
<1>2. /\ r.kind # "commit" /\ ~Makes(l2, n + 1) /\ ~Done(l2, n + 1)
      /\ \A i \in 1 .. n : (Makes(l2, i) <=> Makes(lg, i)) /\ (Done(l2, i) <=> Done(lg, i))
  BY <1>0, <1>1, GrowFacts DEF Makes, Changes
<1>3. \A i \in 1 .. n : Ended(lg, i) => Ended(l2, i)
  BY GrowFacts
<1>. HIDE DEF n
<1>4. Once(l2)
  BY <1>1, <1>2 DEF LogInv, Once, n
<1>5. CommitNext(l2)
  BY <1>1, <1>2 DEF LogInv, CommitNext, n
<1>6. ClrOf(l2)
  <2>1. j \in 1 .. (n + 1) - 1 /\ Makes(l2, j) /\ ~Done(l2, j) /\ l2[n + 1] = MakeClr(l2[j])
    BY <1>1, <1>2 DEF Ended, n
  <2>. QED BY <1>1, <1>2, <2>1 DEF LogInv, ClrOf, n
<1>7. ClrOnce(l2)
  BY <1>0, <1>1 DEF LogInv, ClrOnce, n
<1>8. SchemaFirst(l2)
  <2>1. lg[j].kind = "create_schema" => \A k \in 1 .. n : lg[k].kind # "commit"
    BY NoCommitAfter, <1>1 DEF LogInv, SchemaFirst, n
  <2>2. ASSUME NEW i \in 1 .. n + 1, l2[i].kind = "create_schema", NEW k \in 1 .. i - 1
        PROVE  l2[k].kind # "commit"
    <3>1. k \in 1 .. n /\ l2[k] = lg[k]
      BY <1>1
    <3>2. CASE i = n + 1
      BY <1>0, <1>1, <2>1, <2>2, <3>1, <3>2
    <3>3. CASE i # n + 1
      BY <1>1, <2>2, <3>1, <3>3 DEF LogInv, SchemaFirst, n
    <3>. QED BY <3>2, <3>3
  <2>. QED BY <1>1, <2>2 DEF SchemaFirst
<1>9. \A i \in 1 .. n : (HasSchema(lg, i) => HasSchema(l2, i)) /\ (HasTable(lg, i) => HasTable(l2, i))
  BY <1>1, <1>2, BeforeKept DEF n
<1>10. SchemaBefore(l2)
  <2>1. lg[j].kind # "create_schema" => HasSchema(l2, n + 1)
    <3>1. SUFFICES ASSUME lg[j].kind # "create_schema" PROVE HasSchema(l2, n + 1)
      OBVIOUS
    <3>2. HasSchema(l2, j)
      BY <1>0, <1>9, <3>1 DEF LogInv, SchemaBefore, n
    <3>. QED BY <1>0, <1>1, <3>2 DEF HasSchema, n
  <2>. QED BY <1>0, <1>1, <1>9, <2>1 DEF LogInv, SchemaBefore, n
<1>11. TableBefore(l2)
  <2>1. lg[j].kind \in {"update_table", "create_index", "drop_index"} => HasTable(l2, n + 1)
    <3>1. SUFFICES ASSUME lg[j].kind \in {"update_table", "create_index", "drop_index"}
                   PROVE  HasTable(l2, n + 1)
      OBVIOUS
    <3>2. HasTable(l2, j)
      BY <1>0, <1>9, <3>1 DEF LogInv, TableBefore, n
    <3>. QED BY <1>0, <1>1, <3>2 DEF HasTable, n
  <2>. QED BY <1>0, <1>1, <1>9, <2>1 DEF LogInv, TableBefore, n
<1>12. NamesDiffer(l2)
  <2>1. ASSUME lg[j].kind = "create_table", NEW i \in 1 .. n, MakesTable(lg, i), Done(lg, i)
        PROVE  lg[i].after.name # lg[j].after.name
    <3>1. i # j
      BY <2>1 DEF Ended
    <3>2. ~(i \in j + 1 .. n)
      BY <2>1 DEF LogInv, LastOnes, MakesTable, n
    <3>3. i \in 1 .. j - 1
      BY <1>1, <3>1, <3>2 DEF n
    <3>. QED BY <2>1, <3>3 DEF LogInv, NamesDiffer, n
  <2>2. ASSUME NEW i \in 1 .. n + 1, l2[i].kind = "create_table", NEW k \in 1 .. i - 1,
               MakesTable(l2, k), Done(l2, k)
        PROVE  l2[k].after.name # l2[i].after.name
    <3>1. k \in 1 .. n /\ l2[k] = lg[k] /\ MakesTable(lg, k) /\ Done(lg, k)
      BY <1>1, <1>2, <2>2 DEF MakesTable
    <3>2. CASE i = n + 1
      <4>1. lg[j].kind = "create_table" /\ l2[i].after.name = lg[j].after.name
        BY <1>0, <1>1, <2>2, <3>2
      <4>2. lg[k].after.name # lg[j].after.name
        BY <2>1, <3>1, <4>1
      <4>. QED BY <3>1, <4>1, <4>2
    <3>3. CASE i # n + 1
      <4>1. i \in 1 .. Len(lg) /\ l2[i] = lg[i]
        BY <1>1, <3>3 DEF n
      <4>2. lg[k].after.name # lg[i].after.name
        BY <2>2, <3>1, <4>1 DEF LogInv, NamesDiffer
      <4>. QED BY <3>1, <4>1, <4>2
    <3>. QED BY <3>2, <3>3
  <2>. QED BY <1>1, <2>2 DEF NamesDiffer
<1>13. LastOnes(l2)
  BY <1>1, <1>2, <1>3 DEF LogInv, LastOnes, n
<1>. QED BY <1>4, <1>5, <1>6, <1>7, <1>8, <1>10, <1>11, <1>12, <1>13 DEF LogInv

(* A rollback marker.                                                      *)
LEMMA LogTakesRollback ==
  ASSUME NEW lg, NEW l2, NEW r, Typed(lg), Typed(l2), Extended(l2, lg, r), LogInv(lg),
         r.kind = "rollback", ~r.clr
  PROVE  LogInv(l2)
<1> DEFINE n == Len(lg)
<1>1. n \in Nat /\ Len(l2) = n + 1 /\ l2[n + 1] = r /\ \A i \in 1 .. n : l2[i] = lg[i]
  BY RecordFields DEF Extended
<1>2. /\ ~Makes(l2, n + 1) /\ ~Done(l2, n + 1)
      /\ \A i \in 1 .. n : (Makes(l2, i) <=> Makes(lg, i)) /\ (Done(l2, i) <=> Done(lg, i))
  BY <1>1, GrowFacts DEF Makes, Changes
<1>3. \A i \in 1 .. n : Ended(lg, i) => Ended(l2, i)
  BY GrowFacts
<1>. HIDE DEF n
<1>4. Once(l2)
  BY <1>1, <1>2 DEF LogInv, Once, n
<1>5. CommitNext(l2)
  BY <1>1, <1>2 DEF LogInv, CommitNext, n
<1>6. ClrOf(l2)
  BY <1>1, <1>2 DEF LogInv, ClrOf, n
<1>7. ClrOnce(l2)
  BY <1>1 DEF LogInv, ClrOnce, n
<1>8. SchemaFirst(l2)
  BY <1>1 DEF LogInv, SchemaFirst, n
<1>9. \A i \in 1 .. n : (HasSchema(lg, i) => HasSchema(l2, i)) /\ (HasTable(lg, i) => HasTable(l2, i))
  BY <1>1, <1>2, BeforeKept DEF n
<1>10. SchemaBefore(l2)
  BY <1>1, <1>9 DEF LogInv, SchemaBefore, Changes, n
<1>11. TableBefore(l2)
  BY <1>1, <1>9 DEF LogInv, TableBefore, n
<1>12. NamesDiffer(l2)
  BY <1>1, <1>2 DEF LogInv, NamesDiffer, MakesTable, n
<1>13. LastOnes(l2)
  BY <1>1, <1>2, <1>3 DEF LogInv, LastOnes, n
<1>. QED BY <1>4, <1>5, <1>6, <1>7, <1>8, <1>10, <1>11, <1>12, <1>13 DEF LogInv

(* What a crash leaves of the log: rollback markers are never lost.        *)
LEMMA LogCut ==
  ASSUME NEW lg, NEW l2, Typed(lg), Typed(l2), Part(l2, lg), LogInv(lg),
         \A i \in 1 .. Len(lg) : lg[i].kind = "rollback" => i <= Len(l2)
  PROVE  LogInv(l2)
<1> DEFINE n == Len(l2)
<1>1. n \in Nat /\ Len(lg) \in Nat /\ n <= Len(lg) /\ \A i \in 1 .. n : l2[i] = lg[i]
  BY RecordFields DEF Part
<1>2. /\ \A i \in 1 .. n : (Makes(l2, i) <=> Makes(lg, i)) /\ (Done(l2, i) => Done(lg, i))
      /\ \A i \in 1 .. n : Done(lg, i) /\ i < n => Done(l2, i)
  BY CutFacts
<1>. HIDE DEF n
<1>4. Once(l2)
  BY <1>1, <1>2 DEF LogInv, Once, n
<1>5. CommitNext(l2)
  BY <1>1, <1>2 DEF LogInv, CommitNext, n
<1>6. ClrOf(l2)
  BY <1>1, <1>2 DEF LogInv, ClrOf, n
<1>7. ClrOnce(l2)
  BY <1>1 DEF LogInv, ClrOnce, n
<1>8. SchemaFirst(l2)
  BY <1>1 DEF LogInv, SchemaFirst, n
<1>9. \A i \in 1 .. n : (HasSchema(lg, i) => HasSchema(l2, i)) /\ (HasTable(lg, i) => HasTable(l2, i))
  BY <1>1, <1>2, BeforeKept DEF n
<1>10. SchemaBefore(l2)
  BY <1>1, <1>9 DEF LogInv, SchemaBefore, n
<1>11. TableBefore(l2)
  BY <1>1, <1>9 DEF LogInv, TableBefore, n
<1>12. NamesDiffer(l2)
  BY <1>1, <1>2 DEF LogInv, NamesDiffer, MakesTable, n
<1>13. LastOnes(l2)
  <2>1. ASSUME NEW j \in 1 .. n, Makes(l2, j), lg[j].kind \in {"create_schema", "create_table"},
               ~Ended(l2, j), NEW k \in j + 1 .. n
        PROVE  ~Makes(l2, k)
    <3>1. j < n
      BY <1>1, <2>1
    <3>2. ~Ended(lg, j)
      BY <1>1, <1>2, <2>1, <3>1 DEF Ended, n
    <3>. QED BY <1>1, <1>2, <2>1, <3>2 DEF LogInv, LastOnes
  <2>. QED BY <1>1, <2>1 DEF LastOnes, n
<1>. QED BY <1>4, <1>5, <1>6, <1>7, <1>8, <1>10, <1>11, <1>12, <1>13 DEF LogInv

-----------------------------------------------------------------------------
(* Which indexes there are                                                 *)

DropsCreated(lg, run) ==
  \A i \in 1 .. Len(lg) : Drops(lg, i) => Created(lg, run, lg[i].before.id, lg[i].before.table_id, i - 1)

(* They depend on the part of the log they are asked of.                   *)
LEMMA MadeKept ==
  ASSUME NEW lg, NEW l2, NEW run, NEW run2, NEW t, NEW p \in Int, Typed(lg), p <= Len(lg),
         \A i \in 1 .. p : l2[i] = lg[i],
         \A i \in 1 .. p : Live(l2, run2, i) <=> Live(lg, run, i)
  PROVE  /\ \A x : Created(l2, run2, x, t, p) <=> Created(lg, run, x, t, p)
         /\ \A x : Dropped(l2, run2, x, p) <=> Dropped(lg, run, x, p)
         /\ Made(l2, run2, t, p) = Made(lg, run, t, p)
<1>1. \A x : Created(l2, run2, x, t, p) <=> Created(lg, run, x, t, p)
  BY DEF Created, MakesIndex, Makes
<1>2. \A x : Dropped(l2, run2, x, p) <=> Dropped(lg, run, x, p)
  BY DEF Dropped, Drops, Makes
<1>. QED BY <1>1, <1>2 DEF Made

(* What was created stays created.                                         *)
LEMMA CreatedLater ==
  ASSUME NEW lg, NEW l2, NEW run, NEW run2, NEW x, NEW t, NEW p \in Int, NEW q \in Int, p <= q,
         Created(lg, run, x, t, p),
         \A i \in 1 .. p : l2[i] = lg[i] /\ (Live(lg, run, i) => Live(l2, run2, i))
  PROVE  Created(l2, run2, x, t, q)
BY DEF Created, MakesIndex, Makes

(* the effect of the record after p                                        *)
Step(lg, run, t, p) ==
  /\ ~Live(lg, run, p + 1) \/ ~(MakesIndex(lg, p + 1) \/ Drops(lg, p + 1))
       => Made(lg, run, t, p + 1) = Made(lg, run, t, p)
  /\ MakesIndex(lg, p + 1) /\ lg[p + 1].after.table_id # t
       => Made(lg, run, t, p + 1) = Made(lg, run, t, p)
  /\ Live(lg, run, p + 1) /\ MakesIndex(lg, p + 1) /\ lg[p + 1].after.table_id = t
       => /\ Made(lg, run, t, p + 1) = Made(lg, run, t, p) \union {lg[p + 1].txn}
          /\ lg[p + 1].txn \notin Made(lg, run, t, p)
  /\ Live(lg, run, p + 1) /\ Drops(lg, p + 1)
       => Made(lg, run, t, p + 1) = Made(lg, run, t, p) \ {lg[p + 1].before.id}

(* The next record of the log.                                             *)
LEMMA MadeStep ==
  ASSUME NEW lg, NEW run, NEW t, NEW p \in Nat, Typed(lg), p + 1 <= Len(lg), Once(lg),
         DropsCreated(lg, run)
  PROVE  Step(lg, run, t, p)
<1> DEFINE q == p + 1
<1>0. /\ 1 .. q = (1 .. p) \union {q} /\ q \in 1 .. Len(lg) /\ Len(lg) \in Nat
      /\ q \notin 1 .. p /\ q \in Nat /\ \A i \in 1 .. p : i \in 1 .. Len(lg)
  BY RecordFields
<1>1. lg[q].txn \in Id
  BY <1>0, RecordFields
<1>. HIDE DEF q
<1>2. \A x : Created(lg, run, x, t, q) <=>
        \/ Created(lg, run, x, t, p)
        \/ MakesIndex(lg, q) /\ Live(lg, run, q) /\ lg[q].txn = x /\ lg[q].after.table_id = t
  BY <1>0 DEF Created
<1>3. \A x : Dropped(lg, run, x, q) <=>
        \/ Dropped(lg, run, x, p)
        \/ Drops(lg, q) /\ Live(lg, run, q) /\ lg[q].before.id = x
  BY <1>0 DEF Dropped
<1>4. ~(MakesIndex(lg, q) /\ Drops(lg, q))
  BY DEF MakesIndex, Drops
<1>5. MakesIndex(lg, q) => \A s : ~Created(lg, run, lg[q].txn, s, p)
  BY <1>0 DEF Once, MakesIndex, Created
<1>6. MakesIndex(lg, q) => ~Dropped(lg, run, lg[q].txn, p)
  <2>1. SUFFICES ASSUME MakesIndex(lg, q), NEW i \in 1 .. p, Drops(lg, i), lg[i].before.id = lg[q].txn
                 PROVE  FALSE
    BY DEF Dropped
  <2>2. Created(lg, run, lg[q].txn, lg[i].before.table_id, i - 1)
    BY <1>0, <2>1 DEF DropsCreated
  <2>3. Created(lg, run, lg[q].txn, lg[i].before.table_id, p)
    BY <2>2, <1>0, CreatedLater
  <2>. QED BY <1>5, <2>1, <2>3
<1>7. ~Live(lg, run, q) \/ ~(MakesIndex(lg, q) \/ Drops(lg, q)) => Made(lg, run, t, q) = Made(lg, run, t, p)
  BY <1>2, <1>3 DEF Made
<1>8. MakesIndex(lg, q) /\ lg[q].after.table_id # t => Made(lg, run, t, q) = Made(lg, run, t, p)
  BY <1>2, <1>3, <1>4 DEF Made
<1>9. ASSUME Live(lg, run, q), MakesIndex(lg, q), lg[q].after.table_id = t
      PROVE  /\ Made(lg, run, t, q) = Made(lg, run, t, p) \union {lg[q].txn}
             /\ lg[q].txn \notin Made(lg, run, t, p)
  <2>1. \A x : Created(lg, run, x, t, q) <=> Created(lg, run, x, t, p) \/ x = lg[q].txn
    BY <1>2, <1>9
  <2>2. \A x : Dropped(lg, run, x, q) <=> Dropped(lg, run, x, p)
    BY <1>3, <1>4, <1>9
  <2>. QED BY <1>1, <1>5, <1>6, <1>9, <2>1, <2>2 DEF Made
<1>10. ASSUME Live(lg, run, q), Drops(lg, q)
       PROVE  Made(lg, run, t, q) = Made(lg, run, t, p) \ {lg[q].before.id}
  <2>1. \A x : Created(lg, run, x, t, q) <=> Created(lg, run, x, t, p)
    BY <1>2, <1>4, <1>10
  <2>2. \A x : Dropped(lg, run, x, q) <=> Dropped(lg, run, x, p) \/ x = lg[q].before.id
    BY <1>3, <1>10
  <2>. QED BY <2>1, <2>2 DEF Made
<1>. QED BY <1>7, <1>8, <1>9, <1>10 DEF q, Step

(* Bags of indexes.                                                        *)
LEMMA AddToBag ==
  ASSUME NEW S, NEW x, x \notin S
  PROVE  SetToBag(S) (+) SetToBag({x}) = SetToBag(S \union {x})
BY DEF SetToBag, (+)

(* Erasing an index from a listing that has each once.                     *)
LEMMA TakeFromBag ==
  ASSUME NEW S, NEW x
  PROVE  Without(SetToBag(S), x) = SetToBag(S \ {x})
BY DEF SetToBag, Without

(* Listings stay listings when an index is added or erased.                *)
LEMMA ListingKept ==
  ASSUME NEW b \in Listing, NEW x \in Id
  PROVE  /\ b (+) SetToBag({x}) \in Listing /\ Without(b, x) \in Listing /\ EmptyBag \in Listing
         /\ DOMAIN (b (+) SetToBag({x})) = DOMAIN b \union {x}
         /\ DOMAIN Without(b, x) = DOMAIN b \ {x} /\ DOMAIN EmptyBag = {}
<1>1. PICK S \in SUBSET Id : b \in [S -> Nat]
  BY DEF Listing
<1>2. b (+) SetToBag({x}) \in [S \union {x} -> Nat] /\ S \union {x} \in SUBSET Id
  BY <1>1 DEF SetToBag, (+)
<1>3. Without(b, x) \in [S \ {x} -> Nat] /\ S \ {x} \in SUBSET Id
  BY <1>1 DEF Without
<1>4. EmptyBag \in [{} -> Nat] /\ {} \in SUBSET Id
  BY DEF EmptyBag, SetToBag
<1>. QED BY <1>1, <1>2, <1>3, <1>4 DEF Listing

(* CLRs are never lost, and a log that grows has those it had.             *)
LEMMA ClrsKept ==
  ASSUME NEW lg, NEW l2, Typed(lg), Typed(l2), NEW m \in Nat, m <= Len(lg), m <= Len(l2),
         \A i \in 1 .. m : l2[i] = lg[i], \A i \in 1 .. Len(lg) : lg[i].clr => i <= m
  PROVE  /\ \A t : Spoiled(lg, t) => Spoiled(l2, t)
         /\ \A s : Removed(lg, s) => Removed(l2, s)
<1>1. Len(lg) \in Nat /\ Len(l2) \in Nat
  BY RecordFields
<1>2. \A i \in 1 .. Len(lg) : lg[i].clr => i \in 1 .. Len(l2) /\ l2[i] = lg[i]
  BY <1>1
<1>. QED BY <1>2 DEF Spoiled, Removed

-----------------------------------------------------------------------------
(* Statements                                                              *)

(* A record of a statement, and a marker.                                  *)
LEMMA RecordType ==
  ASSUME NEW kind \in Changes \union Markers, NEW txn \in Id, NEW prev \in Nat,
         NEW before \in Image, NEW after \in Image
  PROVE  LET r == Record(kind, txn, prev, before, after)
         IN  /\ r \in LogRecord /\ r.kind = kind /\ ~r.clr /\ r.txn = txn /\ r.prev = prev
             /\ r.before = before /\ r.after = after
BY DEF Record, LogRecord

(* The record that Transaction::commit, or the end of an undo, appends.    *)
LEMMA MarkerType ==
  ASSUME NEW kind \in Markers, NEW txn \in Id, NEW prev \in Nat
  PROVE  LET r == Marker(kind, txn, prev)
         IN  r \in LogRecord /\ Fits(r) /\ r.kind = kind /\ ~r.clr /\ r.txn = txn
<1>1. Nothing \in Image
  BY DEF Image
<1>2. LET r == Marker(kind, txn, prev)
      IN  r \in LogRecord /\ r.kind = kind /\ ~r.clr /\ r.txn = txn
  BY <1>1, RecordType DEF Marker
<1>. QED BY <1>2 DEF Fits, Markers, Changes

(* Between statements only what is done is live.                           *)
LEMMA LiveIsDone ==
  ASSUME TypeInv
  PROVE  \A i \in 1 .. Len(log) : Live(log, 0, i) <=> Done(log, i)
<1>1. \A i \in 1 .. Len(log) : log[i].txn # 0
  BY RecordFields DEF TypeInv, Typed, Id
<1>. QED BY <1>1 DEF Live

(* The tables of the cache, between statements, are committed ones.        *)
LEMMA TableKnown ==
  ASSUME CatalogInv, phase = "up", running = NoStatement, NEW t \in DOMAIN tables
  PROVE  /\ t \in Id /\ tables[t] \in MetaTable /\ tables[t].id = t
         /\ \E j \in 1 .. Len(log) :
              /\ Done(log, j) /\ Stems(tables[t], log, j)
              /\ \E s \in 1 .. j - 1 :
                   MakesSchema(log, s) /\ Done(log, s) /\ tables[t].schema_id = log[s].txn
<1>1. t \in Id /\ tables[t] \in MetaTable /\ tables[t].id = t
  BY DEF CatalogInv, TypeInv, CachedInv
<1>2. running.txn = 0
  BY DEF NoStatement
<1>3. PICK j \in 1 .. Len(log) : Live(log, 0, j) /\ Stems(tables[t], log, j)
  BY <1>2 DEF CatalogInv, CachedInv
<1>4. Done(log, j)
  BY <1>3, LiveIsDone DEF CatalogInv
<1>5. HasSchema(log, j)
  BY <1>3 DEF CatalogInv, LogInv, SchemaBefore, Stems, MakesTable, Changes
<1>6. \E s \in 1 .. j - 1 : MakesSchema(log, s) /\ Done(log, s) /\ tables[t].schema_id = log[s].txn
  BY <1>3, <1>5 DEF HasSchema, Stems, MakesTable
<1>. QED BY <1>1, <1>3, <1>4, <1>6

(* What all statements have in common: the record is appended.             *)
StatementLogs(r) ==
  /\ Ready /\ ids < MaxIds /\ ids' = ids + 1
  /\ r.kind \in Changes /\ ~r.clr /\ r.txn = ids + 1
  /\ log' = Append(log, r)
  /\ running' = [txn |-> r.txn, stage |-> "ran"] \/
     (running' = NoStatement /\ r.kind \notin {"create_schema", "create_table"})
  /\ phase' = phase /\ durable' = durable /\ at' = at /\ active' = active /\ undoing' = undoing

(* and this is what it leaves                                              *)
Grown(r) ==
  /\ Typed(log) /\ Typed(log') /\ Extended(log', log, r) /\ Len(log) \in Nat
  /\ LogInv(log') /\ DurableInv' /\ RunningInv' /\ SettledInv' /\ WalkInv'
  /\ \A i \in 1 .. Len(log) : log'[i] = log[i]
  /\ \A i \in 1 .. Len(log) : Makes(log', i) <=> Makes(log, i)
  /\ \A i \in 1 .. Len(log) : Done(log', i) <=> Done(log, i)
  /\ \A i \in 1 .. Len(log) : Live(log', running'.txn, i) <=> Live(log, running.txn, i)
  /\ \A i \in 1 .. Len(log) : Live(log, running.txn, i) <=> Done(log, i)
  /\ Makes(log', Len(log) + 1)
  /\ running' = [txn |-> r.txn, stage |-> "ran"] => Live(log', running'.txn, Len(log) + 1)
  /\ running' = NoStatement => ~Live(log', running'.txn, Len(log) + 1)
  /\ \A i \in 1 .. Len(log) : log[i].txn # r.txn
  /\ running'.txn \in 0 .. MaxIds /\ running'.stage \in {"ran", "none"}
  /\ ids' \in 0 .. MaxIds /\ durable' \in 0 .. Len(log') /\ r.txn \in Id
  /\ running' \in [txn : 0 .. MaxIds, stage : {"none", "ran", "committing"}]
  /\ \A i \in 1 .. Len(log') : log'[i].txn <= ids'

(* Log, locks and markers after a statement's record.                      *)
LEMMA StatementKeeps ==
  ASSUME CatalogInv, NEW r \in LogRecord, Fits(r), StatementLogs(r),
         r.kind = "create_schema" => \A k \in 1 .. Len(log) : log[k].kind # "commit",
         r.kind # "create_schema" => HasSchema(Append(log, r), Len(log) + 1),
         r.kind \in {"update_table", "create_index", "drop_index"} =>
           HasTable(Append(log, r), Len(log) + 1),
         r.kind = "create_table" =>
           \A j \in 1 .. Len(log) :
             MakesTable(log, j) /\ Done(log, j) => log[j].after.name # r.after.name
  PROVE  Grown(r)
<1> DEFINE n == Len(log)
<1>1. Typed(log) /\ n \in Nat
  BY RecordFields DEF CatalogInv, TypeInv, Typed
<1>2. Typed(log') /\ Extended(log', log, r)
  BY <1>1, AppendExtends DEF StatementLogs
<1>3. Len(log') = n + 1 /\ log'[n + 1] = r /\ \A i \in 1 .. n : log'[i] = log[i]
  BY <1>2 DEF Extended
<1>4. /\ phase = "up" /\ running.stage = "none" /\ running.txn = 0
      /\ phase' = "up" /\ durable' = durable /\ durable \in 0 .. n /\ ids \in 0 .. MaxIds /\ ids < MaxIds
      /\ ids' = ids + 1 /\ r.txn = ids + 1 /\ MaxIds \in Nat /\ running = NoStatement
  BY CatalogAssumption DEF StatementLogs, Ready, NoStatement, CatalogInv, TypeInv
<1>5. \A i \in 1 .. n : log[i].txn # r.txn /\ log[i].txn <= ids /\ log[i].txn \in Id
  BY <1>1, <1>4, RecordFields DEF CatalogInv, TypeInv, Id
<1>6. /\ Makes(log', n + 1) /\ ~Done(log', n + 1) /\ r.kind # "commit"
      /\ \A i \in 1 .. n : (Makes(log', i) <=> Makes(log, i)) /\ (Done(log', i) <=> Done(log, i))
  BY <1>1, <1>2, <1>3, GrowFacts DEF Makes, StatementLogs, Changes
<1>7. \A i \in 1 .. n : Makes(log, i) /\ log[i].kind \in {"create_schema", "create_table"} => Ended(log, i)
  BY <1>4, <1>5 DEF CatalogInv, SettledInv, Id
<1>8. \A i \in 1 .. n : Ended(log, i) => Ended(log', i)
  BY <1>1, <1>2, GrowFacts
<1>9. LogInv(log')
  <2>1. Append(log, r) = log' /\ Len(log) + 1 = Len(log')
    BY <1>3 DEF StatementLogs
  <2>2. /\ r.kind # "create_schema" => HasSchema(log', Len(log'))
        /\ r.kind \in {"update_table", "create_index", "drop_index"} => HasTable(log', Len(log'))
    BY <2>1
  <2>3. LogInv(log) /\ r.kind \in Changes /\ ~r.clr
    BY DEF CatalogInv, StatementLogs
  <2>. HIDE DEF n
  <2>. QED BY <1>1, <1>2, <1>5, <1>7, <2>2, <2>3, LogTakesStatement DEF n
<1>10. \/ running' = [txn |-> r.txn, stage |-> "ran"]
       \/ running' = NoStatement /\ r.kind \notin {"create_schema", "create_table"}
  BY DEF StatementLogs
<1>11. /\ running'.txn \in {r.txn, 0} /\ running'.stage \in {"ran", "none"}
       /\ running'.stage = "none" <=> running' = NoStatement
       /\ running'.stage = "none" <=> running'.txn = 0
       /\ running'.stage = "ran" => running'.txn = r.txn
       /\ running' = NoStatement => running'.txn = 0
       /\ running' = [txn |-> r.txn, stage |-> "ran"] => running'.txn = r.txn
       /\ r.txn \in Id
  BY <1>4, <1>10 DEF NoStatement, Id
<1>12. DurableInv'
  BY <1>1, <1>3, <1>4, <1>6 DEF CatalogInv, DurableInv, Makes, Changes, Markers
<1>13. RunningInv'
  BY <1>1, <1>3, <1>4, <1>6, <1>11 DEF RunningInv
<1>14. SettledInv'
  <2>1. ASSUME NEW j \in 1 .. n + 1, Makes(log', j), log'[j].kind \in {"create_schema", "create_table"}
        PROVE  Ended(log', j) \/ log'[j].txn = running'.txn
    <3>1. CASE j = n + 1
      BY <1>3, <1>10, <1>11, <2>1, <3>1
    <3>2. CASE j # n + 1
      BY <1>1, <1>3, <1>6, <1>7, <1>8, <2>1, <3>2
    <3>. QED BY <3>1, <3>2
  <2>. QED BY <1>3, <2>1 DEF SettledInv
<1>15. WalkInv'
  BY <1>4 DEF StatementLogs, CatalogInv, WalkInv
<1>16. \A i \in 1 .. n : Live(log', running'.txn, i) <=> Live(log, running.txn, i)
  BY <1>3, <1>4, <1>5, <1>6, <1>11 DEF Live, Id
<1>17. \A i \in 1 .. n : Live(log, running.txn, i) <=> Done(log, i)
  BY <1>4, LiveIsDone DEF CatalogInv
<1>18. /\ running' = [txn |-> r.txn, stage |-> "ran"] => Live(log', running'.txn, n + 1)
       /\ running' = NoStatement => ~Live(log', running'.txn, n + 1)
  BY <1>3, <1>4, <1>6, <1>11 DEF Live, Id
<1>19. running' \in [txn : 0 .. MaxIds, stage : {"none", "ran", "committing"}]
  BY <1>4, <1>10 DEF NoStatement
<1>20. \A i \in 1 .. Len(log') : log'[i].txn <= ids'
  <2>. HIDE DEF n
  <2>1. \A i \in 1 .. n + 1 : log'[i].txn <= ids'
    BY <1>1, <1>3, <1>4, <1>5 DEF Id
  <2>. QED BY <1>3, <2>1
<1>21. ids' \in 0 .. MaxIds /\ durable' \in 0 .. Len(log')
  BY <1>1, <1>3, <1>4
<1>. QED BY <1>1, <1>2, <1>3, <1>5, <1>6, <1>9, <1>11, <1>12, <1>13, <1>14, <1>15,
        <1>16, <1>17, <1>18, <1>19, <1>20, <1>21 DEF Grown

(* The parts of the invariant that speak of what a statement leaves alone. *)
LEMMA StatementLeaves ==
  ASSUME CatalogInv, NEW r \in LogRecord, Fits(r), StatementLogs(r), Grown(r),
         disk'.schema = disk.schema, \A m \in Names : disk'.dirs[m].meta = disk.dirs[m].meta,
         r.kind = "update_table" =>
           /\ \A x \in DOMAIN r.before.indexes : Created(log, running.txn, x, r.before.id, Len(log))
           /\ ~Spoiled(log, r.before.id) =>
                r.before.indexes = SetToBag(Made(log, running.txn, r.before.id, Len(log))),
         r.kind = "drop_index" => Created(log, running.txn, r.before.id, r.before.table_id, Len(log)),
         \A t \in DOMAIN tables' : \A x \in DOMAIN tables'[t].indexes :
           \/ t \in DOMAIN tables /\ x \in DOMAIN tables[t].indexes
           \/ Created(log', running'.txn, x, t, Len(log) + 1),
         \A t \in DOMAIN tables' : ~Spoiled(log', t) =>
           tables'[t].indexes = SetToBag(Made(log', running'.txn, t, Len(log) + 1))
  PROVE  StoredInv' /\ RedoneInv' /\ ListedInv' /\ IndexesInv'
<1> DEFINE n == Len(log)
<1>1. /\ Typed(log) /\ Typed(log') /\ n \in Nat /\ Len(log') = n + 1 /\ log'[n + 1] = r
      /\ \A i \in 1 .. n : log'[i] = log[i]
      /\ durable' = durable /\ durable \in 0 .. n /\ phase' = "up" /\ ~r.clr
  BY DEF Grown, Extended, StatementLogs, CatalogInv, TypeInv, Ready
<1>2. /\ \A i \in 1 .. n : Makes(log', i) <=> Makes(log, i)
      /\ \A i \in 1 .. n : Done(log', i) <=> Done(log, i)
      /\ \A i \in 1 .. n : Live(log', running'.txn, i) <=> Live(log, running.txn, i)
  BY DEF Grown
<1>3. \A i \in 1 .. n : Live(log', 0, i) <=> Live(log, 0, i)
  <2>1. \A i \in 1 .. n : log[i].txn # 0
    BY <1>1, RecordFields DEF Id
  <2>. QED BY <1>1, <1>2, <2>1 DEF Live
<1>4. \A t : Spoiled(log, t) => Spoiled(log', t)
  <2>1. n <= Len(log) /\ n <= Len(log') /\ \A i \in 1 .. Len(log) : log[i].clr => i <= n
    BY <1>1
  <2>. QED BY <1>1, <2>1, ClrsKept
<1>5. \A t, p : p \in Int /\ p <= n =>
        /\ \A x : Created(log', running'.txn, x, t, p) <=> Created(log, running.txn, x, t, p)
        /\ \A x : Created(log', 0, x, t, p) <=> Created(log, 0, x, t, p)
        /\ Made(log', running'.txn, t, p) = Made(log, running.txn, t, p)
  <2>1. ASSUME NEW t, NEW p \in Int, p <= n
        PROVE  /\ \A x : Created(log', running'.txn, x, t, p) <=> Created(log, running.txn, x, t, p)
               /\ \A x : Created(log', 0, x, t, p) <=> Created(log, 0, x, t, p)
               /\ Made(log', running'.txn, t, p) = Made(log, running.txn, t, p)
    <3>1. \A i \in 1 .. p : i \in 1 .. n
      BY <1>1, <2>1
    <3>2. \A i \in 1 .. p : log'[i] = log[i]
      BY <1>1, <3>1
    <3>3. \A i \in 1 .. p : Live(log', running'.txn, i) <=> Live(log, running.txn, i)
      BY <1>2, <3>1
    <3>4. \A i \in 1 .. p : Live(log', 0, i) <=> Live(log, 0, i)
      BY <1>3, <3>1
    <3>5. /\ \A x : Created(log', running'.txn, x, t, p) <=> Created(log, running.txn, x, t, p)
          /\ Made(log', running'.txn, t, p) = Made(log, running.txn, t, p)
      <4> DEFINE run == running.txn
                 run2 == running'.txn
      <4>1. \A i \in 1 .. p : Live(log', run2, i) <=> Live(log, run, i)
        BY <3>3
      <4>. HIDE DEF run, run2
      <4>2. \A x : Created(log', run2, x, t, p) <=> Created(log, run, x, t, p)
        BY <1>1, <2>1, <3>2, <4>1, MadeKept
      <4>3. Made(log', run2, t, p) = Made(log, run, t, p)
        BY <1>1, <2>1, <3>2, <4>1, MadeKept
      <4>. QED BY <4>2, <4>3 DEF run, run2
    <3>6. \A x : Created(log', 0, x, t, p) <=> Created(log, 0, x, t, p)
      BY <1>1, <2>1, <3>2, <3>4, MadeKept
    <3>. QED BY <3>5, <3>6
  <2>. QED BY <2>1
<1>6. StoredInv'
  <2>1. ASSUME disk'.schema # 0
        PROVE  \E j \in 1 .. durable' - 1 : MakesSchema(log', j) /\ Done(log', j) /\ log'[j].txn = disk'.schema
    BY <1>1, <1>2, <2>1 DEF CatalogInv, StoredInv, MakesSchema
  <2>2. ASSUME NEW m \in Names, disk'.dirs[m].meta # NoTable
        PROVE  /\ disk'.dirs[m].meta \in MetaTable /\ disk'.dirs[m].meta.name = m
               /\ \E j \in 1 .. durable' - 1 : Done(log', j) /\ Stems(disk'.dirs[m].meta, log', j)
    <3>1. disk'.dirs[m].meta = disk.dirs[m].meta
      OBVIOUS
    <3>2. PICK j \in 1 .. durable - 1 : Done(log, j) /\ Stems(disk.dirs[m].meta, log, j)
      BY <2>2, <3>1 DEF CatalogInv, StoredInv
    <3>3. j \in 1 .. n /\ Done(log', j) /\ Stems(disk.dirs[m].meta, log', j)
      BY <1>1, <1>2, <3>2 DEF Stems, MakesTable
    <3>. QED BY <1>1, <2>2, <3>1, <3>3, <3>2 DEF CatalogInv, StoredInv
  <2>. QED BY <2>1, <2>2 DEF StoredInv
<1>7. RedoneInv'
  BY <1>1 DEF RedoneInv
<1>8. \A i \in 1 .. n + 1 : Makes(log', i) =>
        /\ log'[i].kind = "update_table" =>
             \A x \in DOMAIN log'[i].before.indexes :
               Created(log', running'.txn, x, log'[i].before.id, i - 1)
        /\ log'[i].kind = "drop_index" =>
             Created(log', running'.txn, log'[i].before.id, log'[i].before.table_id, i - 1)
  <2>1. ASSUME NEW i \in 1 .. n, Makes(log', i)
        PROVE  /\ log'[i].kind = "update_table" =>
                    \A x \in DOMAIN log'[i].before.indexes :
                      Created(log', running'.txn, x, log'[i].before.id, i - 1)
               /\ log'[i].kind = "drop_index" =>
                    Created(log', running'.txn, log'[i].before.id, log'[i].before.table_id, i - 1)
    <3>1. i - 1 \in Int /\ i - 1 <= n /\ log'[i] = log[i] /\ Makes(log, i)
      BY <1>1, <1>2, <2>1
    <3>. QED BY <1>5, <3>1 DEF CatalogInv, ListedInv
  <2>2. n \in Int /\ n <= n /\ (n + 1) - 1 = n
    BY <1>1
  <2>3. /\ r.kind = "update_table" =>
             \A x \in DOMAIN r.before.indexes : Created(log', running'.txn, x, r.before.id, n)
        /\ r.kind = "drop_index" => Created(log', running'.txn, r.before.id, r.before.table_id, n)
    BY <1>5, <2>2
  <2>. QED BY <1>1, <2>1, <2>2, <2>3
<1>9. ListedInv'
  <2>1. ASSUME NEW m \in Names, NEW x \in DOMAIN disk'.dirs[m].meta.indexes
        PROVE  Created(log', 0, x, disk'.dirs[m].meta.id, durable' - 1)
    <3>1. durable - 1 \in Int /\ durable - 1 <= n
      BY <1>1
    <3>2. Created(log, 0, x, disk.dirs[m].meta.id, durable - 1)
      BY <2>1 DEF CatalogInv, ListedInv
    <3>. QED BY <1>1, <1>5, <3>1, <3>2
  <2>2. ASSUME NEW t \in DOMAIN tables', NEW x \in DOMAIN tables'[t].indexes
        PROVE  Created(log', running'.txn, x, t, Len(log'))
    <3>1. CASE t \in DOMAIN tables /\ x \in DOMAIN tables[t].indexes
      <4>1. Created(log, running.txn, x, t, n)
        BY <3>1 DEF CatalogInv, ListedInv
      <4>2. n \in Int /\ n + 1 \in Int /\ n <= n + 1
        BY <1>1
      <4>3. Created(log', running'.txn, x, t, n + 1)
        BY <1>1, <1>2, <4>1, <4>2, CreatedLater
      <4>. QED BY <1>1, <4>3
    <3>2. CASE Created(log', running'.txn, x, t, n + 1)
      BY <1>1, <3>2
    <3>. QED BY <2>2, <3>1, <3>2
  <2>. QED BY <1>1, <1>8, <2>1, <2>2 DEF ListedInv
<1>10. IndexesInv'
  <2>1. ASSUME NEW i \in 1 .. n + 1, Makes(log', i), log'[i].kind = "update_table",
               ~Spoiled(log', log'[i].before.id)
        PROVE  log'[i].before.indexes = SetToBag(Made(log', running'.txn, log'[i].before.id, i - 1))
    <3>1. CASE i \in 1 .. n
      <4>1. log'[i] = log[i] /\ Makes(log, i) /\ ~Spoiled(log, log[i].before.id) /\ i - 1 \in Int /\ i - 1 <= n
        BY <1>1, <1>2, <1>4, <2>1, <3>1
      <4>2. log[i].before.indexes = SetToBag(Made(log, running.txn, log[i].before.id, i - 1))
        BY <2>1, <3>1, <4>1 DEF CatalogInv, IndexesInv
      <4>. QED BY <1>5, <4>1, <4>2
    <3>2. CASE i = n + 1
      <4> DEFINE t == r.before.id
      <4>1. log'[i] = r /\ ~Spoiled(log, t) /\ r.kind = "update_table"
        BY <1>1, <1>4, <2>1, <3>2
      <4>2. r.before.indexes = SetToBag(Made(log, running.txn, t, n))
        BY <4>1
      <4>3. Made(log', running'.txn, t, n) = Made(log, running.txn, t, n)
        BY <1>1, <1>5
      <4>4. i - 1 = n
        BY <1>1, <3>2
      <4>. QED BY <3>2, <4>1, <4>2, <4>3, <4>4
    <3>. QED BY <1>1, <3>1, <3>2
  <2>. QED BY <1>1, <2>1 DEF IndexesInv
<1>. QED BY <1>6, <1>7, <1>9, <1>10

(* Index files after a statement.                                          *)
LEMMA StatementFiles ==
  ASSUME CatalogInv, NEW r \in LogRecord, Fits(r), StatementLogs(r), Grown(r),
         \A m \in Names : disk.dirs[m].index_files \subseteq disk'.dirs[m].index_files,
         r.kind = "create_index" =>
           \A j \in 1 .. Len(log) :
             MakesTable(log, j) /\ log[j].txn = r.after.table_id =>
               r.txn \in disk'.dirs[log[j].after.name].index_files
  PROVE  FilesInv'
<1> DEFINE n == Len(log)
<1>1. /\ Typed(log) /\ Typed(log') /\ n \in Nat /\ Len(log') = n + 1 /\ log'[n + 1] = r
      /\ \A i \in 1 .. n : log'[i] = log[i]
      /\ \A i \in 1 .. n : Makes(log', i) <=> Makes(log, i)
  BY DEF Grown, Extended
<1>2. \A s : Removed(log, s) => Removed(log', s)
  <2>1. n <= Len(log) /\ n <= Len(log') /\ \A i \in 1 .. Len(log) : log[i].clr => i <= n
    BY <1>1
  <2>. QED BY <1>1, <2>1, ClrsKept
<1>3. ASSUME NEW i \in 1 .. n + 1, NEW j \in 1 .. n + 1, MakesIndex(log', i), MakesTable(log', j),
             log'[i].after.table_id = log'[j].txn, ~Removed(log', log'[j].after.name)
      PROVE  log'[i].txn \in disk'.dirs[log'[j].after.name].index_files
  <2>1. CASE j = n + 1
    <3>1. i \in 1 .. n /\ log'[i] = log[i] /\ MakesIndex(log, i)
      BY <1>1, <1>3, <2>1 DEF MakesIndex, MakesTable
    <3>2. HasTable(log, i)
      BY <3>1 DEF CatalogInv, LogInv, TableBefore, MakesIndex
    <3>3. PICK k \in 1 .. i - 1 : TableOf(log[i]) = log[k].txn
      BY <3>2 DEF HasTable
    <3>4. log[k].txn = r.txn /\ k \in 1 .. n
      BY <1>1, <1>3, <2>1, <3>1, <3>3 DEF TableOf, MakesIndex
    <3>. QED BY <3>4 DEF Grown
  <2>2. CASE j \in 1 .. n /\ i = n + 1
    BY <1>1, <1>3, <2>2 DEF MakesIndex, MakesTable
  <2>3. CASE j \in 1 .. n /\ i \in 1 .. n
    <3>1. MakesIndex(log, i) /\ MakesTable(log, j) /\ log'[i] = log[i] /\ log'[j] = log[j]
      BY <1>1, <1>3, <2>3 DEF MakesIndex, MakesTable
    <3>2. ~Removed(log, log[j].after.name)
      BY <1>2, <1>3, <3>1
    <3>3. log[i].txn \in disk.dirs[log[j].after.name].index_files
      BY <1>3, <2>3, <3>1, <3>2 DEF CatalogInv, FilesInv
    <3>4. log[j].after.name \in Names
      BY <1>1, <2>3, <3>1, RecordFields DEF MakesTable, Fits, MetaTable
    <3>. QED BY <3>1, <3>3, <3>4
  <2>. QED BY <1>1, <2>1, <2>2, <2>3
<1>. QED BY <1>1, <1>3 DEF FilesInv

(* The catalog after a statement.                                          *)
LEMMA StatementCached ==
  ASSUME CatalogInv, NEW r \in LogRecord, Fits(r), StatementLogs(r), Grown(r),
         \/ schema' = schema /\ r.kind # "create_schema"
         \/ schema' = r.txn /\ r.kind = "create_schema" /\ schema = 0,
         DOMAIN tables' = IF r.kind = "create_table" THEN DOMAIN tables \union {r.txn} ELSE DOMAIN tables,
         \A t \in DOMAIN tables :
           /\ tables'[t].id = tables[t].id /\ tables'[t].name = tables[t].name
           /\ tables'[t].schema_id = tables[t].schema_id,
         r.kind = "create_table" => tables'[r.txn] = r.after
  PROVE  CachedInv'
<1> DEFINE n == Len(log)
<1>1. /\ Typed(log) /\ Typed(log') /\ n \in Nat /\ Len(log') = n + 1 /\ log'[n + 1] = r
      /\ \A i \in 1 .. n : log'[i] = log[i]
      /\ \A i \in 1 .. n : Makes(log', i) <=> Makes(log, i)
      /\ \A i \in 1 .. n : Live(log', running'.txn, i) <=> Live(log, running.txn, i)
      /\ Makes(log', n + 1) /\ phase' = "up" /\ phase = "up" /\ r.txn \in Id
  BY DEF Grown, Extended, StatementLogs, Ready
<1>2. r.kind \in {"create_schema", "create_table"} => Live(log', running'.txn, n + 1)
  BY DEF Grown, StatementLogs
<1>3. /\ \A j \in 1 .. n : Live(log, running.txn, j) =>
           /\ log[j].kind = "create_schema" => schema = log[j].txn
           /\ log[j].kind = "create_table" => log[j].txn \in DOMAIN tables
      /\ schema # 0 => \E j \in 1 .. n : Live(log, running.txn, j) /\ MakesSchema(log, j) /\ log[j].txn = schema
      /\ \A t \in DOMAIN tables :
           /\ tables[t].id = t
           /\ \E j \in 1 .. n : Live(log, running.txn, j) /\ Stems(tables[t], log, j)
  BY <1>1 DEF CatalogInv, CachedInv
<1>4. ASSUME NEW j \in 1 .. n + 1, Live(log', running'.txn, j)
      PROVE  /\ log'[j].kind = "create_schema" => schema' = log'[j].txn
             /\ log'[j].kind = "create_table" => log'[j].txn \in DOMAIN tables'
  <2>1. CASE j = n + 1
    BY <1>1, <2>1
  <2>2. CASE j \in 1 .. n
    <3>1. /\ log'[j].kind = "create_schema" => schema = log'[j].txn
          /\ log'[j].kind = "create_table" => log'[j].txn \in DOMAIN tables
          /\ log'[j].txn \in Id
      BY <1>1, <1>3, <1>4, <2>2, RecordFields
    <3>. QED BY <3>1 DEF Id
  <2>. QED BY <1>1, <2>1, <2>2
<1>5. ASSUME schema' # 0
      PROVE  \E j \in 1 .. n + 1 :
               Live(log', running'.txn, j) /\ MakesSchema(log', j) /\ log'[j].txn = schema'
  <2>1. CASE r.kind = "create_schema"
    <3>1. /\ n + 1 \in 1 .. n + 1 /\ Live(log', running'.txn, n + 1)
          /\ MakesSchema(log', n + 1) /\ log'[n + 1].txn = schema'
      BY <1>1, <1>2, <2>1 DEF MakesSchema
    <3>. QED BY <3>1
  <2>2. CASE r.kind # "create_schema"
    <3>1. PICK j \in 1 .. n : Live(log, running.txn, j) /\ MakesSchema(log, j) /\ log[j].txn = schema
      BY <1>3, <1>5, <2>2
    <3>. QED BY <1>1, <2>2, <3>1 DEF MakesSchema
  <2>. QED BY <2>1, <2>2
<1>6. ASSUME NEW t \in DOMAIN tables'
      PROVE  /\ tables'[t].id = t
             /\ \E j \in 1 .. n + 1 : Live(log', running'.txn, j) /\ Stems(tables'[t], log', j)
  <2>1. CASE t \in DOMAIN tables
    <3>1. PICK j \in 1 .. n : Live(log, running.txn, j) /\ Stems(tables[t], log, j)
      BY <1>3, <2>1
    <3>2. j \in 1 .. n + 1 /\ Live(log', running'.txn, j) /\ Stems(tables'[t], log', j)
      BY <1>1, <2>1, <3>1 DEF Stems, MakesTable
    <3>. QED BY <1>3, <2>1, <3>2
  <2>2. CASE r.kind = "create_table" /\ t = r.txn
    <3>1. Stems(tables'[t], log', n + 1) /\ r.after.id = r.txn
      BY <1>1, <2>2 DEF Stems, MakesTable, Fits
    <3>. QED BY <1>1, <1>2, <2>2, <3>1
  <2>. QED BY <1>6, <2>1, <2>2
<1>. QED BY <1>1, <1>4, <1>5, <1>6 DEF CachedInv

(* The indexes after a statement.                                          *)
LEMMA MadeAfter ==
  ASSUME CatalogInv, NEW r \in LogRecord, Fits(r), StatementLogs(r), Grown(r), NEW t,
         r.kind = "drop_index" => Created(log, running.txn, r.before.id, r.before.table_id, Len(log))
  PROVE  LET before == Made(log, running.txn, t, Len(log))
             after == Made(log', running'.txn, t, Len(log) + 1)
         IN  /\ r.kind \notin {"create_index", "drop_index"} \/ running' = NoStatement => after = before
             /\ r.kind = "create_index" /\ r.after.table_id # t => after = before
             /\ r.kind = "create_index" /\ r.after.table_id = t /\ running' # NoStatement =>
                  after = before \union {r.txn} /\ r.txn \notin before
             /\ r.kind = "drop_index" /\ running' # NoStatement => after = before \ {r.before.id}
<1> DEFINE n == Len(log)
           run == running.txn
           run2 == running'.txn
<1>1. /\ Typed(log) /\ Typed(log') /\ n \in Nat /\ Len(log') = n + 1 /\ log'[n + 1] = r
      /\ \A i \in 1 .. n : log'[i] = log[i]
      /\ \A i \in 1 .. n : Makes(log', i) <=> Makes(log, i)
      /\ \A i \in 1 .. n : Live(log', run2, i) <=> Live(log, run, i)
      /\ Makes(log', n + 1) /\ Once(log')
      /\ running' # NoStatement => Live(log', run2, n + 1)
      /\ running' = NoStatement => ~Live(log', run2, n + 1)
  BY DEF Grown, Extended, StatementLogs, LogInv
<1>2. ASSUME NEW i \in 1 .. n, Drops(log, i)
      PROVE  Created(log, run, log[i].before.id, log[i].before.table_id, i - 1)
  BY <1>2 DEF CatalogInv, ListedInv, Drops
<1>3. r.kind = "drop_index" => Created(log, run, r.before.id, r.before.table_id, n)
  OBVIOUS
<1>. HIDE DEF n, run, run2
<1>4. DropsCreated(log', run2)
  <2>1. ASSUME NEW i \in 1 .. n + 1, Drops(log', i)
        PROVE  Created(log', run2, log'[i].before.id, log'[i].before.table_id, i - 1)
    <3>1. Created(log, run, log'[i].before.id, log'[i].before.table_id, i - 1)
      <4>1. CASE i = n + 1
        <5>1. i - 1 = n /\ log'[i] = r /\ r.kind = "drop_index"
          BY <1>1, <2>1, <4>1 DEF Drops
        <5>. QED BY <1>3, <5>1
      <4>2. CASE i \in 1 .. n
        <5>1. Drops(log, i) /\ log'[i] = log[i]
          BY <1>1, <2>1, <4>2 DEF Drops
        <5>. QED BY <1>2, <4>2, <5>1
      <4>. QED BY <1>1, <4>1, <4>2
    <3>2. i - 1 \in Int /\ i - 1 <= i - 1 /\ \A k \in 1 .. i - 1 : k \in 1 .. n
      BY <1>1
    <3>3. \A k \in 1 .. i - 1 : log'[k] = log[k] /\ (Live(log, run, k) => Live(log', run2, k))
      BY <1>1, <3>2
    <3>. QED BY <3>1, <3>2, <3>3, CreatedLater
  <2>. QED BY <1>1, <2>1 DEF DropsCreated
<1>5. Made(log', run2, t, n) = Made(log, run, t, n)
  BY <1>1, MadeKept DEF n
<1>6. n + 1 <= Len(log')
  BY <1>1
<1>7. /\ MakesIndex(log', n + 1) <=> r.kind = "create_index"
      /\ Drops(log', n + 1) <=> r.kind = "drop_index"
  BY <1>1 DEF MakesIndex, Drops
<1>8. Step(log', run2, t, n)
  BY <1>1, <1>4, <1>6, MadeStep
<1>9. /\ r.kind \notin {"create_index", "drop_index"} \/ running' = NoStatement =>
           Made(log', run2, t, n + 1) = Made(log, run, t, n)
      /\ r.kind = "create_index" /\ r.after.table_id # t => Made(log', run2, t, n + 1) = Made(log, run, t, n)
      /\ r.kind = "create_index" /\ r.after.table_id = t /\ running' # NoStatement =>
           Made(log', run2, t, n + 1) = Made(log, run, t, n) \union {r.txn} /\ r.txn \notin Made(log, run, t, n)
      /\ r.kind = "drop_index" /\ running' # NoStatement =>
           Made(log', run2, t, n + 1) = Made(log, run, t, n) \ {r.before.id}
  BY <1>1, <1>5, <1>7, <1>8 DEF Step
<1>. QED BY <1>9 DEF n, run, run2

(* No statement makes CLRs.                                                *)
LEMMA SpoiledGrows ==
  ASSUME NEW r, Grown(r), NEW t, Spoiled(log, t)
  PROVE  Spoiled(log', t)
<1>1. /\ Typed(log) /\ Typed(log') /\ Len(log) \in Nat /\ Len(log) <= Len(log')
      /\ \A i \in 1 .. Len(log) : log'[i] = log[i]
  BY DEF Grown, Extended
<1>2. \A i \in 1 .. Len(log) : log[i].clr => i <= Len(log)
  BY <1>1
<1>. QED BY <1>1, <1>2, ClrsKept

(* Without a schema nothing was committed.                                 *)
LEMMA NoSchemaNoCommit ==
  ASSUME CatalogInv, phase = "up", schema = 0, NEW k \in 1 .. Len(log)
  PROVE  log[k].kind # "commit"
<1>1. SUFFICES ASSUME log[k].kind = "commit" PROVE FALSE
  OBVIOUS
<1>2. Typed(log) /\ Len(log) \in Nat
  BY RecordFields DEF CatalogInv, TypeInv, Typed
<1>3. k > 1 /\ Makes(log, k - 1)
  BY <1>1 DEF CatalogInv, LogInv, CommitNext
<1>4. k - 1 \in 1 .. Len(log) /\ Done(log, k - 1)
  BY <1>1, <1>2, <1>3 DEF Done
<1>5. ASSUME NEW s \in 1 .. Len(log), MakesSchema(log, s), Done(log, s) PROVE FALSE
  <2>1. schema = log[s].txn
    BY <1>5 DEF CatalogInv, CachedInv, Live, MakesSchema
  <2>. QED BY <1>2, <2>1, RecordFields DEF Id
<1>6. CASE log[k - 1].kind = "create_schema"
  BY <1>3, <1>4, <1>5, <1>6 DEF MakesSchema
<1>7. CASE log[k - 1].kind # "create_schema"
  <2>1. HasSchema(log, k - 1)
    BY <1>3, <1>4, <1>7 DEF CatalogInv, LogInv, SchemaBefore, Makes
  <2>2. PICK s \in 1 .. (k - 1) - 1 : MakesSchema(log, s) /\ Done(log, s)
    BY <2>1 DEF HasSchema
  <2>. QED BY <1>2, <1>4, <1>5, <2>2
<1>. QED BY <1>6, <1>7

(* set_db_instance.                                                        *)
LEMMA CreateSchemaKeeps ==
  ASSUME CatalogInv, CreateSchema
  PROVE  CatalogInv'
<1> DEFINE r == Record("create_schema", ids + 1, 0, Nothing, ids + 1)
<1>1. ids + 1 \in Id /\ Nothing \in Image /\ ids + 1 \in Image /\ "create_schema" \in Changes \union Markers
  BY CatalogAssumption DEF CatalogInv, TypeInv, CreateSchema, Id, Image, Changes
<1>2. /\ r \in LogRecord /\ r.kind = "create_schema" /\ ~r.clr /\ r.txn = ids + 1 /\ r.prev = 0
      /\ r.after = ids + 1
  BY <1>1, RecordType
<1>3. Fits(r)
  BY <1>2 DEF Fits, Markers
<1>4. StatementLogs(r)
  BY <1>2 DEF StatementLogs, CreateSchema, Logged, Ran, Txn, recovery, Changes
<1>. HIDE DEF r
<1>5. \A k \in 1 .. Len(log) : log[k].kind # "commit"
  BY NoSchemaNoCommit DEF CreateSchema, Ready
<1>6. Grown(r)
  BY <1>2, <1>3, <1>4, <1>5, StatementKeeps
<1>7. /\ disk' = disk /\ tables' = tables /\ schema' = r.txn /\ schema = 0
      /\ running' # NoStatement
  BY <1>2 DEF CreateSchema, Ran, NoStatement
<1>8. \A t \in DOMAIN tables : ~Spoiled(log', t) =>
        tables[t].indexes = SetToBag(Made(log', running'.txn, t, Len(log) + 1))
  <2>1. ASSUME NEW t \in DOMAIN tables, ~Spoiled(log', t)
        PROVE  tables[t].indexes = SetToBag(Made(log', running'.txn, t, Len(log) + 1))
    <3>1. ~Spoiled(log, t)
      BY <2>1, SpoiledGrows, <1>6
    <3>2. tables[t].indexes = SetToBag(Made(log, running.txn, t, Len(log)))
      BY <2>1, <3>1 DEF CatalogInv, IndexesInv, CreateSchema, Ready
    <3>. QED BY <1>2, <1>3, <1>4, <1>6, <3>2, MadeAfter
  <2>. QED BY <2>1
<1>9. StoredInv' /\ RedoneInv' /\ ListedInv' /\ IndexesInv'
  BY <1>2, <1>3, <1>4, <1>6, <1>7, <1>8, StatementLeaves
<1>10. FilesInv'
  BY <1>2, <1>3, <1>4, <1>6, <1>7, StatementFiles
<1>11. CachedInv'
  BY <1>2, <1>3, <1>4, <1>6, <1>7, StatementCached
<1>12. TypeInv'
  <2>1. schema' \in 0 .. MaxIds
    BY <1>1, <1>2, <1>7, CatalogAssumption DEF Id
  <2>. QED BY <1>4, <1>6, <1>7, <2>1 DEF TypeInv, CatalogInv, Grown, Typed, StatementLogs
<1>. QED BY <1>6, <1>9, <1>10, <1>11, <1>12 DEF CatalogInv, Grown

(* A statement on table t stands behind its schema and its table.          *)
LEMMA StatementFollows ==
  ASSUME CatalogInv, Ready, NEW t \in DOMAIN tables, NEW r \in LogRecord, Fits(r),
         r.kind \in {"update_table", "create_index", "drop_index"}, TableOf(r) = t,
         r.kind = "update_table" => r.before = tables[t]
  PROVE  HasSchema(Append(log, r), Len(log) + 1) /\ HasTable(Append(log, r), Len(log) + 1)
<1> DEFINE n == Len(log)
           l2 == Append(log, r)
<1>1. Typed(log) /\ n \in Nat
  BY RecordFields DEF CatalogInv, TypeInv, Typed
<1>2. Typed(l2) /\ Extended(l2, log, r)
  BY <1>1, AppendExtends
<1>. HIDE DEF l2
<1>3. /\ Len(l2) = n + 1 /\ l2[n + 1] = r /\ \A i \in 1 .. n : l2[i] = log[i]
      /\ \A i \in 1 .. n : Makes(l2, i) <=> Makes(log, i)
      /\ \A i \in 1 .. n : Done(log, i) => Done(l2, i)
  BY <1>1, <1>2, GrowFacts DEF Extended
<1>4. PICK j \in 1 .. n : /\ Done(log, j) /\ Stems(tables[t], log, j)
                          /\ \E s \in 1 .. j - 1 :
                               MakesSchema(log, s) /\ Done(log, s) /\ tables[t].schema_id = log[s].txn
  BY TableKnown DEF Ready
<1>5. PICK s \in 1 .. j - 1 : MakesSchema(log, s) /\ Done(log, s) /\ tables[t].schema_id = log[s].txn
  BY <1>4
<1>6. tables[t].id = t
  BY TableKnown DEF Ready
<1>7. s \in 1 .. n /\ s \in 1 .. (n + 1) - 1 /\ j \in 1 .. (n + 1) - 1
  BY <1>1
<1>8. HasSchema(l2, n + 1)
  BY <1>3, <1>5, <1>7 DEF HasSchema, MakesSchema
<1>9. HasTable(l2, n + 1)
  BY <1>3, <1>4, <1>6, <1>7 DEF HasTable, MakesTable, Stems
<1>. QED BY <1>8, <1>9 DEF l2

(* create_table.                                                           *)
LEMMA CreateTableKeeps ==
  ASSUME CatalogInv, NEW name \in Names, CreateTable(name)
  PROVE  CatalogInv'
<1> DEFINE mt == Table(ids + 1, name, schema)
           r == Record("create_table", ids + 1, 0, Nothing, mt)
           n == Len(log)
<1>0. Ready /\ schema # 0 /\ TableNamed(name) = {} /\ ids < MaxIds /\ running = NoStatement /\ phase = "up"
  BY DEF CreateTable, Ready
<1>1. ids + 1 \in Id /\ schema \in Id /\ EmptyBag \in Listing /\ DOMAIN EmptyBag = {}
  <2>1. ids + 1 \in Id /\ schema \in Id
    BY <1>0, CatalogAssumption DEF CatalogInv, TypeInv, Id
  <2>2. EmptyBag \in [{} -> Nat] /\ {} \in SUBSET Id
    BY DEF EmptyBag, SetToBag
  <2>. QED BY <2>1, <2>2 DEF Listing
<1>2. /\ mt \in MetaTable /\ mt.id = ids + 1 /\ mt.name = name /\ mt.schema_id = schema
      /\ mt.indexes = EmptyBag
  BY <1>1 DEF Table, MetaTable
<1>. HIDE DEF mt
<1>3. /\ r \in LogRecord /\ r.kind = "create_table" /\ ~r.clr /\ r.txn = ids + 1 /\ r.prev = 0
      /\ r.after = mt
  <2>1. Nothing \in Image /\ mt \in Image /\ "create_table" \in Changes \union Markers
    BY <1>2 DEF Image, Changes
  <2>. QED BY <1>1, <2>1 DEF Record, LogRecord
<1>4. Fits(r)
  BY <1>2, <1>3 DEF Fits, Markers
<1>5. /\ StatementLogs(r) /\ running' # NoStatement /\ disk' = disk /\ schema' = schema
      /\ tables' = [t \in DOMAIN tables \union {mt.id} |-> IF t = mt.id THEN mt ELSE tables[t]]
  BY <1>3, <1>0 DEF StatementLogs, CreateTable, Logged, Ran, Txn, recovery, Changes, NoStatement, mt
<1>. HIDE DEF r
<1>6. /\ Typed(log) /\ n \in Nat /\ running.txn = 0
      /\ \A i \in 1 .. n : log[i].txn \in Id /\ log[i].txn <= ids /\ (Live(log, 0, i) <=> Done(log, i))
  BY <1>0, RecordFields, LiveIsDone DEF CatalogInv, TypeInv, Typed, NoStatement
<1>7. HasSchema(Append(log, r), n + 1)
  <2> DEFINE l2 == Append(log, r)
  <2>1. PICK s \in 1 .. n : Live(log, 0, s) /\ MakesSchema(log, s) /\ log[s].txn = schema
    BY <1>0, <1>6 DEF CatalogInv, CachedInv
  <2>2. Typed(l2) /\ Extended(l2, log, r)
    BY <1>3, <1>4, <1>6, AppendExtends
  <2>3. Done(l2, s) /\ MakesSchema(l2, s) /\ l2[s] = log[s] /\ l2[n + 1] = r
    BY <1>6, <2>1, <2>2, GrowFacts DEF Extended, MakesSchema
  <2>4. s \in 1 .. (n + 1) - 1
    BY <1>6
  <2>. HIDE DEF l2
  <2>5. HasSchema(l2, n + 1)
    BY <1>2, <1>3, <2>1, <2>3, <2>4 DEF HasSchema
  <2>. QED BY <2>5 DEF l2
<1>8. ASSUME NEW j \in 1 .. n, MakesTable(log, j), Done(log, j)
      PROVE  log[j].after.name # r.after.name
  <2>1. log[j].txn \in DOMAIN tables
    BY <1>0, <1>6, <1>8 DEF CatalogInv, CachedInv, MakesTable
  <2>2. PICK k \in 1 .. n : Live(log, 0, k) /\ Stems(tables[log[j].txn], log, k)
    BY <1>0, <1>6, <2>1 DEF CatalogInv, CachedInv
  <2>3. tables[log[j].txn].id = log[j].txn
    BY <1>0, <2>1 DEF CatalogInv, CachedInv
  <2>4. k = j
    BY <1>8, <2>2, <2>3 DEF CatalogInv, LogInv, Once, Stems, MakesTable
  <2>5. tables[log[j].txn].name = log[j].after.name
    BY <2>2, <2>4 DEF Stems
  <2>6. tables[log[j].txn].name # name
    BY <1>0, <2>1 DEF TableNamed
  <2>. QED BY <1>2, <1>3, <2>5, <2>6
<1>9. Grown(r)
  BY <1>3, <1>4, <1>5, <1>7, <1>8, StatementKeeps
<1>10. mt.id \notin DOMAIN tables
  <2>1. ASSUME mt.id \in DOMAIN tables PROVE FALSE
    <3>1. PICK k \in 1 .. n : Stems(tables[mt.id], log, k)
      BY <1>0, <2>1 DEF CatalogInv, CachedInv
    <3>2. tables[mt.id].id = mt.id
      BY <1>0, <2>1 DEF CatalogInv, CachedInv
    <3>3. log[k].txn = ids + 1
      BY <1>2, <3>1, <3>2 DEF Stems
    <3>. QED BY <1>6, <3>3 DEF CatalogInv, TypeInv
  <2>. QED BY <2>1
<1>11. /\ DOMAIN tables' = DOMAIN tables \union {r.txn} /\ tables'[r.txn] = r.after
       /\ \A t \in DOMAIN tables : tables'[t] = tables[t]
  BY <1>2, <1>3, <1>5, <1>10
<1>12. ASSUME NEW t \in DOMAIN tables', ~Spoiled(log', t)
       PROVE  tables'[t].indexes = SetToBag(Made(log', running'.txn, t, n + 1))
  <2>1. Made(log', running'.txn, t, n + 1) = Made(log, running.txn, t, n)
    BY <1>3, <1>4, <1>5, <1>9, MadeAfter
  <2>2. CASE t \in DOMAIN tables
    <3>1. ~Spoiled(log, t)
      BY <1>12, <1>9, SpoiledGrows
    <3>2. tables[t].indexes = SetToBag(Made(log, running.txn, t, n))
      BY <1>0, <2>2, <3>1 DEF CatalogInv, IndexesInv
    <3>. QED BY <1>11, <2>1, <2>2, <3>2
  <2>3. CASE t = r.txn
    <3>1. Made(log, running.txn, t, n) = {}
      <4>1. ASSUME NEW x, Created(log, running.txn, x, t, n) PROVE FALSE
        <5>1. PICK i \in 1 .. n : MakesIndex(log, i) /\ log[i].after.table_id = t
          BY <4>1 DEF Created
        <5>2. HasTable(log, i)
          BY <5>1 DEF CatalogInv, LogInv, TableBefore, MakesIndex
        <5>3. PICK k \in 1 .. i - 1 : TableOf(log[i]) = log[k].txn
          BY <5>2 DEF HasTable
        <5>4. k \in 1 .. n /\ log[k].txn = t
          BY <1>6, <5>1, <5>3 DEF TableOf, MakesIndex
        <5>. QED BY <1>9, <2>3, <5>4 DEF Grown
      <4>. QED BY <4>1 DEF Made
    <3>. QED BY <1>2, <1>3, <1>11, <2>1, <2>3, <3>1 DEF EmptyBag
  <2>. QED BY <1>11, <2>2, <2>3
<1>13. StoredInv' /\ RedoneInv' /\ ListedInv' /\ IndexesInv'
  <2>1. ASSUME NEW t \in DOMAIN tables', NEW x \in DOMAIN tables'[t].indexes
        PROVE  t \in DOMAIN tables /\ x \in DOMAIN tables[t].indexes
    BY <1>1, <1>2, <1>3, <1>11
  <2>. QED BY <1>3, <1>4, <1>5, <1>9, <1>12, <2>1, StatementLeaves
<1>14. FilesInv'
  BY <1>3, <1>4, <1>5, <1>9, StatementFiles
<1>15. CachedInv'
  BY <1>3, <1>4, <1>5, <1>9, <1>11, StatementCached
<1>16. TypeInv'
  <2>1. DOMAIN tables' \subseteq Id /\ \A t \in DOMAIN tables' : tables'[t] \in MetaTable
    BY <1>1, <1>2, <1>3, <1>11 DEF CatalogInv, TypeInv
  <2>. QED BY <1>5, <1>9, <2>1 DEF TypeInv, CatalogInv, Grown, Typed, StatementLogs
<1>. QED BY <1>9, <1>13, <1>14, <1>15, <1>16 DEF CatalogInv, Grown

(* create_index, whether it succeeds or is refused.                        *)
LEMMA CreateIndexKeeps ==
  ASSUME CatalogInv, NEW t \in DOMAIN tables, CreateIndex(t)
  PROVE  CatalogInv'
<1> DEFINE index == Index(ids + 1, t)
           r == Record("create_index", ids + 1, 0, Nothing, index)
           n == Len(log)
<1>0. Ready /\ ids < MaxIds /\ running = NoStatement /\ phase = "up"
  BY DEF CreateIndex, Ready
<1>1. /\ ids + 1 \in Id /\ t \in Id /\ tables[t] \in MetaTable /\ tables[t].id = t
      /\ tables[t].name \in Names /\ tables[t].indexes \in Listing
  <2>1. ids + 1 \in Id
    BY <1>0, CatalogAssumption DEF CatalogInv, TypeInv, Id
  <2>2. t \in Id /\ tables[t] \in MetaTable /\ tables[t].id = t
    BY <1>0, TableKnown
  <2>. QED BY <2>1, <2>2 DEF MetaTable
<1>2. index \in MetaIndex /\ index.id = ids + 1 /\ index.table_id = t
  BY <1>1 DEF Index, MetaIndex
<1>. HIDE DEF index
<1>3. /\ r \in LogRecord /\ r.kind = "create_index" /\ ~r.clr /\ r.txn = ids + 1 /\ r.prev = 0
      /\ r.after = index
  <2>1. Nothing \in Image /\ index \in Image /\ "create_index" \in Changes \union Markers
    BY <1>2 DEF Image, Changes
  <2>. QED BY <1>1, <2>1 DEF Record, LogRecord
<1>4. Fits(r)
  BY <1>2, <1>3 DEF Fits, Markers
<1>5. /\ StatementLogs(r) /\ schema' = schema
      /\ disk' = CreateIndexFile(disk, tables[t].name, index.id)
      /\ \/ /\ running' # NoStatement
            /\ tables' = [tables EXCEPT ![t].indexes = tables[t].indexes (+) SetToBag({index.id})]
         \/ running' = NoStatement /\ tables' = tables
  BY <1>3, <1>0 DEF StatementLogs, CreateIndex, Logged, Ran, Failed, Txn, recovery, Changes, NoStatement, index
<1>. HIDE DEF r
<1>6. TableOf(r) = t
  BY <1>2, <1>3 DEF TableOf
<1>7. HasSchema(Append(log, r), n + 1) /\ HasTable(Append(log, r), n + 1)
  BY <1>0, <1>3, <1>4, <1>6, StatementFollows
<1>8. Grown(r)
  BY <1>3, <1>4, <1>5, <1>7, StatementKeeps
<1>9. /\ disk' \in Files /\ disk'.ok /\ disk'.schema = disk.schema
      /\ \A m \in Names : /\ disk'.dirs[m].meta = disk.dirs[m].meta
                          /\ disk.dirs[m].index_files \subseteq disk'.dirs[m].index_files
      /\ r.txn \in disk'.dirs[tables[t].name].index_files
  <2>1. /\ disk \in Files /\ disk.ok /\ disk.dirs \in [Names -> Dir]
        /\ \A m \in Names : disk.dirs[m] \in Dir
    BY DEF CatalogInv, TypeInv, Files
  <2> DEFINE dir == [disk.dirs[tables[t].name] EXCEPT !.index_files = @ \union {index.id}]
  <2>2. dir \in Dir /\ dir.meta = disk.dirs[tables[t].name].meta
        /\ dir.index_files = disk.dirs[tables[t].name].index_files \union {index.id}
    BY <1>1, <1>2, <2>1 DEF Dir
  <2>3. disk' = [disk EXCEPT !.dirs = [disk.dirs EXCEPT ![tables[t].name] = dir]]
    BY <1>1, <1>5, <2>1 DEF CreateIndexFile, Files
  <2>. HIDE DEF dir
  <2>4. /\ disk'.schema = disk.schema /\ disk'.ok = disk.ok
        /\ disk'.dirs = [disk.dirs EXCEPT ![tables[t].name] = dir]
    BY <2>1, <2>3 DEF Files
  <2>5. disk' \in Files
    BY <1>1, <2>1, <2>2, <2>3 DEF Files
  <2>. QED BY <1>1, <1>2, <1>3, <2>1, <2>2, <2>4, <2>5
<1>10. /\ DOMAIN tables' = DOMAIN tables
       /\ \A s \in DOMAIN tables :
            /\ tables'[s].id = tables[s].id /\ tables'[s].name = tables[s].name
            /\ tables'[s].schema_id = tables[s].schema_id /\ tables'[s] \in MetaTable
            /\ s # t \/ running' = NoStatement => tables'[s] = tables[s]
       /\ running' # NoStatement => tables'[t].indexes = tables[t].indexes (+) SetToBag({r.txn})
  <2>1. \A s \in DOMAIN tables : tables[s] \in MetaTable
    BY DEF CatalogInv, TypeInv
  <2>2. CASE running' = NoStatement /\ tables' = tables
    BY <2>1, <2>2
  <2>3. CASE /\ running' # NoStatement
             /\ tables' = [tables EXCEPT ![t].indexes = tables[t].indexes (+) SetToBag({index.id})]
    <3> DEFINE listing == tables[t].indexes (+) SetToBag({index.id})
               mt == [tables[t] EXCEPT !.indexes = listing]
    <3>1. listing \in Listing
      BY <1>1, <1>2, ListingKept
    <3>2. tables' = [tables EXCEPT ![t] = mt]
      BY <2>3
    <3>. HIDE DEF listing
    <3>3. /\ mt \in MetaTable /\ mt.id = tables[t].id /\ mt.name = tables[t].name
          /\ mt.schema_id = tables[t].schema_id /\ mt.indexes = listing
      BY <1>1, <3>1 DEF MetaTable
    <3>. HIDE DEF mt
    <3>. QED BY <1>2, <1>3, <2>1, <2>3, <3>2, <3>3 DEF listing
  <2>. QED BY <1>5, <2>2, <2>3
<1>11. ASSUME NEW s \in DOMAIN tables', ~Spoiled(log', s)
       PROVE  tables'[s].indexes = SetToBag(Made(log', running'.txn, s, n + 1))
  <2>1. ~Spoiled(log, s) /\ s \in DOMAIN tables
    BY <1>8, <1>10, <1>11, SpoiledGrows
  <2>2. tables[s].indexes = SetToBag(Made(log, running.txn, s, n))
    BY <1>0, <2>1 DEF CatalogInv, IndexesInv
  <2>3. CASE s # t \/ running' = NoStatement
    <3>1. Made(log', running'.txn, s, n + 1) = Made(log, running.txn, s, n)
      BY <1>2, <1>3, <1>4, <1>5, <1>8, <2>3, MadeAfter
    <3>. QED BY <1>10, <2>1, <2>2, <2>3, <3>1
  <2>4. CASE s = t /\ running' # NoStatement
    <3>1. /\ Made(log', running'.txn, t, n + 1) = Made(log, running.txn, t, n) \union {r.txn}
          /\ r.txn \notin Made(log, running.txn, t, n)
      BY <1>2, <1>3, <1>4, <1>5, <1>8, <2>4, MadeAfter
    <3>. QED BY <1>10, <2>2, <2>4, <3>1, AddToBag
  <2>. QED BY <2>3, <2>4
<1>12. ASSUME NEW s \in DOMAIN tables', NEW x \in DOMAIN tables'[s].indexes
       PROVE  \/ s \in DOMAIN tables /\ x \in DOMAIN tables[s].indexes
              \/ Created(log', running'.txn, x, s, n + 1)
  <2>1. CASE s # t \/ running' = NoStatement
    BY <1>10, <1>12, <2>1
  <2>2. CASE s = t /\ running' # NoStatement
    <3>1. x \in DOMAIN tables[t].indexes \union {r.txn}
      <4>1. DOMAIN (tables[t].indexes (+) SetToBag({r.txn})) = DOMAIN tables[t].indexes \union {r.txn}
        BY <1>1, <1>3, ListingKept
      <4>. QED BY <1>10, <1>12, <2>2, <4>1
    <3>2. Created(log', running'.txn, r.txn, t, n + 1)
      <4>1. /\ n + 1 \in 1 .. n + 1 /\ MakesIndex(log', n + 1) /\ Live(log', running'.txn, n + 1)
            /\ log'[n + 1] = r
        BY <1>3, <1>5, <1>8, <2>2 DEF Grown, Extended, MakesIndex, StatementLogs
      <4>. QED BY <1>2, <1>3, <4>1 DEF Created
    <3>. QED BY <1>10, <2>2, <3>1, <3>2
  <2>. QED BY <2>1, <2>2
<1>13. StoredInv' /\ RedoneInv' /\ ListedInv' /\ IndexesInv'
  BY <1>3, <1>4, <1>5, <1>8, <1>9, <1>11, <1>12, StatementLeaves
<1>14. FilesInv'
  <2>1. ASSUME NEW j \in 1 .. n, MakesTable(log, j), log[j].txn = r.after.table_id
        PROVE  r.txn \in disk'.dirs[log[j].after.name].index_files
    <3>1. PICK k \in 1 .. n : Stems(tables[t], log, k)
      BY <1>0, TableKnown
    <3>2. k = j
      BY <1>1, <1>2, <1>3, <2>1, <3>1 DEF CatalogInv, LogInv, Once, Stems, MakesTable
    <3>. QED BY <1>9, <3>1, <3>2 DEF Stems
  <2>. QED BY <1>3, <1>4, <1>5, <1>8, <1>9, <2>1, StatementFiles
<1>15. CachedInv'
  BY <1>3, <1>4, <1>5, <1>8, <1>10, StatementCached
<1>16. TypeInv'
  <2>1. DOMAIN tables' \subseteq Id /\ \A s \in DOMAIN tables' : tables'[s] \in MetaTable
    BY <1>10 DEF CatalogInv, TypeInv
  <2>. QED BY <1>5, <1>8, <1>9, <2>1 DEF TypeInv, CatalogInv, Grown, Typed, StatementLogs
<1>. QED BY <1>8, <1>13, <1>14, <1>15, <1>16 DEF CatalogInv, Grown

(* drop_index.                                                             *)
LEMMA DropIndexKeeps ==
  ASSUME CatalogInv, NEW t \in DOMAIN tables, NEW id \in DOMAIN tables[t].indexes, DropIndex(t, id)
  PROVE  CatalogInv'
<1> DEFINE index == Index(id, t)
           r == Record("drop_index", ids + 1, 0, index, Nothing)
           n == Len(log)
<1>0. Ready /\ ids < MaxIds /\ running = NoStatement /\ phase = "up"
  BY DEF DropIndex, Ready
<1>1. /\ ids + 1 \in Id /\ t \in Id /\ tables[t] \in MetaTable /\ tables[t].id = t
      /\ tables[t].indexes \in Listing /\ id \in Id
  <2>1. ids + 1 \in Id
    BY <1>0, CatalogAssumption DEF CatalogInv, TypeInv, Id
  <2>2. t \in Id /\ tables[t] \in MetaTable /\ tables[t].id = t
    BY <1>0, TableKnown
  <2>3. tables[t].indexes \in Listing
    BY <2>2 DEF MetaTable
  <2>. QED BY <2>1, <2>2, <2>3 DEF Listing
<1>2. index \in MetaIndex /\ index.id = id /\ index.table_id = t
  BY <1>1 DEF Index, MetaIndex
<1>. HIDE DEF index
<1>3. /\ r \in LogRecord /\ r.kind = "drop_index" /\ ~r.clr /\ r.txn = ids + 1 /\ r.prev = 0
      /\ r.before = index
  <2>1. Nothing \in Image /\ index \in Image /\ "drop_index" \in Changes \union Markers
    BY <1>2 DEF Image, Changes
  <2>. QED BY <1>1, <2>1 DEF Record, LogRecord
<1>4. Fits(r)
  BY <1>2, <1>3 DEF Fits, Markers
<1>5. /\ StatementLogs(r) /\ schema' = schema /\ disk' = disk /\ running' # NoStatement
      /\ tables' = [tables EXCEPT ![t].indexes = Without(tables[t].indexes, id)]
  BY <1>3, <1>0 DEF StatementLogs, DropIndex, Logged, Ran, Txn, recovery, Changes, NoStatement, index
<1>. HIDE DEF r
<1>6. TableOf(r) = t
  BY <1>2, <1>3 DEF TableOf
<1>7. HasSchema(Append(log, r), n + 1) /\ HasTable(Append(log, r), n + 1)
  BY <1>0, <1>3, <1>4, <1>6, StatementFollows
<1>8. Grown(r)
  BY <1>3, <1>4, <1>5, <1>7, StatementKeeps
<1>9. /\ DOMAIN tables' = DOMAIN tables
      /\ \A s \in DOMAIN tables :
           /\ tables'[s].id = tables[s].id /\ tables'[s].name = tables[s].name
           /\ tables'[s].schema_id = tables[s].schema_id /\ tables'[s] \in MetaTable
           /\ s # t => tables'[s] = tables[s]
      /\ tables'[t].indexes = Without(tables[t].indexes, id)
  <2>1. \A s \in DOMAIN tables : tables[s] \in MetaTable
    BY DEF CatalogInv, TypeInv
  <2> DEFINE listing == Without(tables[t].indexes, id)
             mt == [tables[t] EXCEPT !.indexes = listing]
  <2>2. listing \in Listing
    BY <1>1, ListingKept
  <2>3. tables' = [tables EXCEPT ![t] = mt]
    BY <1>5
  <2>. HIDE DEF listing
  <2>4. /\ mt \in MetaTable /\ mt.id = tables[t].id /\ mt.name = tables[t].name
        /\ mt.schema_id = tables[t].schema_id /\ mt.indexes = listing
    BY <1>1, <2>2 DEF MetaTable
  <2>. HIDE DEF mt
  <2>. QED BY <2>1, <2>3, <2>4 DEF listing
<1>10. Created(log, running.txn, r.before.id, r.before.table_id, n)
  BY <1>2, <1>3 DEF CatalogInv, ListedInv
<1>11. ASSUME NEW s \in DOMAIN tables', ~Spoiled(log', s)
       PROVE  tables'[s].indexes = SetToBag(Made(log', running'.txn, s, n + 1))
  <2>1. ~Spoiled(log, s) /\ s \in DOMAIN tables
    BY <1>8, <1>9, <1>11, SpoiledGrows
  <2>2. tables[s].indexes = SetToBag(Made(log, running.txn, s, n))
    BY <1>0, <2>1 DEF CatalogInv, IndexesInv
  <2>3. Made(log', running'.txn, s, n + 1) = Made(log, running.txn, s, n) \ {id}
    BY <1>2, <1>3, <1>4, <1>5, <1>8, <1>10, MadeAfter
  <2>4. CASE s = t
    BY <1>9, <2>2, <2>3, <2>4, TakeFromBag
  <2>5. CASE s # t
    <3>1. id \notin Made(log, running.txn, s, n)
      <4>1. ASSUME Created(log, running.txn, id, s, n) PROVE FALSE
        <5>1. PICK i \in 1 .. n : MakesIndex(log, i) /\ log[i].txn = id /\ log[i].after.table_id = s
          BY <4>1 DEF Created
        <5>2. PICK j \in 1 .. n : MakesIndex(log, j) /\ log[j].txn = id /\ log[j].after.table_id = t
          BY <1>2, <1>3, <1>10 DEF Created
        <5>3. i = j
          BY <5>1, <5>2 DEF CatalogInv, LogInv, Once, MakesIndex
        <5>. QED BY <2>5, <5>1, <5>2, <5>3
      <4>. QED BY <4>1 DEF Made
    <3>. QED BY <1>9, <2>1, <2>2, <2>3, <2>5, <3>1
  <2>. QED BY <2>4, <2>5
<1>12. ASSUME NEW s \in DOMAIN tables', NEW x \in DOMAIN tables'[s].indexes
       PROVE  s \in DOMAIN tables /\ x \in DOMAIN tables[s].indexes
  <2>1. DOMAIN Without(tables[t].indexes, id) = DOMAIN tables[t].indexes \ {id}
    BY <1>1, ListingKept
  <2>2. CASE s = t
    BY <1>9, <1>12, <2>1, <2>2
  <2>3. CASE s # t
    BY <1>9, <1>12, <2>3
  <2>. QED BY <2>2, <2>3
<1>13. StoredInv' /\ RedoneInv' /\ ListedInv' /\ IndexesInv'
  BY <1>3, <1>4, <1>5, <1>8, <1>10, <1>11, <1>12, StatementLeaves
<1>14. FilesInv'
  BY <1>3, <1>4, <1>5, <1>8, StatementFiles
<1>15. CachedInv'
  BY <1>3, <1>4, <1>5, <1>8, <1>9, StatementCached
<1>16. TypeInv'
  <2>1. DOMAIN tables' \subseteq Id /\ \A s \in DOMAIN tables' : tables'[s] \in MetaTable
    BY <1>9 DEF CatalogInv, TypeInv
  <2>. QED BY <1>5, <1>8, <2>1 DEF TypeInv, CatalogInv, Grown, Typed, StatementLogs
<1>. QED BY <1>8, <1>13, <1>14, <1>15, <1>16 DEF CatalogInv, Grown

(* insert_row, update_row, delete_row.                                     *)
LEMMA ChangeRowsKeeps ==
  ASSUME CatalogInv, NEW t \in DOMAIN tables, ChangeRows(t)
  PROVE  CatalogInv'
<1> DEFINE mt == [tables[t] EXCEPT !.filled = TRUE]
           r == Record("update_table", ids + 1, 0, tables[t], mt)
           n == Len(log)
<1>0. Ready /\ ids < MaxIds /\ running = NoStatement /\ phase = "up"
  BY DEF ChangeRows, Ready
<1>1. ids + 1 \in Id /\ t \in Id /\ tables[t] \in MetaTable /\ tables[t].id = t
  <2>1. ids + 1 \in Id
    BY <1>0, CatalogAssumption DEF CatalogInv, TypeInv, Id
  <2>. QED BY <1>0, <2>1, TableKnown
<1>2. /\ mt \in MetaTable /\ mt.id = t /\ mt.name = tables[t].name
      /\ mt.schema_id = tables[t].schema_id /\ mt.indexes = tables[t].indexes
  BY <1>1 DEF MetaTable
<1>3. /\ r \in LogRecord /\ r.kind = "update_table" /\ ~r.clr /\ r.txn = ids + 1 /\ r.prev = 0
      /\ r.before = tables[t] /\ r.after = mt
  <2>1. tables[t] \in Image /\ mt \in Image /\ "update_table" \in Changes \union Markers
    BY <1>1, <1>2 DEF Image, Changes
  <2>. HIDE DEF mt
  <2>. QED BY <1>1, <2>1 DEF Record, LogRecord
<1>4. Fits(r)
  BY <1>1, <1>3 DEF Fits, Markers
<1>5. /\ StatementLogs(r) /\ schema' = schema /\ disk' = disk
      /\ tables' = [tables EXCEPT ![t] = mt]
  BY <1>3, <1>0 DEF StatementLogs, ChangeRows, Logged, Ran, Failed, Txn, recovery, Changes
<1>. HIDE DEF r, mt
<1>6. TableOf(r) = t
  BY <1>1, <1>3 DEF TableOf
<1>7. HasSchema(Append(log, r), n + 1) /\ HasTable(Append(log, r), n + 1)
  BY <1>0, <1>3, <1>4, <1>6, StatementFollows
<1>8. Grown(r)
  BY <1>3, <1>4, <1>5, <1>7, StatementKeeps
<1>9. /\ DOMAIN tables' = DOMAIN tables
      /\ \A s \in DOMAIN tables :
           /\ tables'[s].id = tables[s].id /\ tables'[s].name = tables[s].name
           /\ tables'[s].schema_id = tables[s].schema_id /\ tables'[s] \in MetaTable
           /\ tables'[s].indexes = tables[s].indexes
  BY <1>1, <1>2, <1>5 DEF CatalogInv, TypeInv
<1>10. /\ \A x \in DOMAIN r.before.indexes : Created(log, running.txn, x, r.before.id, n)
       /\ ~Spoiled(log, r.before.id) =>
            r.before.indexes = SetToBag(Made(log, running.txn, r.before.id, n))
  BY <1>0, <1>1, <1>3 DEF CatalogInv, ListedInv, IndexesInv
<1>11. ASSUME NEW s \in DOMAIN tables', ~Spoiled(log', s)
       PROVE  tables'[s].indexes = SetToBag(Made(log', running'.txn, s, n + 1))
  <2>1. ~Spoiled(log, s) /\ s \in DOMAIN tables
    BY <1>8, <1>9, <1>11, SpoiledGrows
  <2>2. tables[s].indexes = SetToBag(Made(log, running.txn, s, n))
    BY <1>0, <2>1 DEF CatalogInv, IndexesInv
  <2>3. Made(log', running'.txn, s, n + 1) = Made(log, running.txn, s, n)
    BY <1>3, <1>4, <1>5, <1>8, MadeAfter
  <2>. QED BY <1>9, <2>1, <2>2, <2>3
<1>12. ASSUME NEW s \in DOMAIN tables', NEW x \in DOMAIN tables'[s].indexes
       PROVE  s \in DOMAIN tables /\ x \in DOMAIN tables[s].indexes
  BY <1>9, <1>12
<1>13. StoredInv' /\ RedoneInv' /\ ListedInv' /\ IndexesInv'
  BY <1>3, <1>4, <1>5, <1>8, <1>10, <1>11, <1>12, StatementLeaves
<1>14. FilesInv'
  BY <1>3, <1>4, <1>5, <1>8, StatementFiles
<1>15. CachedInv'
  BY <1>3, <1>4, <1>5, <1>8, <1>9, StatementCached
<1>16. TypeInv'
  <2>1. DOMAIN tables' \subseteq Id /\ \A s \in DOMAIN tables' : tables'[s] \in MetaTable
    BY <1>9 DEF CatalogInv, TypeInv
  <2>. QED BY <1>5, <1>8, <2>1 DEF TypeInv, CatalogInv, Grown, Typed, StatementLogs
<1>. QED BY <1>8, <1>13, <1>14, <1>15, <1>16 DEF CatalogInv, Grown

-----------------------------------------------------------------------------
(* Records that no statement makes: markers and CLRs                       *)

TakesRecord(r) ==
  /\ log' = Append(log, r) /\ (r.clr \/ r.kind \in Markers)
  /\ running'.txn = running.txn /\ phase' = phase /\ phase \in {"up", "undo"}
  /\ phase = "undo" => r.kind # "commit"
  /\ durable' \in Nat /\ durable <= durable'
  /\ disk' = disk /\ schema' = schema /\ tables' = tables
  /\ \A i \in 1 .. Len(log) : Live(log', running.txn, i) <=> Live(log, running.txn, i)

(* What is inside a part of the log is inside a longer one.                *)
LEMMA Within ==
  ASSUME NEW d \in Int, NEW e \in Int, d <= e
  PROVE  d - 1 \in Int /\ d - 1 <= e - 1 /\ \A i \in 1 .. d - 1 : i \in 1 .. e /\ i \in 1 .. e - 1
OBVIOUS

(* Files and catalog have what they need of the longer log.                *)
LEMMA RecordLeaves ==
  ASSUME CatalogInv, NEW r \in LogRecord, Fits(r), TakesRecord(r), LogInv(log')
  PROVE  StoredInv' /\ RedoneInv' /\ CachedInv' /\ ListedInv' /\ IndexesInv' /\ FilesInv'
<1> DEFINE n == Len(log)
           run == running.txn
<1>1. Typed(log) /\ Typed(log') /\ Extended(log', log, r) /\ n \in Nat
  <2>1. Typed(log) /\ n \in Nat
    BY RecordFields DEF CatalogInv, TypeInv, Typed
  <2>2. log' = Append(log, r)
    BY DEF TakesRecord
  <2>. QED BY <2>1, <2>2, AppendExtends
<1>2. /\ Len(log') = n + 1 /\ log'[n + 1] = r /\ \A i \in 1 .. n : log'[i] = log[i]
      /\ running'.txn = run /\ durable \in 0 .. n /\ durable' \in Nat /\ durable <= durable'
      /\ disk' = disk /\ schema' = schema /\ tables' = tables /\ phase' = phase
      /\ phase \in {"up", "undo"}
  BY <1>1 DEF Extended, TakesRecord, CatalogInv, TypeInv
<1>3. /\ \A i \in 1 .. n : Makes(log', i) <=> Makes(log, i)
      /\ \A i \in 1 .. n : Done(log, i) => Done(log', i)
      /\ \A i \in 1 .. n : Live(log', run, i) <=> Live(log, run, i)
      /\ ~Makes(log', n + 1) /\ ~Done(log', n + 1) /\ ~Live(log', run, n + 1)
  BY <1>1, <1>2, GrowFacts DEF TakesRecord, Makes, Done, Live, Changes, Markers
<1>4. phase = "undo" => \A i \in 1 .. n : Done(log', i) <=> Done(log, i)
  BY <1>1, <1>2, GrowFacts DEF TakesRecord
<1>5. /\ \A t : Spoiled(log, t) => Spoiled(log', t)
      /\ \A s : Removed(log, s) => Removed(log', s)
  <2>1. n <= Len(log) /\ n <= Len(log') /\ \A i \in 1 .. Len(log) : log[i].clr => i <= n
    BY <1>1, <1>2
  <2>. QED BY <1>1, <1>2, <2>1, ClrsKept
<1>0. \A i \in 1 .. durable - 1 : i \in 1 .. n /\ i \in 1 .. durable' - 1
  <2>1. n \in Int /\ durable \in Int /\ durable' \in Int /\ durable <= n /\ durable <= durable'
    BY <1>1, <1>2
  <2>. HIDE DEF n
  <2>. QED BY <2>1, Within
<1>. HIDE DEF n, run
<1>6. \A t, p : p \in Int /\ p <= n =>
        /\ \A x : Created(log', run, x, t, p) <=> Created(log, run, x, t, p)
        /\ Made(log', run, t, p) = Made(log, run, t, p)
  <2>1. ASSUME NEW t, NEW p \in Int, p <= n
        PROVE  /\ \A x : Created(log', run, x, t, p) <=> Created(log, run, x, t, p)
               /\ Made(log', run, t, p) = Made(log, run, t, p)
    <3>1. p <= Len(log) /\ \A i \in 1 .. p : i \in 1 .. n
      BY <1>1, <2>1 DEF n
    <3>2. /\ \A i \in 1 .. p : log'[i] = log[i]
          /\ \A i \in 1 .. p : Live(log', run, i) <=> Live(log, run, i)
      BY <1>2, <1>3, <3>1
    <3>3. \A x : Created(log', run, x, t, p) <=> Created(log, run, x, t, p)
      BY <1>1, <3>1, <3>2, MadeKept
    <3>4. Made(log', run, t, p) = Made(log, run, t, p)
      BY <1>1, <3>1, <3>2, MadeKept
    <3>. QED BY <3>3, <3>4
  <2>. QED BY <2>1
<1>7. ASSUME NEW i \in 1 .. n + 1, Makes(log', i)
      PROVE  /\ log'[i].kind = "update_table" =>
                  \A x \in DOMAIN log'[i].before.indexes : Created(log', run, x, log'[i].before.id, i - 1)
             /\ log'[i].kind = "drop_index" =>
                  Created(log', run, log'[i].before.id, log'[i].before.table_id, i - 1)
  <2>1. i \in 1 .. n /\ i - 1 \in Int /\ i - 1 <= n /\ log'[i] = log[i] /\ Makes(log, i)
    BY <1>1, <1>2, <1>3, <1>7
  <2>. QED BY <1>6, <2>1 DEF CatalogInv, ListedInv, n, run
<1>8. \A t : Made(log', run, t, n + 1) = Made(log, run, t, n)
  <2>1. ASSUME NEW t PROVE Made(log', run, t, n + 1) = Made(log, run, t, n)
    <3>1. Once(log') /\ DropsCreated(log', run) /\ n + 1 <= Len(log')
      BY <1>1, <1>2, <1>7 DEF LogInv, DropsCreated, Drops
    <3>2. Made(log', run, t, n + 1) = Made(log', run, t, n)
      BY <1>1, <1>3, <3>1, MadeStep DEF Step
    <3>. QED BY <1>1, <1>6, <3>2
  <2>. QED BY <2>1
<1>9. StoredInv'
  <2>1. ASSUME disk.schema # 0
        PROVE  \E j \in 1 .. durable' - 1 : MakesSchema(log', j) /\ Done(log', j) /\ log'[j].txn = disk.schema
    <3>1. PICK j \in 1 .. durable - 1 : MakesSchema(log, j) /\ Done(log, j) /\ log[j].txn = disk.schema
      BY <2>1 DEF CatalogInv, StoredInv
    <3>2. j \in 1 .. n /\ j \in 1 .. durable' - 1
      BY <1>0
    <3>. QED BY <1>2, <1>3, <3>1, <3>2 DEF MakesSchema
  <2>2. ASSUME NEW m \in Names, disk.dirs[m].meta # NoTable
        PROVE  /\ disk.dirs[m].meta \in MetaTable /\ disk.dirs[m].meta.name = m
               /\ \E j \in 1 .. durable' - 1 : Done(log', j) /\ Stems(disk.dirs[m].meta, log', j)
    <3>1. PICK j \in 1 .. durable - 1 : Done(log, j) /\ Stems(disk.dirs[m].meta, log, j)
      BY <2>2 DEF CatalogInv, StoredInv
    <3>2. j \in 1 .. n /\ j \in 1 .. durable' - 1
      BY <1>0
    <3>3. Done(log', j) /\ Stems(disk.dirs[m].meta, log', j)
      BY <1>2, <1>3, <3>1, <3>2 DEF Stems, MakesTable
    <3>. QED BY <2>2, <3>2, <3>3 DEF CatalogInv, StoredInv
  <2>. QED BY <1>2, <2>1, <2>2 DEF StoredInv
<1>10. RedoneInv'
  <2>1. ASSUME phase = "undo", NEW j \in 1 .. n + 1, Done(log', j)
        PROVE  /\ log'[j].kind = "create_schema" => disk.schema = log'[j].txn
               /\ log'[j].kind = "create_table" => disk.dirs[log'[j].after.name].meta.id = log'[j].txn
    <3>1. j \in 1 .. n /\ Done(log, j) /\ log'[j] = log[j] /\ Upto = n
      BY <1>1, <1>2, <1>3, <1>4, <2>1 DEF Upto, n
    <3>. QED BY <2>1, <3>1 DEF CatalogInv, RedoneInv
  <2>. QED BY <1>2, <2>1 DEF RedoneInv, Upto
<1>11. CachedInv'
  <2>1. CASE phase = "undo"
    BY <1>2, <2>1 DEF CatalogInv, CachedInv
  <2>2. CASE phase = "up"
    <3>1. ASSUME NEW j \in 1 .. n + 1, Live(log', run, j)
          PROVE  /\ log'[j].kind = "create_schema" => schema = log'[j].txn
                 /\ log'[j].kind = "create_table" => log'[j].txn \in DOMAIN tables
      <4>1. j \in 1 .. n /\ Live(log, run, j) /\ log'[j] = log[j]
        BY <1>1, <1>2, <1>3, <3>1
      <4>. QED BY <2>2, <4>1 DEF CatalogInv, CachedInv, n, run
    <3>2. ASSUME schema # 0
          PROVE  \E j \in 1 .. n + 1 : Live(log', run, j) /\ MakesSchema(log', j) /\ log'[j].txn = schema
      <4>1. PICK j \in 1 .. n : Live(log, run, j) /\ MakesSchema(log, j) /\ log[j].txn = schema
        BY <2>2, <3>2 DEF CatalogInv, CachedInv, n, run
      <4>. QED BY <1>1, <1>2, <1>3, <4>1 DEF MakesSchema
    <3>3. ASSUME NEW t \in DOMAIN tables
          PROVE  tables[t].id = t /\ \E j \in 1 .. n + 1 : Live(log', run, j) /\ Stems(tables[t], log', j)
      <4>1. PICK j \in 1 .. n : Live(log, run, j) /\ Stems(tables[t], log, j)
        BY <2>2 DEF CatalogInv, CachedInv, n, run
      <4>2. j \in 1 .. n + 1 /\ Live(log', run, j) /\ Stems(tables[t], log', j)
        BY <1>1, <1>2, <1>3, <4>1 DEF Stems, MakesTable
      <4>. QED BY <2>2, <4>2 DEF CatalogInv, CachedInv
    <3>. QED BY <1>2, <2>2, <3>1, <3>2, <3>3 DEF CachedInv
  <2>. QED BY <1>2, <2>1, <2>2
<1>12. ListedInv'
  <2>1. ASSUME NEW m \in Names, NEW x \in DOMAIN disk.dirs[m].meta.indexes
        PROVE  Created(log', 0, x, disk.dirs[m].meta.id, durable' - 1)
    <3>1. Created(log, 0, x, disk.dirs[m].meta.id, durable - 1)
      BY <2>1 DEF CatalogInv, ListedInv
    <3>2. durable - 1 \in Int /\ durable' - 1 \in Int /\ durable - 1 <= durable' - 1
      <4>1. durable \in Int /\ durable' \in Int /\ durable <= durable' /\ durable' <= durable'
        BY <1>1, <1>2
      <4>2. durable - 1 \in Int /\ durable - 1 <= durable' - 1
        BY <4>1, Within
      <4>3. durable' - 1 \in Int
        BY <4>1, Within
      <4>. QED BY <4>2, <4>3
    <3>3. \A i \in 1 .. durable - 1 : log'[i] = log[i] /\ (Live(log, 0, i) => Live(log', 0, i))
      BY <1>0, <1>2, <1>3 DEF Live
    <3>. QED BY <3>1, <3>2, <3>3, CreatedLater
  <2>2. ASSUME NEW t \in DOMAIN tables, NEW x \in DOMAIN tables[t].indexes
        PROVE  Created(log', run, x, t, n + 1)
    <3>1. Created(log', run, x, t, n)
      BY <1>1, <1>6, <2>2 DEF CatalogInv, ListedInv, n, run
    <3>. QED BY <1>1, <3>1, CreatedLater
  <2>. QED BY <1>2, <1>7, <2>1, <2>2 DEF ListedInv
<1>13. IndexesInv'
  <2>1. ASSUME NEW i \in 1 .. n + 1, Makes(log', i), log'[i].kind = "update_table",
               ~Spoiled(log', log'[i].before.id)
        PROVE  log'[i].before.indexes = SetToBag(Made(log', run, log'[i].before.id, i - 1))
    <3>1. /\ i \in 1 .. n /\ i - 1 \in Int /\ i - 1 <= n /\ log'[i] = log[i] /\ Makes(log, i)
          /\ ~Spoiled(log, log[i].before.id)
      BY <1>1, <1>2, <1>3, <1>5, <2>1
    <3>2. log[i].before.indexes = SetToBag(Made(log, run, log[i].before.id, i - 1))
      BY <2>1, <3>1 DEF CatalogInv, IndexesInv, n, run
    <3>. QED BY <1>6, <3>1, <3>2
  <2>2. ASSUME phase = "undo", NEW j \in 1 .. n + 1, MakesTable(log', j), Done(log', j),
               ~Spoiled(log', log'[j].txn)
        PROVE  disk.dirs[log'[j].after.name].meta.indexes = SetToBag(Made(log', 0, log'[j].txn, n + 1))
    <3>1. /\ j \in 1 .. n /\ Done(log, j) /\ MakesTable(log, j) /\ log'[j] = log[j] /\ Upto = n
          /\ ~Spoiled(log, log[j].txn)
      BY <1>1, <1>2, <1>3, <1>4, <1>5, <2>2 DEF Upto, n, MakesTable
    <3>2. disk.dirs[log[j].after.name].meta.indexes = SetToBag(Made(log, 0, log[j].txn, n))
      BY <2>2, <3>1 DEF CatalogInv, IndexesInv
    <3>3. run = 0
      BY <2>2 DEF CatalogInv, RunningInv, run
    <3>. QED BY <1>8, <3>1, <3>2, <3>3
  <2>3. ASSUME phase = "up", NEW t \in DOMAIN tables, ~Spoiled(log', t)
        PROVE  tables[t].indexes = SetToBag(Made(log', run, t, n + 1))
    <3>1. tables[t].indexes = SetToBag(Made(log, run, t, n))
      BY <1>5, <2>3 DEF CatalogInv, IndexesInv, n, run
    <3>. QED BY <1>8, <3>1
  <2>. QED BY <1>2, <2>1, <2>2, <2>3 DEF IndexesInv, Upto
<1>14. FilesInv'
  <2>1. ASSUME NEW i \in 1 .. n + 1, NEW j \in 1 .. n + 1, MakesIndex(log', i), MakesTable(log', j),
               log'[i].after.table_id = log'[j].txn, ~Removed(log', log'[j].after.name)
        PROVE  log'[i].txn \in disk.dirs[log'[j].after.name].index_files
    <3>1. /\ i \in 1 .. n /\ j \in 1 .. n /\ log'[i] = log[i] /\ log'[j] = log[j]
          /\ MakesIndex(log, i) /\ MakesTable(log, j) /\ ~Removed(log, log[j].after.name)
      BY <1>1, <1>2, <1>3, <1>5, <2>1 DEF MakesIndex, MakesTable
    <3>. QED BY <2>1, <3>1 DEF CatalogInv, FilesInv, n
  <2>. QED BY <1>2, <2>1 DEF FilesInv
<1>. QED BY <1>9, <1>10, <1>11, <1>12, <1>13, <1>14

(* Transaction::commit.                                                    *)
LEMMA CommitKeeps ==
  ASSUME CatalogInv, Commit
  PROVE  CatalogInv'
<1> DEFINE n == Len(log)
           r == Marker("commit", running.txn, n)
<1>0. /\ phase = "up" /\ running.stage = "ran" /\ Typed(log) /\ n \in Nat /\ n > 0
      /\ Makes(log, n) /\ log[n].txn = running.txn /\ running.txn \in Id /\ n \in 1 .. n
  <2>1. phase = "up" /\ running.stage = "ran" /\ Typed(log) /\ n \in Nat
    BY RecordFields DEF Commit, CatalogInv, TypeInv, Typed
  <2>2. n > 0 /\ Makes(log, n) /\ log[n].txn = running.txn
    BY <2>1 DEF CatalogInv, RunningInv
  <2>. QED BY <2>1, <2>2, RecordFields
<1>1. r \in LogRecord /\ Fits(r) /\ r.kind = "commit" /\ ~r.clr /\ r.txn = running.txn
  BY <1>0, MarkerType DEF Markers
<1>2. /\ log' = Append(log, r) /\ running' = [running EXCEPT !.stage = "committing"]
      /\ phase' = phase /\ durable' = durable /\ disk' = disk /\ schema' = schema /\ tables' = tables
      /\ at' = at /\ active' = active /\ undoing' = undoing /\ ids' = ids
  BY DEF Commit, cache, recovery
<1>. HIDE DEF r
<1>3. Typed(log') /\ Extended(log', log, r)
  BY <1>0, <1>1, <1>2, AppendExtends
<1>4. Len(log') = n + 1 /\ log'[n + 1] = r /\ \A i \in 1 .. n : log'[i] = log[i]
  BY <1>3 DEF Extended
<1>5. LogInv(log')
  BY <1>0, <1>1, <1>3, LogTakesCommit DEF CatalogInv
<1>6. /\ running'.txn = running.txn /\ running'.stage = "committing"
      /\ running' \in [txn : 0 .. MaxIds, stage : {"none", "ran", "committing"}]
  BY <1>2 DEF CatalogInv, TypeInv
<1>7. /\ \A i \in 1 .. n : Makes(log', i) <=> Makes(log, i)
      /\ \A i \in 1 .. n : i < n => (Done(log', i) <=> Done(log, i))
      /\ \A i \in 1 .. n : Ended(log, i) => Ended(log', i)
      /\ ~Makes(log', n + 1)
  BY <1>0, <1>1, <1>3, <1>4, GrowFacts DEF Makes, Changes
<1>8. \A i \in 1 .. n : Live(log', running.txn, i) <=> Live(log, running.txn, i)
  BY <1>0, <1>4, <1>7 DEF Live
<1>9. TakesRecord(r)
  BY <1>0, <1>1, <1>2, <1>6, <1>8 DEF TakesRecord, CatalogInv, TypeInv, Markers
<1>10. StoredInv' /\ RedoneInv' /\ CachedInv' /\ ListedInv' /\ IndexesInv' /\ FilesInv'
  BY <1>1, <1>5, <1>9, RecordLeaves
<1>11. DurableInv'
  <2>1. ASSUME NEW i \in 1 .. n + 1, log'[i].kind \in Markers \/ log'[i].clr
        PROVE  i <= durable \/ i = n + 1
    BY <1>0, <1>4, <2>1 DEF CatalogInv, DurableInv
  <2>. QED BY <1>0, <1>2, <1>4, <1>6, <2>1 DEF DurableInv
<1>12. RunningInv'
  <2>1. running.txn # 0 /\ running' # NoStatement
    BY <1>0, <1>6 DEF Id, NoStatement
  <2>. QED BY <1>0, <1>1, <1>2, <1>4, <1>6, <2>1 DEF RunningInv
<1>13. SettledInv'
  <2>1. ASSUME NEW j \in 1 .. n + 1, Makes(log', j), log'[j].kind \in {"create_schema", "create_table"}
        PROVE  Ended(log', j) \/ log'[j].txn = running.txn
    <3>1. j \in 1 .. n /\ Makes(log, j) /\ log'[j] = log[j]
      BY <1>0, <1>4, <1>7, <2>1
    <3>. QED BY <1>0, <1>7, <2>1, <3>1 DEF CatalogInv, SettledInv
  <2>. QED BY <1>4, <1>6, <2>1 DEF SettledInv
<1>14. WalkInv'
  BY <1>0, <1>2 DEF CatalogInv, WalkInv
<1>15. TypeInv'
  <2>1. \A i \in 1 .. n + 1 : log'[i].txn <= ids
    BY <1>0, <1>1, <1>4 DEF CatalogInv, TypeInv
  <2>2. durable \in 0 .. n + 1
    BY <1>0 DEF CatalogInv, TypeInv
  <2>. QED BY <1>2, <1>3, <1>4, <1>6, <2>1, <2>2 DEF CatalogInv, TypeInv, Typed
<1>. QED BY <1>5, <1>10, <1>11, <1>12, <1>13, <1>14, <1>15 DEF CatalogInv

(* wait_for_durable: the statement is done.                                *)
LEMMA LiveBelow ==
  ASSUME CatalogInv
  PROVE  /\ \A j \in 1 .. Len(log) - 1 : Live(log, running.txn, j) <=> Done(log, j)
         /\ running.stage = "committing" =>
              \A j \in 1 .. Len(log) : Live(log, running.txn, j) <=> Done(log, j)
<1>1. Typed(log) /\ Len(log) \in Nat /\ Once(log) /\ CommitNext(log)
  BY RecordFields DEF CatalogInv, TypeInv, Typed, LogInv
<1>2. CASE running.stage = "none"
  <2>1. running.txn = 0
    BY <1>2 DEF CatalogInv, RunningInv
  <2>. QED BY <1>1, <1>2, <2>1, LiveIsDone DEF CatalogInv
<1>3. CASE running.stage = "ran"
  <2>1. Len(log) > 0 /\ Makes(log, Len(log)) /\ log[Len(log)].txn = running.txn
    BY <1>3 DEF CatalogInv, RunningInv
  <2>. QED BY <1>1, <1>3, <2>1 DEF Live, Once
<1>4. CASE running.stage = "committing"
  <2>1. Len(log) \in 1 .. Len(log) /\ log[Len(log)].kind = "commit" /\ log[Len(log)].txn = running.txn
    BY <1>1, <1>4 DEF CatalogInv, RunningInv
  <2>2. ASSUME NEW j \in 1 .. Len(log), Makes(log, j), log[j].txn = running.txn
        PROVE  Done(log, j)
    BY <1>1, <2>1, <2>2, DoneCommitted
  <2>. QED BY <1>1, <2>2 DEF Live
<1>. QED BY <1>2, <1>3, <1>4 DEF CatalogInv, TypeInv

(* wait_for_durable returns: the statement is over.                        *)
LEMMA FlushedKeeps ==
  ASSUME CatalogInv, Flushed
  PROVE  CatalogInv'
<1> DEFINE n == Len(log)
           run == running.txn
<1>1. /\ phase = "up" /\ running.stage = "committing" /\ Typed(log) /\ n \in Nat /\ durable \in 0 .. n
      /\ durable' = n /\ running' = NoStatement /\ phase' = phase /\ log' = log /\ disk' = disk
      /\ schema' = schema /\ tables' = tables /\ at' = at /\ active' = active /\ undoing' = undoing
      /\ ids' = ids
  BY RecordFields DEF CatalogInv, TypeInv, Typed, Flushed, cache, recovery
<1>2. running'.txn = 0 /\ running'.stage = "none"
  BY <1>1 DEF NoStatement
<1>3. /\ \A j \in 1 .. n : Live(log, run, j) <=> Done(log, j)
      /\ \A j \in 1 .. n : Live(log, 0, j) <=> Live(log, run, j)
  BY <1>1, LiveBelow, LiveIsDone DEF CatalogInv
<1>4. \A t, p : p \in Int /\ p <= n =>
        /\ \A x : Created(log, 0, x, t, p) <=> Created(log, run, x, t, p)
        /\ Made(log, 0, t, p) = Made(log, run, t, p)
  <2>1. ASSUME NEW t, NEW p \in Int, p <= n
        PROVE  /\ \A x : Created(log, 0, x, t, p) <=> Created(log, run, x, t, p)
               /\ Made(log, 0, t, p) = Made(log, run, t, p)
    <3>1. p <= Len(log) /\ \A i \in 1 .. p : Live(log, 0, i) <=> Live(log, run, i)
      BY <1>1, <1>3, <2>1
    <3>. HIDE DEF run
    <3>2. \A x : Created(log, 0, x, t, p) <=> Created(log, run, x, t, p)
      BY <1>1, <2>1, <3>1, MadeKept
    <3>3. Made(log, 0, t, p) = Made(log, run, t, p)
      BY <1>1, <2>1, <3>1, MadeKept
    <3>. QED BY <3>2, <3>3
  <2>. QED BY <2>1
<1>5. TypeInv'
  <2>1. running' \in [txn : 0 .. MaxIds, stage : {"none", "ran", "committing"}]
    BY <1>1, CatalogAssumption DEF NoStatement
  <2>. QED BY <1>1, <2>1 DEF CatalogInv, TypeInv
<1>6. DurableInv' /\ LogInv(log') /\ WalkInv'
  BY <1>1 DEF CatalogInv, DurableInv, WalkInv
<1>7. RunningInv'
  BY <1>1, <1>2 DEF RunningInv
<1>8. SettledInv'
  <2>1. ASSUME NEW j \in 1 .. n, Makes(log, j), log[j].kind \in {"create_schema", "create_table"}
        PROVE  Ended(log, j)
    BY <1>1, <1>3, <2>1 DEF CatalogInv, SettledInv, Live, Ended
  <2>. QED BY <1>1, <2>1 DEF SettledInv
<1>9. \A j \in 1 .. durable - 1 : j \in 1 .. n /\ j \in 1 .. n - 1
  <2>1. durable \in Int /\ n \in Int /\ durable <= n
    BY <1>1
  <2>. QED BY <2>1, Within
<1>10. StoredInv'
  BY <1>1, <1>9 DEF CatalogInv, StoredInv
<1>11. RedoneInv'
  BY <1>1 DEF RedoneInv
<1>12. CachedInv'
  BY <1>1, <1>2, <1>3 DEF CatalogInv, CachedInv
<1>13. ListedInv'
  <2>1. ASSUME NEW i \in 1 .. n, Makes(log, i)
        PROVE  /\ log[i].kind = "update_table" =>
                    \A x \in DOMAIN log[i].before.indexes : Created(log, 0, x, log[i].before.id, i - 1)
               /\ log[i].kind = "drop_index" =>
                    Created(log, 0, log[i].before.id, log[i].before.table_id, i - 1)
    <3>1. i - 1 \in Int /\ i - 1 <= n
      BY <1>1
    <3>. QED BY <1>4, <2>1, <3>1 DEF CatalogInv, ListedInv
  <2>2. ASSUME NEW m \in Names, NEW x \in DOMAIN disk.dirs[m].meta.indexes
        PROVE  Created(log, 0, x, disk.dirs[m].meta.id, n - 1)
    <3>1. Created(log, 0, x, disk.dirs[m].meta.id, durable - 1)
      BY <2>2 DEF CatalogInv, ListedInv
    <3>2. durable - 1 \in Int /\ n - 1 \in Int /\ durable - 1 <= n - 1
      BY <1>1
    <3>. QED BY <3>1, <3>2, CreatedLater
  <2>3. ASSUME NEW t \in DOMAIN tables, NEW x \in DOMAIN tables[t].indexes
        PROVE  Created(log, 0, x, t, n)
    <3>1. n \in Int /\ n <= n
      BY <1>1
    <3>. QED BY <1>4, <3>1 DEF CatalogInv, ListedInv
  <2>. QED BY <1>1, <1>2, <2>1, <2>2, <2>3 DEF ListedInv
<1>14. IndexesInv'
  <2>1. ASSUME NEW i \in 1 .. n, Makes(log, i), log[i].kind = "update_table", ~Spoiled(log, log[i].before.id)
        PROVE  log[i].before.indexes = SetToBag(Made(log, 0, log[i].before.id, i - 1))
    <3>1. i - 1 \in Int /\ i - 1 <= n
      BY <1>1
    <3>. QED BY <1>4, <2>1, <3>1 DEF CatalogInv, IndexesInv
  <2>2. ASSUME NEW t \in DOMAIN tables, ~Spoiled(log, t)
        PROVE  tables[t].indexes = SetToBag(Made(log, 0, t, n))
    <3>1. n \in Int /\ n <= n
      BY <1>1
    <3>. QED BY <1>1, <1>4, <2>2, <3>1 DEF CatalogInv, IndexesInv
  <2>. QED BY <1>1, <1>2, <2>1, <2>2 DEF IndexesInv
<1>15. FilesInv'
  BY <1>1 DEF CatalogInv, FilesInv
<1>. QED BY <1>5, <1>6, <1>7, <1>8, <1>10, <1>11, <1>12, <1>13, <1>14, <1>15 DEF CatalogInv

-----------------------------------------------------------------------------
(* Crash and close: the log is cut                                         *)

Stops(k) ==
  /\ k \in durable .. Len(log) /\ (k = durable \/ running.stage = "committing")
  /\ log' = SubSeq(log, 1, k) /\ durable' = k /\ ids' = ids
  /\ phase' = "down" /\ schema' = 0 /\ tables' = << >> /\ running' = NoStatement
  /\ at' \in Nat /\ undoing' = NotUndoing

(* what is left of the log                                                 *)
CutTo(k) ==
  /\ Typed(log) /\ Typed(log') /\ Len(log) \in Nat /\ k \in Nat /\ durable \in Nat
  /\ durable <= k /\ k <= Len(log)
  /\ Len(log') = k /\ \A i \in 1 .. k : i \in 1 .. Len(log) /\ log'[i] = log[i]
  /\ \A i \in 1 .. k : Makes(log', i) <=> Makes(log, i)
  /\ \A i \in 1 .. k - 1 : Done(log', i) <=> Done(log, i)
  /\ \A i \in 1 .. k - 1 : Live(log', 0, i) <=> Live(log, running.txn, i)
  /\ \A i \in 1 .. k - 1 : Live(log', 0, i) <=> Live(log, 0, i)
  /\ \A i \in 1 .. Len(log) : log[i].clr \/ log[i].kind = "rollback" => i <= k

(* The part that is lost has no CLR, no rollback and nothing that is done. *)
LEMMA WhatIsCut ==
  ASSUME CatalogInv, NEW k, Stops(k)
  PROVE  CutTo(k) /\ LogInv(log')
<1> DEFINE n == Len(log)
<1>1. Typed(log) /\ n \in Nat /\ durable \in Nat /\ k \in 0 .. n /\ durable <= k
  BY RecordFields DEF CatalogInv, TypeInv, Typed, Stops
<1>2. Typed(log') /\ Part(log', log) /\ Len(log') = k
  BY <1>1, CutIsPart DEF Stops
<1>3. \A i \in 1 .. n : log[i].clr \/ log[i].kind = "rollback" => i <= k
  <2>1. ASSUME NEW i \in 1 .. n, log[i].clr \/ log[i].kind = "rollback"
        PROVE  i <= durable
    <3>1. i <= durable \/ (i = n /\ running.stage = "committing")
      BY <2>1 DEF CatalogInv, DurableInv, Markers
    <3>2. running.stage = "committing" => log[n].kind = "commit"
      BY DEF CatalogInv, RunningInv
    <3>3. log[i].kind = "commit" => ~log[i].clr
      BY <1>1, RecordFields DEF Fits, Markers
    <3>. QED BY <2>1, <3>1, <3>2, <3>3
  <2>. QED BY <1>1, <2>1
<1>4. LogInv(log')
  BY <1>1, <1>2, <1>3, LogCut DEF CatalogInv
<1>5. /\ \A i \in 1 .. k : i \in 1 .. n /\ log'[i] = log[i]
      /\ \A i \in 1 .. k : Makes(log', i) <=> Makes(log, i)
      /\ \A i \in 1 .. k - 1 : Done(log', i) <=> Done(log, i)
  <2>1. \A i \in 1 .. k - 1 : i \in 1 .. k /\ i < k
    BY <1>1
  <2>. QED BY <1>1, <1>2, <2>1, CutFacts DEF Part
<1>6. \A i \in 1 .. k - 1 : i \in 1 .. n - 1 /\ i \in 1 .. n /\ i \in 1 .. k
  BY <1>1
<1>7. /\ \A i \in 1 .. k - 1 : Live(log', 0, i) <=> Done(log', i)
      /\ \A i \in 1 .. k - 1 : Live(log, 0, i) <=> Done(log, i)
      /\ \A i \in 1 .. k - 1 : Live(log, running.txn, i) <=> Done(log, i)
  <2>1. \A i \in 1 .. k - 1 : log'[i].txn # 0
    BY <1>2, <1>6, RecordFields DEF Id
  <2>2. \A i \in 1 .. k - 1 : Live(log', 0, i) <=> Done(log', i)
    BY <2>1 DEF Live
  <2>. QED BY <1>6, <2>2, LiveBelow, LiveIsDone DEF CatalogInv
<1>8. \A i \in 1 .. k - 1 : Live(log', 0, i) <=> Live(log, running.txn, i)
  BY <1>5, <1>7
<1>9. \A i \in 1 .. k - 1 : Live(log', 0, i) <=> Live(log, 0, i)
  BY <1>5, <1>7
<1>. QED BY <1>1, <1>2, <1>3, <1>4, <1>5, <1>8, <1>9 DEF CutTo

(* What is left is enough for the metadata files.                          *)
LEMMA CutKeeps ==
  ASSUME CatalogInv, NEW k, Stops(k), disk' \in Files, disk'.ok, StoredInv',
         \A m \in Names : disk'.dirs[m].index_files = disk.dirs[m].index_files,
         \A m \in Names : \A x \in DOMAIN disk'.dirs[m].meta.indexes :
           Created(log', 0, x, disk'.dirs[m].meta.id, durable' - 1)
  PROVE  CatalogInv'
<1> DEFINE n == Len(log)
           run == running.txn
<1>1. CutTo(k) /\ LogInv(log')
  BY WhatIsCut
<1>2. /\ Typed(log) /\ Typed(log') /\ n \in Nat /\ k \in Nat /\ k <= n /\ Len(log') = k
      /\ \A i \in 1 .. k : i \in 1 .. n /\ log'[i] = log[i]
      /\ \A i \in 1 .. k : Makes(log', i) <=> Makes(log, i)
      /\ \A i \in 1 .. k - 1 : Live(log', 0, i) <=> Live(log, run, i)
      /\ \A i \in 1 .. n : log[i].clr => i <= k
  BY <1>1 DEF CutTo
<1>3. /\ durable' = k /\ ids' = ids /\ phase' = "down" /\ schema' = 0 /\ DOMAIN tables' = {}
      /\ running' = NoStatement /\ running'.txn = 0 /\ running'.stage = "none"
      /\ at' \in Nat /\ undoing' = NotUndoing
  BY DEF Stops, NoStatement
<1>4. TypeInv'
  <2>1. /\ running' \in [txn : 0 .. MaxIds, stage : {"none", "ran", "committing"}]
        /\ undoing' \in [txn : 0 .. MaxIds, logged : BOOLEAN] /\ 0 \in 0 .. MaxIds
    BY <1>3, CatalogAssumption DEF NoStatement, NotUndoing
  <2>2. \A i \in 1 .. k : log'[i].txn <= ids
    BY <1>2 DEF CatalogInv, TypeInv
  <2>3. k \in 0 .. k
    BY <1>2
  <2>. QED BY <1>2, <1>3, <2>1, <2>2, <2>3 DEF CatalogInv, TypeInv, Typed
<1>5. DurableInv'
  BY <1>2, <1>3 DEF DurableInv
<1>6. RunningInv' /\ SettledInv' /\ WalkInv' /\ RedoneInv' /\ CachedInv'
  BY <1>3 DEF RunningInv, SettledInv, WalkInv, RedoneInv, CachedInv
<1>7. /\ \A t : Spoiled(log, t) => Spoiled(log', t)
      /\ \A s : Removed(log, s) => Removed(log', s)
  <2>1. k <= Len(log')
    BY <1>2
  <2>. QED BY <1>2, <2>1, ClrsKept
<1>8. \A t, p : p \in Int /\ p <= k - 1 =>
        /\ \A x : Created(log', 0, x, t, p) <=> Created(log, run, x, t, p)
        /\ Made(log', 0, t, p) = Made(log, run, t, p)
  <2>1. ASSUME NEW t, NEW p \in Int, p <= k - 1
        PROVE  /\ \A x : Created(log', 0, x, t, p) <=> Created(log, run, x, t, p)
               /\ Made(log', 0, t, p) = Made(log, run, t, p)
    <3>1. p <= Len(log) /\ \A i \in 1 .. p : i \in 1 .. k - 1 /\ i \in 1 .. k
      BY <1>2, <2>1
    <3>2. /\ \A i \in 1 .. p : log'[i] = log[i]
          /\ \A i \in 1 .. p : Live(log', 0, i) <=> Live(log, run, i)
      BY <1>2, <3>1
    <3>. HIDE DEF run, n
    <3>3. \A x : Created(log', 0, x, t, p) <=> Created(log, run, x, t, p)
      BY <1>2, <3>1, <3>2, MadeKept
    <3>4. Made(log', 0, t, p) = Made(log, run, t, p)
      BY <1>2, <3>1, <3>2, MadeKept
    <3>. QED BY <3>3, <3>4
  <2>. QED BY <2>1
<1>9. \A i \in 1 .. k : i - 1 \in Int /\ i - 1 <= k - 1
  BY <1>2
<1>10. ListedInv'
  <2>1. ASSUME NEW i \in 1 .. k, Makes(log', i)
        PROVE  /\ log'[i].kind = "update_table" =>
                    \A x \in DOMAIN log'[i].before.indexes : Created(log', 0, x, log'[i].before.id, i - 1)
               /\ log'[i].kind = "drop_index" =>
                    Created(log', 0, log'[i].before.id, log'[i].before.table_id, i - 1)
    <3>1. i \in 1 .. n /\ log'[i] = log[i] /\ Makes(log, i)
      BY <1>2, <2>1
    <3>. QED BY <1>8, <1>9, <2>1, <3>1 DEF CatalogInv, ListedInv
  <2>. QED BY <1>2, <1>3, <2>1 DEF ListedInv
<1>11. IndexesInv'
  <2>1. ASSUME NEW i \in 1 .. k, Makes(log', i), log'[i].kind = "update_table",
               ~Spoiled(log', log'[i].before.id)
        PROVE  log'[i].before.indexes = SetToBag(Made(log', 0, log'[i].before.id, i - 1))
    <3>1. i \in 1 .. n /\ log'[i] = log[i] /\ Makes(log, i) /\ ~Spoiled(log, log[i].before.id)
      BY <1>2, <1>7, <2>1
    <3>2. log[i].before.indexes = SetToBag(Made(log, run, log[i].before.id, i - 1))
      BY <2>1, <3>1 DEF CatalogInv, IndexesInv
    <3>. QED BY <1>8, <1>9, <2>1, <3>1, <3>2
  <2>. QED BY <1>2, <1>3, <2>1 DEF IndexesInv
<1>12. FilesInv'
  <2>1. ASSUME NEW i \in 1 .. k, NEW j \in 1 .. k, MakesIndex(log', i), MakesTable(log', j),
               log'[i].after.table_id = log'[j].txn, ~Removed(log', log'[j].after.name)
        PROVE  log'[i].txn \in disk'.dirs[log'[j].after.name].index_files
    <3>1. /\ i \in 1 .. n /\ j \in 1 .. n /\ log'[i] = log[i] /\ log'[j] = log[j]
          /\ MakesIndex(log, i) /\ MakesTable(log, j) /\ ~Removed(log, log[j].after.name)
      BY <1>2, <1>7, <2>1 DEF MakesIndex, MakesTable
    <3>2. log[j].after.name \in Names
      BY <1>2, <3>1, RecordFields DEF MakesTable, Fits, MetaTable
    <3>. QED BY <2>1, <3>1, <3>2 DEF CatalogInv, FilesInv
  <2>. QED BY <1>2, <2>1 DEF FilesInv
<1>. QED BY <1>1, <1>4, <1>5, <1>6, <1>10, <1>11, <1>12 DEF CatalogInv

(* A crash leaves the files as they are.                                   *)
LEMMA CrashKeeps ==
  ASSUME CatalogInv, Crash
  PROVE  CatalogInv'
<1>1. PICK k \in (IF running.stage = "committing" THEN durable .. Len(log) ELSE {durable}) :
        log' = SubSeq(log, 1, k) /\ durable' = k
  BY DEF Crash
<1>2. Stops(k) /\ disk' = disk
  <2>1. durable \in 0 .. Len(log) /\ Len(log) \in Nat
    BY RecordFields DEF CatalogInv, TypeInv, Typed
  <2>2. k \in durable .. Len(log) /\ (k = durable \/ running.stage = "committing")
    BY <1>1, <2>1
  <2>. QED BY <1>1, <2>2 DEF Stops, Crash
<1>3. CutTo(k) /\ durable' = k
  BY <1>2, WhatIsCut DEF Stops
<1>4. /\ \A j \in 1 .. durable - 1 : j \in 1 .. k /\ j \in 1 .. k - 1
      /\ durable - 1 \in Int /\ k - 1 \in Int /\ durable - 1 <= k - 1
  BY <1>3 DEF CutTo
<1>5. \A j \in 1 .. durable - 1 :
        log'[j] = log[j] /\ (Makes(log', j) <=> Makes(log, j)) /\ (Done(log', j) <=> Done(log, j))
          /\ (Live(log, 0, j) => Live(log', 0, j))
  BY <1>3, <1>4 DEF CutTo
<1>6. StoredInv'
  <2>1. ASSUME disk.schema # 0
        PROVE  \E j \in 1 .. k - 1 : MakesSchema(log', j) /\ Done(log', j) /\ log'[j].txn = disk.schema
    <3>1. PICK j \in 1 .. durable - 1 : MakesSchema(log, j) /\ Done(log, j) /\ log[j].txn = disk.schema
      BY <2>1 DEF CatalogInv, StoredInv
    <3>. QED BY <1>4, <1>5, <3>1 DEF MakesSchema
  <2>2. ASSUME NEW m \in Names, disk.dirs[m].meta # NoTable
        PROVE  /\ disk.dirs[m].meta \in MetaTable /\ disk.dirs[m].meta.name = m
               /\ \E j \in 1 .. k - 1 : Done(log', j) /\ Stems(disk.dirs[m].meta, log', j)
    <3>1. PICK j \in 1 .. durable - 1 : Done(log, j) /\ Stems(disk.dirs[m].meta, log, j)
      BY <2>2 DEF CatalogInv, StoredInv
    <3>2. j \in 1 .. k - 1 /\ Done(log', j) /\ Stems(disk.dirs[m].meta, log', j)
      BY <1>4, <1>5, <3>1 DEF Stems, MakesTable
    <3>. QED BY <2>2, <3>2 DEF CatalogInv, StoredInv
  <2>. QED BY <1>2, <1>3, <2>1, <2>2 DEF StoredInv
<1>7. ASSUME NEW m \in Names, NEW x \in DOMAIN disk.dirs[m].meta.indexes
      PROVE  Created(log', 0, x, disk.dirs[m].meta.id, k - 1)
  <2>1. Created(log, 0, x, disk.dirs[m].meta.id, durable - 1)
    BY <1>7 DEF CatalogInv, ListedInv
  <2>. QED BY <1>4, <1>5, <2>1, CreatedLater
<1>. QED BY <1>2, <1>3, <1>6, <1>7, CutKeeps DEF CatalogInv, TypeInv

(* ~StdDbInstance: the catalog is written, and it is durable.              *)
(* A kill inside it leaves only the tables of S written.                   *)
LEMMA ClosingKeeps ==
  ASSUME CatalogInv, NEW S \in SUBSET Writable, Closing(S)
  PROVE  /\ CatalogInv' /\ disk'.schema = schema /\ schema # 0 /\ phase' = "down"
         /\ \A m \in S : disk'.dirs[m].meta # NoTable
<1> DEFINE n == Len(log)
<1>1. /\ phase = "up" /\ running = NoStatement /\ running.txn = 0 /\ running.stage = "none" /\ schema # 0
      /\ schema \in 0 .. MaxIds /\ disk' = SaveTables(WriteMs(disk, schema), S)
      /\ n \in Nat /\ durable \in 0 .. n /\ Typed(log)
  BY RecordFields DEF Closing, NoStatement, CatalogInv, TypeInv, Typed
<1>2. Stops(durable)
  BY <1>1 DEF Closing, Stops, recovery, CatalogInv, WalkInv, TypeInv
<1>3. CutTo(durable) /\ durable' = durable
  BY <1>2, WhatIsCut DEF Stops
<1>4. ASSUME NEW j \in 1 .. n, Live(log, 0, j)
      PROVE  /\ j \in 1 .. durable - 1 /\ log'[j] = log[j] /\ Done(log', j) /\ Live(log', 0, j)
             /\ Makes(log', j) <=> Makes(log, j)
  <2>1. Done(log, j)
    BY <1>4, LiveIsDone DEF CatalogInv
  <2>2. j + 1 \in 1 .. n /\ log[j + 1].kind = "commit"
    BY <1>1, <2>1 DEF Done
  <2>3. j + 1 <= durable
    BY <1>1, <2>2 DEF CatalogInv, DurableInv, Markers
  <2>4. j \in 1 .. durable - 1 /\ j \in 1 .. durable
    BY <1>1, <2>3
  <2>. QED BY <1>3, <1>4, <2>1, <2>4 DEF CutTo
<1>5. /\ disk' \in Files /\ disk'.ok /\ disk'.schema = schema
      /\ \A m \in Names : disk'.dirs[m].index_files = disk.dirs[m].index_files
      /\ \A m \in Names :
           \/ disk'.dirs[m].meta = disk.dirs[m].meta
           \/ \E t \in DOMAIN tables : tables[t].name = m /\ disk'.dirs[m].meta = tables[t]
      /\ \A m \in S : \E t \in DOMAIN tables : disk'.dirs[m].meta = tables[t]
  <2> DEFINE d == WriteMs(disk, schema)
             New(m) == IF m \in S THEN [d.dirs[m] EXCEPT !.meta = tables[CHOOSE t \in Named(m) : TRUE]]
                       ELSE d.dirs[m]
  <2>1. /\ disk \in Files /\ disk.ok /\ disk.dirs \in [Names -> Dir]
        /\ \A t \in DOMAIN tables : tables[t] \in MetaTable
    BY DEF CatalogInv, TypeInv, Files
  <2>2. d \in Files /\ d.ok /\ d.schema = schema /\ d.dirs = disk.dirs
    BY <1>1, <2>1 DEF WriteMs, Files
  <2>3. disk' = [d EXCEPT !.dirs = [m \in Names |-> New(m)]]
    BY <1>1 DEF SaveTables
  <2>. HIDE DEF d
  <2>4. ASSUME NEW m \in Names
        PROVE  /\ New(m) \in Dir /\ New(m).index_files = disk.dirs[m].index_files
               /\ \/ New(m).meta = disk.dirs[m].meta
                  \/ \E t \in DOMAIN tables : tables[t].name = m /\ New(m).meta = tables[t]
               /\ m \in S => \E t \in DOMAIN tables : New(m).meta = tables[t]
    <3>1. d.dirs[m] \in Dir
      BY <2>1, <2>2
    <3>2. CASE m \notin S
      BY <2>2, <3>1, <3>2
    <3>3. CASE m \in S
      <4> DEFINE t == CHOOSE t \in Named(m) : TRUE
      <4>1. t \in Named(m)
        BY <3>3 DEF Writable
      <4>. HIDE DEF t
      <4>2. t \in DOMAIN tables /\ tables[t].name = m
        BY <4>1 DEF Named, TableNamed
      <4>3. New(m) = [d.dirs[m] EXCEPT !.meta = tables[t]]
        BY <3>3 DEF t
      <4>4. New(m) \in Dir /\ New(m).index_files = d.dirs[m].index_files /\ New(m).meta = tables[t]
        BY <2>1, <3>1, <4>2, <4>3 DEF Dir
      <4>. QED BY <2>2, <4>2, <4>4
    <3>. QED BY <3>2, <3>3
  <2>. HIDE DEF New
  <2>5. disk'.dirs = [m \in Names |-> New(m)] /\ disk'.ok = d.ok /\ disk'.schema = d.schema
    BY <2>2, <2>3 DEF Files
  <2>6. disk' \in Files
    BY <2>2, <2>3, <2>4 DEF Files
  <2>7. S \subseteq Names
    BY DEF Writable
  <2>. QED BY <2>2, <2>4, <2>5, <2>6, <2>7
<1>6. \A j \in 1 .. durable - 1 :
        log'[j] = log[j] /\ (Makes(log', j) <=> Makes(log, j)) /\ (Done(log', j) <=> Done(log, j))
          /\ (Live(log, 0, j) => Live(log', 0, j))
  <2>1. \A j \in 1 .. durable - 1 : j \in 1 .. durable
    BY <1>1
  <2>. QED BY <1>3, <2>1 DEF CutTo
<1>7. ASSUME NEW t \in DOMAIN tables
      PROVE  /\ tables[t] \in MetaTable /\ tables[t].id = t
             /\ \E j \in 1 .. durable - 1 : Done(log', j) /\ Stems(tables[t], log', j)
             /\ \A x \in DOMAIN tables[t].indexes : Created(log', 0, x, t, durable - 1)
  <2>1. tables[t] \in MetaTable /\ tables[t].id = t
    BY <1>1 DEF CatalogInv, TypeInv, CachedInv
  <2>2. \E j \in 1 .. durable - 1 : Done(log', j) /\ Stems(tables[t], log', j)
    <3>1. PICK j \in 1 .. n : Live(log, 0, j) /\ Stems(tables[t], log, j)
      BY <1>1 DEF CatalogInv, CachedInv
    <3>. QED BY <1>4, <3>1 DEF Stems, MakesTable
  <2>3. ASSUME NEW x \in DOMAIN tables[t].indexes PROVE Created(log', 0, x, t, durable - 1)
    <3>1. Created(log, 0, x, t, n)
      BY <1>1, <2>3 DEF CatalogInv, ListedInv
    <3>2. PICK j \in 1 .. n : MakesIndex(log, j) /\ Live(log, 0, j) /\ log[j].txn = x /\ log[j].after.table_id = t
      BY <3>1 DEF Created
    <3>. QED BY <1>4, <3>2 DEF Created, MakesIndex
  <2>. QED BY <2>1, <2>2, <2>3
<1>8. StoredInv'
  <2>1. \E j \in 1 .. durable - 1 : MakesSchema(log', j) /\ Done(log', j) /\ log'[j].txn = schema
    <3>1. PICK j \in 1 .. n : Live(log, 0, j) /\ MakesSchema(log, j) /\ log[j].txn = schema
      BY <1>1 DEF CatalogInv, CachedInv
    <3>. QED BY <1>4, <3>1 DEF MakesSchema
  <2>2. ASSUME NEW m \in Names, disk'.dirs[m].meta # NoTable
        PROVE  /\ disk'.dirs[m].meta \in MetaTable /\ disk'.dirs[m].meta.name = m
               /\ \E j \in 1 .. durable - 1 : Done(log', j) /\ Stems(disk'.dirs[m].meta, log', j)
    <3>1. CASE disk'.dirs[m].meta = disk.dirs[m].meta
      <4>1. PICK j \in 1 .. durable - 1 : Done(log, j) /\ Stems(disk.dirs[m].meta, log, j)
        BY <2>2, <3>1 DEF CatalogInv, StoredInv
      <4>2. Done(log', j) /\ Stems(disk.dirs[m].meta, log', j)
        BY <1>6, <4>1 DEF Stems, MakesTable
      <4>. QED BY <2>2, <3>1, <4>2 DEF CatalogInv, StoredInv
    <3>2. CASE \E t \in DOMAIN tables : tables[t].name = m /\ disk'.dirs[m].meta = tables[t]
      <4>1. PICK t \in DOMAIN tables : tables[t].name = m /\ disk'.dirs[m].meta = tables[t]
        BY <3>2
      <4>. QED BY <1>7, <4>1
    <3>. QED BY <1>5, <3>1, <3>2
  <2>. QED BY <1>3, <1>5, <2>1, <2>2 DEF StoredInv
<1>9. ASSUME NEW m \in Names, NEW x \in DOMAIN disk'.dirs[m].meta.indexes
      PROVE  Created(log', 0, x, disk'.dirs[m].meta.id, durable - 1)
  <2>1. CASE disk'.dirs[m].meta = disk.dirs[m].meta
    <3>1. Created(log, 0, x, disk.dirs[m].meta.id, durable - 1)
      BY <1>9, <2>1 DEF CatalogInv, ListedInv
    <3>2. durable - 1 \in Int /\ durable - 1 <= durable - 1
      BY <1>1
    <3>. QED BY <1>6, <2>1, <3>1, <3>2, CreatedLater
  <2>2. CASE \E t \in DOMAIN tables : tables[t].name = m /\ disk'.dirs[m].meta = tables[t]
    <3>1. PICK t \in DOMAIN tables : tables[t].name = m /\ disk'.dirs[m].meta = tables[t]
      BY <2>2
    <3>. QED BY <1>7, <1>9, <3>1
  <2>. QED BY <1>5, <2>1, <2>2
<1>10. ASSUME NEW m \in S PROVE disk'.dirs[m].meta # NoTable
  <2>1. PICK t \in DOMAIN tables : disk'.dirs[m].meta = tables[t]
    BY <1>5
  <2>2. tables[t].id \in Id /\ NoTable.id = 0
    BY <1>7 DEF MetaTable, NoTable, Table
  <2>. QED BY <2>1, <2>2 DEF Id
<1>11. CatalogInv'
  BY <1>2, <1>3, <1>5, <1>8, <1>9, CutKeeps
<1>. QED BY <1>1, <1>2, <1>5, <1>10, <1>11 DEF Stops

-----------------------------------------------------------------------------
(* Recovery: from record to record                                         *)

(* What get_active_txns finds.                                             *)
LEMMA WhoIsUnfinished ==
  ASSUME Typed(log)
  PROVE  \A t : t \in Unfinished <=>
           /\ \E i \in 1 .. Len(log) : log[i].txn = t
           /\ \A i \in 1 .. Len(log) : log[i].txn = t => log[i].kind \notin Markers
<1>1. DOMAIN log = 1 .. Len(log)
  BY RecordFields
<1>. QED BY <1>1 DEF Unfinished, TxnsWith, Markers

(* Records, files and catalog stay as they are.                            *)
LEMMA WalkOnly ==
  ASSUME CatalogInv, WalkInv', at' \in Nat, undoing' \in [txn : 0 .. MaxIds, logged : BOOLEAN],
         log' = log, durable' = durable, disk' = disk, schema' = schema, tables' = tables,
         running' = running, ids' = ids,
         \/ phase' = phase /\ phase # "redo"
         \/ phase = "down" /\ phase' = "redo" /\ at' = 1
         \/ phase = "redo" /\ phase' = "undo" /\ at = Len(log) + 1
  PROVE  CatalogInv'
<1>1. /\ TypeInv /\ DurableInv /\ RunningInv /\ SettledInv /\ StoredInv /\ RedoneInv /\ CachedInv
      /\ ListedInv /\ IndexesInv /\ FilesInv /\ LogInv(log) /\ Len(log) \in Nat
  BY RecordFields DEF CatalogInv, TypeInv, Typed
<1>2. TypeInv'
  BY <1>1 DEF TypeInv
<1>3. DurableInv' /\ LogInv(log')
  BY <1>1 DEF DurableInv, TypeInv
<1>4. RunningInv'
  BY <1>1 DEF RunningInv
<1>5. SettledInv' /\ CachedInv'
  BY <1>1 DEF SettledInv, CachedInv
<1>6. StoredInv' /\ ListedInv' /\ FilesInv'
  BY <1>1 DEF StoredInv, ListedInv, FilesInv
<1>7. phase' \in {"redo", "undo"} => Upto' = 0 \/ (Upto' = Upto /\ phase \in {"redo", "undo"})
  BY <1>1 DEF Upto
<1>8. RedoneInv'
  BY <1>1, <1>7 DEF RedoneInv
<1>9. IndexesInv'
  BY <1>1, <1>7 DEF IndexesInv
<1>. QED BY <1>2, <1>3, <1>4, <1>5, <1>6, <1>8, <1>9 DEF CatalogInv

(* init() starts to redo at the first record.                              *)
LEMMA StartKeeps ==
  ASSUME CatalogInv, Start
  PROVE  CatalogInv'
<1>1. Len(log) \in Nat
  BY RecordFields DEF CatalogInv, TypeInv, Typed
<1>2. WalkInv'
  BY <1>1 DEF Start, CatalogInv, WalkInv
<1>. QED BY <1>2, WalkOnly DEF Start, cache, CatalogInv, TypeInv

(* Redo is over: get_active_txns finds what is to be undone.               *)
LEMMA RedoDoneKeeps ==
  ASSUME CatalogInv, RedoDone
  PROVE  CatalogInv'
<1>1. Len(log) \in Nat /\ at = Len(log) + 1
  BY RecordFields DEF CatalogInv, TypeInv, Typed, RedoDone, WalkInv
<1>2. Unfinished' = Unfinished
  BY DEF RedoDone, Unfinished, TxnsWith
<1>3. WalkInv'
  BY <1>2 DEF RedoDone, CatalogInv, WalkInv
<1>. QED BY <1>1, <1>3, WalkOnly DEF RedoDone, cache, CatalogInv, TypeInv

(* The last record of a transaction that has no marker: its CLR, if it has *)
(* one.                                                                    *)
LEMMA LastRecord ==
  ASSUME CatalogInv, NEW t \in Unfinished
  PROVE  /\ LastOf(t) \in 1 .. Len(log) /\ log[LastOf(t)].txn = t /\ log[LastOf(t)].kind \in Changes
         /\ ~log[LastOf(t)].clr => \A k \in 1 .. Len(log) : log[k].txn = t => ~log[k].clr
<1> DEFINE n == Len(log)
           Last(i) == log[i].txn = t /\ \A j \in 1 .. n : log[j].txn = t => j <= i
<1>1. /\ Typed(log) /\ n \in Nat /\ Once(log) /\ ClrOf(log) /\ ClrOnce(log) /\ DOMAIN log = 1 .. n
  BY RecordFields DEF CatalogInv, TypeInv, Typed, LogInv
<1>2. /\ \E i \in 1 .. n : log[i].txn = t
      /\ \A i \in 1 .. n : log[i].txn = t => log[i].kind \in Changes
      /\ \A i \in 1 .. n : log[i].txn = t => log[i].clr \/ Makes(log, i)
  BY <1>1, WhoIsUnfinished, RecordFields DEF Makes
<1>3. ASSUME NEW c \in 1 .. n, log[c].txn = t, log[c].clr, NEW i \in 1 .. n, log[i].txn = t
      PROVE  i <= c /\ (i # c => Makes(log, i))
  <2>1. PICK j \in 1 .. c - 1 : Makes(log, j) /\ log[c] = MakeClr(log[j])
    BY <1>1, <1>3 DEF ClrOf
  <2>2. j \in 1 .. n /\ j <= c
    BY <1>1
  <2>3. log[j].txn = t
    <3>1. log[j] \in LogRecord /\ Fits(log[j])
      BY <1>1, <2>2, RecordFields
    <3>. QED BY <1>3, <2>1, <3>1, ClrFields DEF Makes
  <2>. QED BY <1>1, <1>2, <1>3, <2>1, <2>2, <2>3 DEF Once, ClrOnce
<1>4. \E i \in 1 .. n : Last(i)
  <2>1. CASE \E c \in 1 .. n : log[c].txn = t /\ log[c].clr
    BY <1>3, <2>1
  <2>2. CASE \A c \in 1 .. n : log[c].txn = t => ~log[c].clr
    BY <1>1, <1>2, <2>2 DEF Once
  <2>. QED BY <2>1, <2>2
<1>5. LastOf(t) = CHOOSE i \in 1 .. n : Last(i)
  BY <1>1 DEF LastOf
<1>6. LastOf(t) \in 1 .. n /\ Last(LastOf(t))
  BY <1>4, <1>5
<1>7. ASSUME ~log[LastOf(t)].clr, NEW c \in 1 .. n, log[c].txn = t, log[c].clr PROVE FALSE
  BY <1>1, <1>3, <1>6, <1>7
<1>. QED BY <1>2, <1>6, <1>7

(* Undo takes a transaction, at its last record.                           *)
LEMMA UndoBeginKeeps ==
  ASSUME CatalogInv, UndoBegin
  PROVE  CatalogInv'
<1>1. PICK t \in active : undoing' = [txn |-> t, logged |-> FALSE] /\ at' = LastOf(t)
  BY DEF UndoBegin
<1>2. /\ phase = "undo" /\ phase' = phase /\ log' = log /\ active' = active /\ active = Unfinished
      /\ Typed(log) /\ Len(log) \in Nat
  BY RecordFields DEF UndoBegin, CatalogInv, TypeInv, Typed, WalkInv
<1>3. t \in Id
  <2>1. PICK i \in 1 .. Len(log) : log[i].txn = t
    BY <1>2, WhoIsUnfinished
  <2>. QED BY <1>2, <2>1, RecordFields
<1>4. /\ at' \in 1 .. Len(log) /\ log[at'].txn = t /\ log[at'].kind \in Changes
      /\ ~log[at'].clr => \A k \in 1 .. Len(log) : log[k].txn = t => ~log[k].clr
  BY <1>1, <1>2, LastRecord
<1>5. /\ undoing' \in [txn : 0 .. MaxIds, logged : BOOLEAN] /\ undoing'.txn = t /\ ~undoing'.logged
      /\ at' \in Nat /\ at' \in 0 .. Len(log)
  BY <1>1, <1>2, <1>3, <1>4, CatalogAssumption DEF Id
<1>6. Unfinished' = Unfinished
  BY <1>2 DEF Unfinished, TxnsWith
<1>7. WalkInv'
  BY <1>1, <1>2, <1>4, <1>5, <1>6 DEF WalkInv
<1>. QED BY <1>2, <1>5, <1>7, WalkOnly DEF UndoBegin, cache

(* Undo meets the CLR that an interrupted undo left: there is nothing more *)
(* to do for the transaction.                                              *)
LEMMA UndoSkipKeeps ==
  ASSUME CatalogInv, UndoSkip
  PROVE  CatalogInv'
<1>1. /\ phase = "undo" /\ phase' = phase /\ log' = log /\ active' = active /\ undoing' = undoing
      /\ undoing # NotUndoing /\ at # 0 /\ log[at].clr /\ at' = log[at].undo_next
      /\ Typed(log) /\ Len(log) \in Nat
  BY RecordFields DEF UndoSkip, AfterClr, CatalogInv, TypeInv, Typed
<1>2. at \in 1 .. Len(log)
  BY <1>1 DEF CatalogInv, WalkInv
<1>3. at' = 0 /\ ~undoing.logged
  BY <1>1, <1>2, RecordFields DEF Fits, CatalogInv, WalkInv
<1>4. Unfinished' = Unfinished
  BY <1>1 DEF Unfinished, TxnsWith
<1>5. WalkInv'
  BY <1>1, <1>3, <1>4 DEF CatalogInv, WalkInv
<1>. QED BY <1>1, <1>3, <1>5, WalkOnly DEF UndoSkip, cache, CatalogInv, TypeInv

(* the log in recovery takes a record that is flushed at once              *)
Flushes(r) ==
  /\ phase = "undo" /\ log' = Append(log, r) /\ durable' = Len(log) + 1
  /\ phase' = phase /\ disk' = disk /\ schema' = schema /\ tables' = tables
  /\ running' = running /\ ids' = ids /\ at' = at
  /\ undoing' \in [txn : 0 .. MaxIds, logged : BOOLEAN]

(* What is left to show is that the log is in order, and where undo is.    *)
LEMMA FlushesKeeps ==
  ASSUME CatalogInv, NEW r \in LogRecord, Fits(r), Flushes(r), r.clr \/ r.kind = "rollback",
         r.txn <= ids, LogInv(log'), WalkInv'
  PROVE  CatalogInv'
<1> DEFINE n == Len(log)
<1>1. Typed(log) /\ n \in Nat /\ running.stage = "none" /\ running.txn = 0 /\ durable \in 0 .. n
      /\ phase = "undo"
  BY RecordFields DEF CatalogInv, TypeInv, Typed, RunningInv, Flushes
<1>2. /\ Typed(log') /\ Extended(log', log, r)
  BY <1>1, AppendExtends DEF Flushes
<1>3. Len(log') = n + 1 /\ log'[n + 1] = r /\ \A i \in 1 .. n : log'[i] = log[i]
  BY <1>2 DEF Extended
<1>4. r.kind # "commit"
  BY DEF Fits, Markers
<1>5. \A i \in 1 .. n : Live(log', 0, i) <=> Live(log, 0, i)
  <2>1. \A i \in 1 .. n : (Makes(log', i) <=> Makes(log, i)) /\ (Done(log', i) <=> Done(log, i))
    BY <1>1, <1>2, <1>4, GrowFacts
  <2>. QED BY <1>3, <2>1 DEF Live
<1>6. durable' \in Nat /\ durable <= durable'
  BY <1>1 DEF Flushes
<1>7. TakesRecord(r)
  BY <1>1, <1>4, <1>5, <1>6 DEF TakesRecord, Flushes, Markers
<1>8. StoredInv' /\ RedoneInv' /\ CachedInv' /\ ListedInv' /\ IndexesInv' /\ FilesInv'
  BY <1>7, RecordLeaves
<1>9. TypeInv'
  <2>1. \A i \in 1 .. n + 1 : log'[i].txn <= ids
    BY <1>1, <1>3 DEF CatalogInv, TypeInv
  <2>2. durable' \in 0 .. n + 1
    BY <1>1 DEF Flushes
  <2>. QED BY <1>2, <1>3, <2>1, <2>2 DEF CatalogInv, TypeInv, Typed, Flushes
<1>10. DurableInv'
  BY <1>1, <1>3 DEF DurableInv, Flushes
<1>11. RunningInv' /\ SettledInv'
  BY <1>1 DEF CatalogInv, RunningInv, SettledInv, Flushes
<1>. QED BY <1>8, <1>9, <1>10, <1>11 DEF CatalogInv

(* The record that is undone.                                              *)
LEMMA UndoneRecord ==
  ASSUME CatalogInv, phase = "undo", undoing # NotUndoing, at # 0, ~log[at].clr
  PROVE  /\ at \in 1 .. Len(log) /\ Makes(log, at) /\ ~Ended(log, at) /\ log[at].txn = undoing.txn
         /\ log[at] \in LogRecord /\ Fits(log[at]) /\ log[at].prev = 0 /\ log[at].txn \in Id
<1>1. Typed(log) /\ Len(log) \in Nat /\ Once(log) /\ CommitNext(log)
  BY RecordFields DEF CatalogInv, TypeInv, Typed, LogInv
<1>2. at \in 1 .. Len(log) /\ log[at].txn = undoing.txn /\ Makes(log, at) /\ undoing.txn \in Unfinished
  BY DEF CatalogInv, WalkInv, Makes
<1>3. \A i \in 1 .. Len(log) : log[i].txn = log[at].txn => log[i].kind \notin Markers
  BY <1>1, <1>2, WhoIsUnfinished
<1>4. ~Ended(log, at)
  BY <1>1, <1>2, <1>3, DoneCommitted DEF Ended, Markers
<1>. QED BY <1>1, <1>2, <1>4, RecordFields DEF Fits, Makes

(* Undo appends and flushes the CLR of a record.                           *)
LEMMA UndoLogKeeps ==
  ASSUME CatalogInv, UndoLog
  PROVE  CatalogInv'
<1> DEFINE n == Len(log)
           r == MakeClr(log[at])
<1>1. /\ phase = "undo" /\ undoing # NotUndoing /\ at # 0 /\ ~log[at].clr /\ ~undoing.logged
      /\ log' = Append(log, r) /\ undoing' = [undoing EXCEPT !.logged = TRUE]
      /\ active' = active /\ active = Unfinished /\ phase' = "undo" /\ at' = at
  BY DEF UndoLog, CatalogInv, WalkInv
<1>2. /\ at \in 1 .. n /\ Makes(log, at) /\ ~Ended(log, at) /\ log[at].txn = undoing.txn
      /\ log[at] \in LogRecord /\ Fits(log[at]) /\ log[at].prev = 0 /\ log[at].txn \in Id
  BY <1>1, UndoneRecord
<1>3. r \in LogRecord /\ Fits(r) /\ r.clr /\ r.kind = log[at].kind /\ r.txn = log[at].txn
  BY <1>2, ClrFields DEF Makes
<1>. HIDE DEF r
<1>4. /\ undoing' \in [txn : 0 .. MaxIds, logged : BOOLEAN] /\ undoing'.txn = undoing.txn
      /\ undoing'.logged
  BY <1>1 DEF CatalogInv, TypeInv
<1>5. Typed(log) /\ n \in Nat /\ Typed(log') /\ Extended(log', log, r)
  <2>1. Typed(log) /\ n \in Nat
    BY RecordFields DEF CatalogInv, TypeInv, Typed
  <2>. QED BY <1>1, <1>3, <2>1, AppendExtends
<1>6. Len(log') = n + 1 /\ log'[n + 1] = r /\ \A i \in 1 .. n : log'[i] = log[i]
  BY <1>5 DEF Extended
<1>7. \A i \in 1 .. n : log[i].txn = log[at].txn => ~log[i].clr
  BY <1>1, <1>2 DEF CatalogInv, WalkInv
<1>8. LogInv(log')
  BY <1>2, <1>5, <1>7, LogTakesClr DEF CatalogInv, r
<1>9. r.kind \notin Markers
  BY <1>2, <1>3 DEF Makes, Changes, Markers
<1>10. Unfinished' = Unfinished
  <2>1. \A t : t \in Unfinished' <=>
           /\ \E i \in 1 .. Len(log') : log'[i].txn = t
           /\ \A i \in 1 .. Len(log') : log'[i].txn = t => log'[i].kind \notin Markers
    <3>1. DOMAIN log' = 1 .. Len(log')
      BY <1>5, RecordFields
    <3>. QED BY <3>1 DEF Unfinished, TxnsWith, Markers
  <2>2. \A t : t \in Unfinished' <=>
           /\ \E i \in 1 .. n : log[i].txn = t
           /\ \A i \in 1 .. n : log[i].txn = t => log[i].kind \notin Markers
    BY <1>2, <1>3, <1>5, <1>6, <1>9, <2>1
  <2>3. \A t : t \in Unfinished' <=> t \in Unfinished
    BY <1>5, <2>2, WhoIsUnfinished
  <2>. QED BY <2>3
<1>11. WalkInv'
  <2>1. undoing.txn \in active
    BY <1>1 DEF CatalogInv, WalkInv
  <2>2. n + 1 \in at + 1 .. n + 1 /\ log'[n + 1] = MakeClr(log'[at])
    BY <1>2, <1>5, <1>6 DEF r
  <2>3. /\ at' # 0 /\ at' \in 0 .. Len(log') /\ log'[at'].txn = undoing'.txn
        /\ log'[at'].kind \in Changes /\ ~log'[at'].clr
    BY <1>1, <1>2, <1>4, <1>5, <1>6 DEF Makes
  <2>4. \E k \in at' + 1 .. Len(log') : log'[k] = MakeClr(log'[at'])
    BY <1>1, <1>6, <2>2
  <2>. QED BY <1>1, <1>4, <1>10, <2>1, <2>3, <2>4 DEF WalkInv
<1>12. Flushes(r)
  BY <1>1, <1>4 DEF Flushes, UndoLog, cache
<1>13. r.txn <= ids
  BY <1>2, <1>3 DEF CatalogInv, TypeInv
<1>. QED BY <1>3, <1>8, <1>11, <1>12, <1>13, FlushesKeeps

(* Undo appends the rollback record of its transaction.                    *)
LEMMA UndoEndKeeps ==
  ASSUME CatalogInv, UndoEnd
  PROVE  CatalogInv'
<1> DEFINE n == Len(log)
           r == Marker("rollback", undoing.txn, 0)
<1>1. /\ phase = "undo" /\ undoing # NotUndoing /\ at = 0 /\ log' = Append(log, r)
      /\ active' = active \ {undoing.txn} /\ undoing' = NotUndoing /\ phase' = "undo"
      /\ active = Unfinished /\ undoing.txn \in active /\ Typed(log) /\ n \in Nat
  BY RecordFields DEF UndoEnd, CatalogInv, WalkInv, TypeInv, Typed
<1>2. PICK i \in 1 .. n : log[i].txn = undoing.txn
  BY <1>1, WhoIsUnfinished
<1>3. undoing.txn \in Id /\ undoing.txn <= ids
  BY <1>1, <1>2, RecordFields DEF CatalogInv, TypeInv
<1>4. r \in LogRecord /\ Fits(r) /\ r.kind = "rollback" /\ ~r.clr /\ r.txn = undoing.txn
  BY <1>3, MarkerType DEF Markers
<1>. HIDE DEF r
<1>5. Typed(log') /\ Extended(log', log, r)
  BY <1>1, <1>4, AppendExtends
<1>6. Len(log') = n + 1 /\ log'[n + 1] = r /\ \A k \in 1 .. n : log'[k] = log[k]
  BY <1>5 DEF Extended
<1>7. LogInv(log')
  BY <1>1, <1>4, <1>5, LogTakesRollback DEF CatalogInv
<1>8. Unfinished' = Unfinished \ {undoing.txn}
  <2>1. \A t : t \in Unfinished' <=>
           /\ \E k \in 1 .. Len(log') : log'[k].txn = t
           /\ \A k \in 1 .. Len(log') : log'[k].txn = t => log'[k].kind \notin Markers
    <3>1. DOMAIN log' = 1 .. Len(log')
      BY <1>5, RecordFields
    <3>. QED BY <3>1 DEF Unfinished, TxnsWith, Markers
  <2>2. r.kind \in Markers
    BY <1>4 DEF Markers
  <2>3. \A t : t \in Unfinished' <=>
           /\ t # undoing.txn
           /\ \E k \in 1 .. n : log[k].txn = t
           /\ \A k \in 1 .. n : log[k].txn = t => log[k].kind \notin Markers
    BY <1>1, <1>4, <1>6, <2>1, <2>2
  <2>4. \A t : t \in Unfinished' <=> t \in Unfinished /\ t # undoing.txn
    BY <1>1, <2>3, WhoIsUnfinished
  <2>. QED BY <2>4
<1>9. WalkInv'
  BY <1>1, <1>8 DEF WalkInv
<1>10. Flushes(r)
  <2>1. NotUndoing \in [txn : 0 .. MaxIds, logged : BOOLEAN]
    BY CatalogAssumption DEF NotUndoing
  <2>. QED BY <1>1, <2>1 DEF Flushes, UndoEnd, cache
<1>. QED BY <1>3, <1>4, <1>7, <1>9, <1>10, FlushesKeeps

-----------------------------------------------------------------------------
(* Recovery: what a record does to the files                               *)

StoredIn(d) ==
  /\ d.schema # 0 => \E j \in 1 .. Len(log) : MakesSchema(log, j) /\ Done(log, j) /\ log[j].txn = d.schema
  /\ \A n \in Names : d.dirs[n].meta # NoTable =>
       /\ d.dirs[n].meta \in MetaTable /\ d.dirs[n].meta.name = n
       /\ \E j \in 1 .. Len(log) : Done(log, j) /\ Stems(d.dirs[n].meta, log, j)
ListedIn(d) ==
  \A n \in Names : \A x \in DOMAIN d.dirs[n].meta.indexes :
    Created(log, 0, x, d.dirs[n].meta.id, Len(log) - 1)
FilesIn(d) ==
  \A i, j \in 1 .. Len(log) :
    MakesIndex(log, i) /\ MakesTable(log, j) /\ log[i].after.table_id = log[j].txn
      /\ ~Removed(log, log[j].after.name) =>
        log[i].txn \in d.dirs[log[j].after.name].index_files
(* the files at any time of a recovery                                     *)
Sound(d) == d \in Files /\ d.ok /\ StoredIn(d) /\ ListedIn(d) /\ FilesIn(d)

RedoneIn(d, p) ==
  \A j \in 1 .. p : Done(log, j) =>
    /\ log[j].kind = "create_schema" => d.schema = log[j].txn
    /\ log[j].kind = "create_table" => d.dirs[log[j].after.name].meta.id = log[j].txn
IndexedIn(d, p) ==
  \A j \in 1 .. p : MakesTable(log, j) /\ Done(log, j) /\ ~Spoiled(log, log[j].txn) =>
    d.dirs[log[j].after.name].meta.indexes = SetToBag(Made(log, 0, log[j].txn, p))
(* and what they are when the log is redone as far as p                    *)
Redone(d, p) == Sound(d) /\ RedoneIn(d, p) /\ IndexedIn(d, p)

(* what recovery can rely on                                               *)
Recovering ==
  /\ CatalogInv /\ phase \in {"redo", "undo"}
  /\ Typed(log) /\ Len(log) \in Nat /\ durable = Len(log) /\ running.txn = 0
  /\ LogInv(log) /\ DropsCreated(log, 0)
  /\ \A i \in 1 .. Len(log) : Live(log, 0, i) <=> Done(log, i)
  /\ \A i \in 1 .. Len(log) : Done(log, i) => Makes(log, i) /\ i \in 1 .. Len(log) - 1

(* What recovery may rely on in every step.                                *)
LEMMA InRecovery ==
  ASSUME CatalogInv, phase \in {"redo", "undo"}
  PROVE  Recovering /\ Redone(disk, Upto)
<1>1. /\ Typed(log) /\ Len(log) \in Nat /\ durable = Len(log) /\ running.txn = 0 /\ LogInv(log)
  BY RecordFields DEF CatalogInv, TypeInv, Typed, DurableInv, RunningInv
<1>2. DropsCreated(log, 0)
  BY <1>1 DEF DropsCreated, Drops, CatalogInv, ListedInv
<1>3. \A i \in 1 .. Len(log) : Live(log, 0, i) <=> Done(log, i)
  BY LiveIsDone DEF CatalogInv
<1>4. \A i \in 1 .. Len(log) : Done(log, i) => Makes(log, i) /\ i \in 1 .. Len(log) - 1
  BY <1>1 DEF Done
<1>5. Recovering
  BY <1>1, <1>2, <1>3, <1>4 DEF Recovering
<1>6. \A j \in 1 .. Len(log) - 1 : j \in 1 .. Len(log)
  BY <1>1
<1>7. StoredIn(disk)
  BY <1>1, <1>6 DEF StoredIn, CatalogInv, StoredInv
<1>8. ListedIn(disk) /\ FilesIn(disk) /\ RedoneIn(disk, Upto) /\ IndexedIn(disk, Upto)
  BY <1>1 DEF ListedIn, FilesIn, RedoneIn, IndexedIn, CatalogInv, ListedInv, FilesInv, RedoneInv, IndexesInv
<1>. QED BY <1>5, <1>7, <1>8 DEF Redone, Sound, CatalogInv, TypeInv

(* The files of the next state.                                            *)
LEMMA FilesKeep ==
  ASSUME Recovering, Redone(disk', Upto'), WalkInv', at' \in Nat,
         undoing' \in [txn : 0 .. MaxIds, logged : BOOLEAN], phase' = phase,
         log' = log, durable' = durable, schema' = schema, tables' = tables,
         running' = running, ids' = ids
  PROVE  CatalogInv'
<1>1. /\ TypeInv /\ DurableInv /\ RunningInv /\ SettledInv /\ StoredInv /\ CachedInv
      /\ ListedInv /\ IndexesInv /\ LogInv(log) /\ Len(log) \in Nat /\ durable = Len(log)
      /\ phase \in {"redo", "undo"} /\ running.txn = 0
  BY DEF Recovering, CatalogInv
<1>2. TypeInv'
  BY <1>1 DEF TypeInv, Redone, Sound
<1>3. DurableInv' /\ LogInv(log') /\ SettledInv' /\ CachedInv' /\ RunningInv'
  BY <1>1 DEF DurableInv, SettledInv, CachedInv, RunningInv
<1>4. StoredInv'
  <2>1. ASSUME NEW j \in 1 .. Len(log), Done(log, j) PROVE j \in 1 .. durable - 1
    BY <1>1, <2>1 DEF Recovering
  <2>2. StoredIn(disk')
    BY DEF Redone, Sound
  <2>. QED BY <1>1, <2>1, <2>2 DEF StoredInv, StoredIn
<1>5. ListedInv'
  BY <1>1 DEF Redone, Sound, ListedIn, ListedInv
<1>6. FilesInv'
  BY <1>1 DEF Redone, Sound, FilesIn, FilesInv
<1>7. RedoneInv'
  BY <1>1 DEF Redone, RedoneIn, RedoneInv
<1>8. IndexesInv'
  BY <1>1 DEF Redone, IndexedIn, IndexesInv
<1>. QED BY <1>2, <1>3, <1>4, <1>5, <1>6, <1>7, <1>8 DEF CatalogInv

(* A committed table is the only one of its name, and made once.           *)
LEMMA OneOfAName ==
  ASSUME Recovering, NEW i \in 1 .. Len(log), NEW j \in 1 .. Len(log),
         MakesTable(log, i), MakesTable(log, j), Done(log, i), Done(log, j),
         log[i].after.name = log[j].after.name
  PROVE  i = j
<1>1. NamesDiffer(log) /\ Len(log) \in Nat
  BY DEF Recovering, LogInv
<1>2. ~(i \in 1 .. j - 1)
  BY <1>1 DEF NamesDiffer, MakesTable
<1>3. ~(j \in 1 .. i - 1)
  BY <1>1 DEF NamesDiffer, MakesTable
<1>. QED BY <1>1, <1>2, <1>3

(* The schema of the record at k, once what stands before it is redone.    *)
LEMMA KnownSchema ==
  ASSUME Recovering, NEW d, NEW p \in Nat, Redone(d, p), NEW k \in 1 .. Len(log), k - 1 <= p,
         log[k].kind \in Changes \ {"create_schema"}
  PROVE  /\ log[k].kind = "create_table" => log[k].after.schema_id = d.schema
         /\ log[k].kind = "update_table" => log[k].before.schema_id = d.schema
<1>1. HasSchema(log, k)
  BY DEF Recovering, LogInv, SchemaBefore
<1>2. PICK s \in 1 .. k - 1 :
        /\ MakesSchema(log, s) /\ Done(log, s)
        /\ log[k].kind = "create_table" => log[k].after.schema_id = log[s].txn
        /\ log[k].kind = "update_table" => log[k].before.schema_id = log[s].txn
  BY <1>1 DEF HasSchema
<1>3. s \in 1 .. p
  BY DEF Recovering
<1>4. d.schema = log[s].txn
  BY <1>2, <1>3 DEF Redone, RedoneIn, MakesSchema
<1>. QED BY <1>2, <1>4

(* the table of the record at k was made by the statement at j, and its    *)
(* metadata is in the files                                                *)
Finds(d, k, j) ==
  /\ j \in 1 .. k - 1 /\ j \in 1 .. Len(log) /\ MakesTable(log, j) /\ Done(log, j)
  /\ log[j].txn = TableOf(log[k]) /\ log[j].txn \in Id
  /\ log[k].kind = "update_table" => log[k].before.name = log[j].after.name
  /\ log[j].after.name \in Names /\ log[j].after.schema_id = d.schema
  /\ d.dirs[log[j].after.name].meta \in MetaTable
  /\ d.dirs[log[j].after.name].meta.id = log[j].txn
  /\ Stems(d.dirs[log[j].after.name].meta, log, j)
  /\ d.dirs[log[j].after.name].meta \in StoredTables(d)
  /\ TableMeta(d, log[j].txn) = d.dirs[log[j].after.name].meta

(* The table of a record is on disk when recovery comes to the record.     *)
LEMMA KnownTable ==
  ASSUME Recovering, NEW d, NEW p \in Nat, Redone(d, p), NEW k \in 1 .. Len(log), k - 1 <= p,
         log[k].kind \in {"update_table", "create_index", "drop_index"}
  PROVE  \E j \in 1 .. Len(log) : Finds(d, k, j)
<1>0. Len(log) \in Nat /\ Typed(log) /\ Once(log)
  BY DEF Recovering, LogInv
<1>1. HasTable(log, k)
  BY DEF Recovering, LogInv, TableBefore
<1>2. PICK j \in 1 .. k - 1 :
        /\ MakesTable(log, j) /\ Done(log, j) /\ TableOf(log[k]) = log[j].txn
        /\ log[k].kind = "update_table" => log[k].before.name = log[j].after.name
  BY <1>1 DEF HasTable
<1>3. j \in 1 .. Len(log) /\ j \in 1 .. p /\ j - 1 <= p
  BY <1>0
<1> DEFINE name == log[j].after.name
           mt == d.dirs[name].meta
<1>4. log[j].txn \in Id /\ name \in Names /\ log[j].kind = "create_table"
  BY <1>0, <1>2, <1>3, RecordFields DEF MakesTable, Fits, MetaTable
<1>5. log[j].after.schema_id = d.schema
  BY <1>3, <1>4, KnownSchema DEF Changes
<1>6. mt.id = log[j].txn
  BY <1>2, <1>3, <1>4 DEF Redone, RedoneIn
<1>7. mt # NoTable
  <2>1. NoTable.id = 0
    BY DEF NoTable, Table
  <2>2. log[j].txn # 0
    BY <1>4 DEF Id
  <2>. HIDE DEF mt
  <2>. QED BY <1>6, <2>1, <2>2
<1>8. ASSUME NEW m \in Names, d.dirs[m].meta # NoTable, d.dirs[m].meta.id = log[j].txn
      PROVE  m = name /\ Stems(d.dirs[m].meta, log, j) /\ d.dirs[m].meta \in MetaTable
  <2>1. d.dirs[m].meta \in MetaTable /\ d.dirs[m].meta.name = m
    BY <1>8 DEF Redone, Sound, StoredIn
  <2>2. PICK i \in 1 .. Len(log) : Stems(d.dirs[m].meta, log, i)
    BY <1>8 DEF Redone, Sound, StoredIn
  <2>3. i = j
    BY <1>0, <1>2, <1>3, <1>8, <2>2 DEF Once, Stems, MakesTable
  <2>. QED BY <2>1, <2>2, <2>3 DEF Stems
<1>9. Stems(mt, log, j) /\ mt \in MetaTable
  BY <1>4, <1>6, <1>7, <1>8
<1>10. mt \in StoredTables(d)
  BY <1>4, <1>7 DEF StoredTables
<1>11. TableMeta(d, log[j].txn) = mt
  <2>1. \A q \in StoredTables(d) : q.id = log[j].txn => q = mt
    BY <1>8 DEF StoredTables
  <2>. QED BY <1>6, <1>10, <2>1 DEF TableMeta
<1>. HIDE DEF name, mt
<1>12. Finds(d, k, j)
  BY <1>2, <1>3, <1>4, <1>5, <1>6, <1>9, <1>10, <1>11 DEF Finds, name, mt
<1>. QED BY <1>3, <1>12

(* d2 is d with the metadata mt                                            *)
Puts(d2, d, mt) ==
  /\ d2.schema = d.schema /\ d2.dirs[mt.name].meta = mt
  /\ \A n \in Names : n # mt.name => d2.dirs[n].meta = d.dirs[n].meta

(* WriteMt of a table that was committed.                                  *)
LEMMA WriteMtSound ==
  ASSUME Recovering, NEW d, Sound(d), NEW mt \in MetaTable, mt.schema_id = d.schema,
         NEW j \in 1 .. Len(log), Done(log, j), Stems(mt, log, j),
         \A x \in DOMAIN mt.indexes : Created(log, 0, x, mt.id, Len(log) - 1)
  PROVE  Sound(WriteMt(d, mt)) /\ Puts(WriteMt(d, mt), d, mt)
<1> DEFINE d2 == WriteMt(d, mt)
           dir == [d.dirs[mt.name] EXCEPT !.meta = mt]
<1>1. d \in Files /\ d.ok /\ d.dirs \in [Names -> Dir] /\ mt.name \in Names
  BY DEF Sound, Files, MetaTable
<1>2. dir \in Dir /\ dir.meta = mt /\ dir.index_files = d.dirs[mt.name].index_files
  BY <1>1 DEF Dir
<1>3. d2 = [d EXCEPT !.dirs = [d.dirs EXCEPT ![mt.name] = dir]]
  BY <1>1 DEF WriteMt, Files
<1>. HIDE DEF d2, dir
<1>4. d2.schema = d.schema /\ d2.ok = d.ok /\ d2.dirs = [d.dirs EXCEPT ![mt.name] = dir]
  BY <1>1, <1>3 DEF Files
<1>5. d2 \in Files
  BY <1>1, <1>2, <1>3 DEF Files
<1>6. /\ d2.dirs[mt.name].meta = mt
      /\ \A n \in Names : n # mt.name => d2.dirs[n].meta = d.dirs[n].meta
      /\ \A n \in Names : d2.dirs[n].index_files = d.dirs[n].index_files
  BY <1>1, <1>2, <1>4
<1>7. StoredIn(d2)
  <2>1. ASSUME NEW n \in Names, d2.dirs[n].meta # NoTable
        PROVE  /\ d2.dirs[n].meta \in MetaTable /\ d2.dirs[n].meta.name = n
               /\ \E i \in 1 .. Len(log) : Done(log, i) /\ Stems(d2.dirs[n].meta, log, i)
    <3>1. CASE n = mt.name
      BY <1>6, <3>1
    <3>2. CASE n # mt.name
      BY <1>6, <2>1, <3>2 DEF Sound, StoredIn
    <3>. QED BY <3>1, <3>2
  <2>. QED BY <1>4, <2>1 DEF Sound, StoredIn
<1>8. ListedIn(d2)
  <2>1. ASSUME NEW n \in Names, NEW x \in DOMAIN d2.dirs[n].meta.indexes
        PROVE  Created(log, 0, x, d2.dirs[n].meta.id, Len(log) - 1)
    <3>1. CASE n = mt.name
      BY <1>6, <2>1, <3>1
    <3>2. CASE n # mt.name
      BY <1>6, <2>1, <3>2 DEF Sound, ListedIn
    <3>. QED BY <3>1, <3>2
  <2>. QED BY <2>1 DEF ListedIn
<1>9. FilesIn(d2)
  <2>1. \A i \in 1 .. Len(log) : MakesTable(log, i) => log[i].after.name \in Names
    BY RecordFields DEF Recovering, MakesTable, Fits, MetaTable
  <2>. QED BY <1>6, <2>1 DEF Sound, FilesIn
<1>. QED BY <1>1, <1>4, <1>5, <1>6, <1>7, <1>8, <1>9 DEF d2, Sound, Puts

(* One table's metadata is written: the others are as they were.           *)
LEMMA PutRedone ==
  ASSUME Recovering, NEW d, NEW d2, NEW mt, NEW p \in Nat, NEW q \in Nat, p <= q, q <= Len(log),
         Redone(d, p), Sound(d2), Puts(d2, d, mt),
         NEW k \in 1 .. Len(log), MakesTable(log, k), Done(log, k),
         log[k].txn = mt.id, log[k].after.name = mt.name,
         \A j \in 1 .. q :
           j \in 1 .. p \/ j = k \/ ~Done(log, j) \/ log[j].kind \notin {"create_schema", "create_table"},
         ~Spoiled(log, mt.id) => mt.indexes = SetToBag(Made(log, 0, mt.id, q)),
         \A t : t # mt.id => Made(log, 0, t, q) = Made(log, 0, t, p)
  PROVE  Redone(d2, q)
<1>0. /\ Len(log) \in Nat /\ Typed(log) /\ Once(log) /\ \A j \in 1 .. q : j \in 1 .. Len(log)
      /\ \A j \in 1 .. Len(log) : Done(log, j) => Makes(log, j)
  BY DEF Recovering, LogInv
<1>1. ASSUME NEW j \in 1 .. q, MakesTable(log, j)
      PROVE  log[j].after.name \in Names
  BY <1>0, <1>1, RecordFields DEF MakesTable, Fits, MetaTable
<1>2. ASSUME NEW j \in 1 .. q, MakesTable(log, j), Done(log, j), log[j].after.name = mt.name
      PROVE  j = k
  BY <1>0, <1>2, OneOfAName
<1>3. log[k].kind = "create_table"
  BY DEF MakesTable
<1>4. RedoneIn(d2, q)
  <2>1. ASSUME NEW j \in 1 .. q, Done(log, j), log[j].kind = "create_schema"
        PROVE  d2.schema = log[j].txn
    BY <1>3, <2>1 DEF Redone, RedoneIn, Puts
  <2>2. ASSUME NEW j \in 1 .. q, Done(log, j), log[j].kind = "create_table"
        PROVE  d2.dirs[log[j].after.name].meta.id = log[j].txn
    <3>1. MakesTable(log, j)
      BY <1>0, <2>2 DEF MakesTable
    <3>2. CASE log[j].after.name = mt.name
      BY <1>2, <2>2, <3>1, <3>2 DEF Puts
    <3>3. CASE log[j].after.name # mt.name
      <4>1. j \in 1 .. p
        BY <2>2, <3>3
      <4>. QED BY <1>1, <2>2, <3>1, <3>3, <4>1 DEF Redone, RedoneIn, Puts
    <3>. QED BY <3>2, <3>3
  <2>. QED BY <2>1, <2>2 DEF RedoneIn
<1>5. IndexedIn(d2, q)
  <2>1. ASSUME NEW j \in 1 .. q, MakesTable(log, j), Done(log, j), ~Spoiled(log, log[j].txn)
        PROVE  d2.dirs[log[j].after.name].meta.indexes = SetToBag(Made(log, 0, log[j].txn, q))
    <3>1. CASE log[j].after.name = mt.name
      BY <1>2, <2>1, <3>1 DEF Puts
    <3>2. CASE log[j].after.name # mt.name
      <4>1. j \in 1 .. p
        BY <2>1, <3>2 DEF MakesTable
      <4>2. log[j].txn # mt.id
        BY <1>0, <2>1, <3>2 DEF Once, MakesTable
      <4>3. d.dirs[log[j].after.name].meta.indexes = SetToBag(Made(log, 0, log[j].txn, p))
        BY <2>1, <4>1 DEF Redone, IndexedIn
      <4>. QED BY <1>1, <2>1, <3>2, <4>2, <4>3 DEF Puts
    <3>. QED BY <3>1, <3>2
  <2>. QED BY <2>1 DEF IndexedIn
<1>. QED BY <1>4, <1>5 DEF Redone

(* A record that is not redone, and one that changes nothing.              *)
LEMMA SkipRedone ==
  ASSUME Recovering, NEW d, NEW p \in Nat, p + 1 <= Len(log), Redone(d, p), ~Done(log, p + 1)
  PROVE  Redone(d, p + 1)
<1>0. /\ Len(log) \in Nat /\ Typed(log) /\ Once(log) /\ DropsCreated(log, 0)
      /\ p + 1 \in 1 .. Len(log) /\ \A j \in 1 .. p + 1 : j \in 1 .. p \/ j = p + 1
  BY DEF Recovering, LogInv
<1>1. ~Live(log, 0, p + 1)
  BY <1>0 DEF Recovering
<1>2. \A t : Made(log, 0, t, p + 1) = Made(log, 0, t, p)
  BY <1>0, <1>1, MadeStep DEF Step
<1>3. RedoneIn(d, p + 1)
  BY <1>0 DEF Redone, RedoneIn
<1>4. IndexedIn(d, p + 1)
  BY <1>0, <1>2 DEF Redone, IndexedIn
<1>. QED BY <1>3, <1>4 DEF Redone

(* redo of CREATE SCHEMA: there is nothing before it.                      *)
LEMMA RedoCreateSchema ==
  ASSUME Recovering, NEW d, NEW p \in Nat, p + 1 <= Len(log), Redone(d, p), Done(log, p + 1),
         log[p + 1].kind = "create_schema"
  PROVE  Redone(RedoRecord(d, log[p + 1]), p + 1)
<1> DEFINE k == p + 1
           d2 == RedoRecord(d, log[k])
<1>0. /\ Len(log) \in Nat /\ Typed(log) /\ k \in 1 .. Len(log) /\ Makes(log, k)
      /\ \A j \in 1 .. k : j = k \/ (j \in 1 .. k - 1 /\ j + 1 \in 1 .. k /\ j \in 1 .. Len(log))
      /\ log[k].kind = "create_schema" /\ Done(log, k)
  BY DEF Recovering
<1>. HIDE DEF k
<1>1. ~log[k].clr /\ log[k].after = log[k].txn /\ log[k].txn \in Id
  <2>1. Fits(log[k]) /\ log[k].txn \in Id
    BY <1>0, RecordFields
  <2>. QED BY <1>0, <2>1 DEF Makes, Fits
<1>2. d2 = WriteMs(d, log[k].txn)
  BY <1>0, <1>1 DEF RedoRecord, RedoSchema
<1>3. ASSUME NEW j \in 1 .. k, Done(log, j) PROVE j = k
  <2>1. SUFFICES ASSUME j # k PROVE FALSE
    OBVIOUS
  <2>2. j + 1 \in 1 .. k /\ log[j + 1].kind = "commit"
    BY <1>0, <1>3, <2>1 DEF Done
  <2>3. j + 1 \in 1 .. k - 1
    BY <1>0, <2>2
  <2>. QED BY <1>0, <2>2, <2>3 DEF Recovering, LogInv, SchemaFirst
<1>4. d2 \in Files /\ d2.ok /\ d2.schema = log[k].txn /\ d2.dirs = d.dirs
  <2>1. d \in Files /\ d.ok /\ log[k].txn \in 0 .. MaxIds
    BY <1>1, CatalogAssumption DEF Redone, Sound, Id
  <2>. QED BY <1>2, <2>1 DEF WriteMs, Files
<1>. HIDE DEF d2
<1>5. StoredIn(d2)
  BY <1>0, <1>4 DEF Redone, Sound, StoredIn, MakesSchema
<1>6. ListedIn(d2) /\ FilesIn(d2)
  BY <1>4 DEF Redone, Sound, ListedIn, FilesIn
<1>7. RedoneIn(d2, k)
  BY <1>0, <1>3, <1>4 DEF RedoneIn
<1>8. IndexedIn(d2, k)
  BY <1>0, <1>3 DEF IndexedIn, MakesTable
<1>. QED BY <1>4, <1>5, <1>6, <1>7, <1>8 DEF Redone, Sound, d2, k

(* redo of CREATE TABLE.                                                   *)
LEMMA RedoCreateTable ==
  ASSUME Recovering, NEW d, NEW p \in Nat, p + 1 <= Len(log), Redone(d, p), Done(log, p + 1),
         log[p + 1].kind = "create_table"
  PROVE  Redone(RedoRecord(d, log[p + 1]), p + 1)
<1> DEFINE k == p + 1
           d2 == RedoRecord(d, log[k])
           mt == log[k].after
<1>0. /\ Len(log) \in Nat /\ Typed(log) /\ k \in 1 .. Len(log) /\ k \in Nat /\ Makes(log, k) /\ Once(log)
      /\ p <= k /\ k <= Len(log) /\ k - 1 <= p /\ DropsCreated(log, 0)
      /\ \A j \in 1 .. k : j \in 1 .. p \/ j = k
      /\ log[k].kind = "create_table" /\ Done(log, k)
  BY DEF Recovering, LogInv
<1>. HIDE DEF k
<1>1. ~log[k].clr /\ mt \in MetaTable /\ mt.id = log[k].txn /\ mt.indexes = EmptyBag
  <2>1. Fits(log[k])
    BY <1>0, RecordFields
  <2>. QED BY <1>0, <2>1 DEF Makes, Fits
<1>2. d2 = WriteMt(d, mt)
  BY <1>0, <1>1 DEF RedoRecord
<1>3. mt.schema_id = d.schema
  BY <1>0, KnownSchema DEF Changes
<1>4. Stems(mt, log, k) /\ MakesTable(log, k)
  BY <1>0, <1>1 DEF Stems, MakesTable
<1>5. DOMAIN mt.indexes = {}
  BY <1>1 DEF EmptyBag, SetToBag
<1>. HIDE DEF mt, d2
<1>6. Sound(d2) /\ Puts(d2, d, mt)
  BY <1>0, <1>1, <1>2, <1>3, <1>4, <1>5, WriteMtSound DEF Redone
<1>7. mt.indexes = SetToBag(Made(log, 0, mt.id, k))
  <2>1. ASSUME NEW x, Created(log, 0, x, mt.id, k) PROVE FALSE
    <3>1. PICK i \in 1 .. k : MakesIndex(log, i) /\ log[i].after.table_id = mt.id
      BY <2>1 DEF Created
    <3>2. i \in 1 .. Len(log)
      BY <1>0
    <3>3. HasTable(log, i)
      BY <3>1, <3>2 DEF Recovering, LogInv, TableBefore, MakesIndex
    <3>4. PICK j \in 1 .. i - 1 : MakesTable(log, j) /\ TableOf(log[i]) = log[j].txn
      BY <3>3 DEF HasTable
    <3>5. j \in 1 .. Len(log) /\ j # k /\ log[j].txn = log[k].txn
      BY <1>0, <1>1, <3>1, <3>4 DEF TableOf, MakesIndex
    <3>. QED BY <1>0, <3>4, <3>5 DEF Once, MakesTable
  <2>2. Made(log, 0, mt.id, k) = {}
    BY <2>1 DEF Made
  <2>. QED BY <1>1, <2>2 DEF EmptyBag
<1>8. \A t : Made(log, 0, t, k) = Made(log, 0, t, p)
  <2>1. ~(MakesIndex(log, k) \/ Drops(log, k))
    BY <1>4 DEF MakesIndex, Drops, MakesTable
  <2>. QED BY <1>0, <2>1, MadeStep DEF Step, k
<1>9. \A j \in 1 .. k : j \in 1 .. p \/ j = k
  BY <1>0
<1>10. /\ MakesTable(log, k) /\ Done(log, k) /\ log[k].txn = mt.id /\ log[k].after.name = mt.name
  BY <1>0, <1>1, <1>4 DEF mt
<1>11. Redone(d2, k)
  BY <1>0, <1>6, <1>7, <1>8, <1>9, <1>10, PutRedone, ZenonT(60)
<1>. QED BY <1>11 DEF d2, k

(* The statement that a record or a CLR is of.                             *)
LEMMA Origin ==
  ASSUME Recovering, NEW k \in 1 .. Len(log), log[k].kind \in Changes
  PROVE  \E i \in 1 .. k :
           /\ i \in 1 .. Len(log) /\ Makes(log, i) /\ log[i].kind = log[k].kind
           /\ log[i].txn = log[k].txn /\ log[i].before = log[k].before /\ log[i].after = log[k].after
           /\ log[k].clr => ~Done(log, i)
<1>0. Typed(log) /\ Len(log) \in Nat /\ k \in 1 .. k
  BY DEF Recovering
<1>1. CASE ~log[k].clr
  BY <1>0, <1>1 DEF Makes
<1>2. CASE log[k].clr
  <2>1. PICK i \in 1 .. k - 1 : Makes(log, i) /\ ~Done(log, i) /\ log[k] = MakeClr(log[i])
    BY <1>2 DEF Recovering, LogInv, ClrOf
  <2>2. i \in 1 .. Len(log) /\ i \in 1 .. k
    BY <1>0
  <2>3. log[i] \in LogRecord /\ Fits(log[i]) /\ ~log[i].clr /\ log[i].kind \in Changes
    BY <1>0, <2>1, <2>2, RecordFields DEF Makes
  <2>4. /\ MakeClr(log[i]).kind = log[i].kind /\ MakeClr(log[i]).txn = log[i].txn
        /\ MakeClr(log[i]).before = log[i].before /\ MakeClr(log[i]).after = log[i].after
    BY <2>3, ClrFields
  <2>. QED BY <2>1, <2>2, <2>4
<1>. QED BY <1>0, <1>1, <1>2, RecordFields

(* The image of an UpdateTable record is written.                          *)
LEMMA ImageSound ==
  ASSUME Recovering, NEW d, NEW p \in Nat, Redone(d, p), NEW k \in 1 .. Len(log), k - 1 <= p,
         log[k].kind = "update_table", NEW mt \in MetaTable, mt.id = log[k].before.id,
         mt.name = log[k].before.name, mt.schema_id = log[k].before.schema_id,
         mt.indexes = log[k].before.indexes
  PROVE  Sound(WriteMt(d, mt)) /\ Puts(WriteMt(d, mt), d, mt)
<1>0. Len(log) \in Nat /\ Typed(log) /\ running.txn = 0
  BY DEF Recovering
<1>1. PICK j \in 1 .. Len(log) : Finds(d, k, j)
  BY KnownTable
<1>2. mt.schema_id = d.schema
  BY KnownSchema DEF Changes
<1>3. Done(log, j) /\ Stems(mt, log, j)
  BY <1>1, <1>2 DEF Finds, Stems, TableOf
<1>4. ASSUME NEW x \in DOMAIN mt.indexes PROVE Created(log, 0, x, mt.id, Len(log) - 1)
  <2>1. PICK i \in 1 .. k : /\ i \in 1 .. Len(log) /\ Makes(log, i) /\ log[i].kind = "update_table"
                            /\ log[i].before = log[k].before
    BY Origin DEF Changes
  <2>2. Created(log, 0, x, mt.id, i - 1)
    BY <1>0, <1>4, <2>1 DEF Recovering, CatalogInv, ListedInv
  <2>3. i - 1 \in Int /\ Len(log) - 1 \in Int /\ i - 1 <= Len(log) - 1
    BY <1>0
  <2>. QED BY <2>2, <2>3, CreatedLater
<1>. QED BY <1>2, <1>3, <1>4, WriteMtSound DEF Redone

(* redo of an UpdateTable record.                                          *)
LEMMA RedoUpdateTable ==
  ASSUME Recovering, NEW d, NEW p \in Nat, NEW k \in 1 .. Len(log), k = p + 1, Redone(d, p),
         Done(log, k), log[k].kind = "update_table"
  PROVE  Redone(RedoRecord(d, log[k]), k)
<1> DEFINE mt == log[k].after
<1>0. /\ Len(log) \in Nat /\ Typed(log) /\ k \in Nat /\ Makes(log, k) /\ Once(log)
      /\ p <= k /\ k <= Len(log) /\ k - 1 = p /\ k - 1 <= p /\ DropsCreated(log, 0) /\ running.txn = 0
      /\ p + 1 <= Len(log) /\ \A j \in 1 .. k : j \in 1 .. p \/ j = k
  BY DEF Recovering, LogInv
<1>1. /\ ~log[k].clr /\ log[k].before \in MetaTable /\ mt = [log[k].before EXCEPT !.filled = TRUE]
  <2>1. Fits(log[k])
    BY <1>0, RecordFields
  <2>. QED BY <1>0, <2>1 DEF Makes, Fits
<1>2. /\ mt \in MetaTable /\ mt.id = log[k].before.id /\ mt.name = log[k].before.name
      /\ mt.schema_id = log[k].before.schema_id /\ mt.indexes = log[k].before.indexes
  BY <1>1 DEF MetaTable
<1>. HIDE DEF mt
<1>3. PICK j \in 1 .. Len(log) : Finds(d, k, j)
  BY <1>0, KnownTable
<1>4. /\ log[j].txn = mt.id /\ log[j].after.name = mt.name /\ MakesTable(log, j) /\ Done(log, j)
  BY <1>2, <1>3 DEF Finds, TableOf
<1>5. \E q \in StoredTables(d) : q.id = mt.id
  BY <1>3, <1>4 DEF Finds
<1>6. RedoRecord(d, log[k]) = WriteMt(d, mt)
  BY <1>1, <1>5 DEF RedoRecord, ChangeTable, mt
<1>7. Sound(WriteMt(d, mt)) /\ Puts(WriteMt(d, mt), d, mt)
  BY <1>0, <1>2, ImageSound
<1>8. \A t : Made(log, 0, t, k) = Made(log, 0, t, p)
  <2>1. ~(MakesIndex(log, k) \/ Drops(log, k))
    BY DEF MakesIndex, Drops
  <2>. QED BY <1>0, <2>1, MadeStep DEF Step
<1>9. ~Spoiled(log, mt.id) => mt.indexes = SetToBag(Made(log, 0, mt.id, k))
  BY <1>0, <1>2, <1>8 DEF Recovering, CatalogInv, IndexesInv
<1>10. Redone(WriteMt(d, mt), k)
  <2>1. \A i \in 1 .. k :
          i \in 1 .. p \/ i = j \/ ~Done(log, i) \/ log[i].kind \notin {"create_schema", "create_table"}
    BY <1>0
  <2>2. \A t : t # mt.id => Made(log, 0, t, k) = Made(log, 0, t, p)
    BY <1>8
  <2>3. p <= k /\ k <= Len(log) /\ k \in Nat
    BY <1>0
  <2>. QED BY <1>4, <1>7, <1>9, <2>1, <2>2, <2>3, PutRedone
<1>. QED BY <1>6, <1>10

(* undo of an UpdateTable record, and redo of its CLR.                     *)
LEMMA UndoUpdateTable ==
  ASSUME Recovering, NEW d, NEW p \in Nat, p <= Len(log), NEW k \in 1 .. Len(log), k - 1 <= p,
         Redone(d, p), log[k].clr, log[k].kind = "update_table"
  PROVE  Redone(RedoRecord(d, log[k]), p)
<1> DEFINE mt == log[k].before
<1>0. Len(log) \in Nat /\ Typed(log)
  BY DEF Recovering
<1>1. mt \in MetaTable
  <2>1. Fits(log[k])
    BY <1>0, RecordFields
  <2>. QED BY <2>1 DEF Fits
<1>2. RedoRecord(d, log[k]) = WriteMt(d, mt)
  BY DEF RedoRecord
<1>3. PICK j \in 1 .. Len(log) : Finds(d, k, j)
  BY KnownTable
<1>4. /\ log[j].txn = mt.id /\ log[j].after.name = mt.name /\ MakesTable(log, j) /\ Done(log, j)
  BY <1>3 DEF Finds, TableOf
<1>5. Sound(WriteMt(d, mt)) /\ Puts(WriteMt(d, mt), d, mt)
  BY <1>1, ImageSound
<1>6. Spoiled(log, mt.id)
  BY DEF Spoiled, TableOf
<1>. HIDE DEF mt
<1>7. Redone(WriteMt(d, mt), p)
  <2>1. p <= p /\ \A i \in 1 .. p : i \in 1 .. p
    OBVIOUS
  <2>. QED BY <1>4, <1>5, <1>6, <2>1, PutRedone
<1>. QED BY <1>2, <1>7

(* d2 is d with another list of indexes for the table made at j            *)
Lists(d2, d, j, listing) ==
  \E mt : /\ Sound(d2) /\ Puts(d2, d, mt)
          /\ mt.id = log[j].txn /\ mt.name = log[j].after.name /\ mt.indexes = listing

(* write_mt of a table whose list of indexes changed.                      *)
LEMMA ListingSound ==
  ASSUME Recovering, NEW d, Sound(d), NEW k, NEW j \in 1 .. Len(log), Finds(d, k, j),
         NEW listing \in Listing, \A x \in DOMAIN listing : Created(log, 0, x, log[j].txn, Len(log) - 1)
  PROVE  Lists(ChangeTable(d, log[j].txn, [TableMeta(d, log[j].txn) EXCEPT !.indexes = listing]),
               d, j, listing)
<1> DEFINE old == TableMeta(d, log[j].txn)
           mt == [old EXCEPT !.indexes = listing]
<1>1. /\ old \in MetaTable /\ old.id = log[j].txn /\ old.name = log[j].after.name
      /\ old.schema_id = d.schema /\ old \in StoredTables(d) /\ Done(log, j) /\ Stems(old, log, j)
  BY DEF Finds, Stems
<1>. HIDE DEF old
<1>2. /\ mt \in MetaTable /\ mt.id = old.id /\ mt.name = old.name /\ mt.schema_id = old.schema_id
      /\ mt.indexes = listing
  BY <1>1 DEF MetaTable
<1>3. ChangeTable(d, log[j].txn, mt) = WriteMt(d, mt)
  BY <1>1 DEF ChangeTable
<1>. HIDE DEF mt
<1>4. Stems(mt, log, j)
  BY <1>1, <1>2 DEF Stems
<1>5. Sound(WriteMt(d, mt)) /\ Puts(WriteMt(d, mt), d, mt)
  BY <1>1, <1>2, <1>4, WriteMtSound
<1>6. Lists(ChangeTable(d, log[j].txn, mt), d, j, listing)
  BY <1>1, <1>2, <1>3, <1>5 DEF Lists
<1>. QED BY <1>6 DEF mt, old

(* What is left to show of such a change.                                  *)
LEMMA ListsRedone ==
  ASSUME Recovering, NEW d, NEW d2, NEW p \in Nat, NEW q \in Nat, p <= q, q <= Len(log), Redone(d, p),
         NEW k, NEW j \in 1 .. Len(log), Finds(d, k, j), NEW listing, Lists(d2, d, j, listing),
         \A i \in 1 .. q :
           i \in 1 .. p \/ ~Done(log, i) \/ log[i].kind \notin {"create_schema", "create_table"},
         ~Spoiled(log, log[j].txn) => listing = SetToBag(Made(log, 0, log[j].txn, q)),
         \A t : t # log[j].txn => Made(log, 0, t, q) = Made(log, 0, t, p)
  PROVE  Redone(d2, q)
<1>1. PICK mt : /\ Sound(d2) /\ Puts(d2, d, mt)
                /\ mt.id = log[j].txn /\ mt.name = log[j].after.name /\ mt.indexes = listing
  BY DEF Lists
<1>2. MakesTable(log, j) /\ Done(log, j)
  BY DEF Finds
<1>. QED BY <1>1, <1>2, PutRedone

(* The list of indexes that the metadata file has.                         *)
LEMMA OldListing ==
  ASSUME Recovering, NEW d, NEW p \in Nat, Redone(d, p), NEW k \in 1 .. Len(log), k - 1 <= p,
         NEW j \in 1 .. Len(log), Finds(d, k, j)
  PROVE  /\ TableMeta(d, log[j].txn).indexes \in Listing
         /\ \A x \in DOMAIN TableMeta(d, log[j].txn).indexes : Created(log, 0, x, log[j].txn, Len(log) - 1)
         /\ ~Spoiled(log, log[j].txn) =>
              TableMeta(d, log[j].txn).indexes = SetToBag(Made(log, 0, log[j].txn, p))
<1>1. /\ TableMeta(d, log[j].txn) = d.dirs[log[j].after.name].meta /\ log[j].after.name \in Names
      /\ d.dirs[log[j].after.name].meta.id = log[j].txn
      /\ d.dirs[log[j].after.name].meta \in MetaTable
      /\ j \in 1 .. k - 1 /\ MakesTable(log, j) /\ Done(log, j)
  BY DEF Finds
<1>2. j \in 1 .. p
  BY <1>1 DEF Recovering
<1>3. TableMeta(d, log[j].txn).indexes \in Listing
  BY <1>1 DEF MetaTable
<1>4. \A x \in DOMAIN TableMeta(d, log[j].txn).indexes : Created(log, 0, x, log[j].txn, Len(log) - 1)
  BY <1>1 DEF Redone, Sound, ListedIn
<1>. QED BY <1>1, <1>2, <1>3, <1>4 DEF Redone, IndexedIn

(* A record about an index, as a change to the list of its table.          *)
LEMMA IndexRecord ==
  ASSUME Recovering, NEW d, NEW p \in Nat, Redone(d, p), NEW k \in 1 .. Len(log), k - 1 <= p,
         log[k].kind \in {"create_index", "drop_index"},
         NEW index, index = IF log[k].kind = "create_index" THEN log[k].after ELSE log[k].before
  PROVE  /\ index \in MetaIndex /\ index.id \in Id /\ index.table_id = TableOf(log[k])
         /\ index.table_id \in Id
<1>1. Fits(log[k])
  BY RecordFields DEF Recovering
<1>2. index \in MetaIndex
  BY <1>1 DEF Fits
<1>. QED BY <1>2 DEF MetaIndex, TableOf

(* Redo of CREATE INDEX, or undo of DROP INDEX, finds the table.           *)
LEMMA AddIndexSound ==
  ASSUME Recovering, NEW d, NEW p \in Nat, Redone(d, p), NEW k \in 1 .. Len(log), k - 1 <= p,
         NEW index, index.id \in Id, NEW j \in 1 .. Len(log), Finds(d, k, j),
         index.table_id = log[j].txn, Created(log, 0, index.id, log[j].txn, Len(log) - 1)
  PROVE  Lists(AddIndex(d, index), d, j, TableMeta(d, log[j].txn).indexes (+) SetToBag({index.id}))
<1> DEFINE old == TableMeta(d, log[j].txn)
           listing == old.indexes (+) SetToBag({index.id})
<1>1. /\ old.indexes \in Listing
      /\ \A x \in DOMAIN old.indexes : Created(log, 0, x, log[j].txn, Len(log) - 1)
  BY OldListing
<1>2. AddIndex(d, index) = ChangeTable(d, log[j].txn, [TableMeta(d, log[j].txn) EXCEPT !.indexes = listing])
  BY DEF AddIndex
<1>. HIDE DEF old
<1>3. listing \in Listing /\ DOMAIN listing = DOMAIN old.indexes \union {index.id}
  BY <1>1, ListingKept
<1>. HIDE DEF listing
<1>4. \A x \in DOMAIN listing : Created(log, 0, x, log[j].txn, Len(log) - 1)
  BY <1>1, <1>3
<1>5. Lists(AddIndex(d, index), d, j, listing)
  BY <1>2, <1>3, <1>4, ListingSound DEF Redone
<1>. QED BY <1>5 DEF listing, old

(* Redo of DROP INDEX, or undo of CREATE INDEX, finds the table.           *)
LEMMA EraseIndexSound ==
  ASSUME Recovering, NEW d, NEW p \in Nat, Redone(d, p), NEW k \in 1 .. Len(log), k - 1 <= p,
         NEW index, index.id \in Id, NEW j \in 1 .. Len(log), Finds(d, k, j),
         index.table_id = log[j].txn
  PROVE  Lists(EraseIndex(d, index), d, j, Without(TableMeta(d, log[j].txn).indexes, index.id))
<1> DEFINE old == TableMeta(d, log[j].txn)
           listing == Without(old.indexes, index.id)
<1>1. /\ old.indexes \in Listing
      /\ \A x \in DOMAIN old.indexes : Created(log, 0, x, log[j].txn, Len(log) - 1)
  BY OldListing
<1>2. EraseIndex(d, index) = ChangeTable(d, log[j].txn, [TableMeta(d, log[j].txn) EXCEPT !.indexes = listing])
  BY DEF EraseIndex
<1>. HIDE DEF old
<1>3. listing \in Listing /\ DOMAIN listing = DOMAIN old.indexes \ {index.id}
  BY <1>1, ListingKept
<1>. HIDE DEF listing
<1>4. \A x \in DOMAIN listing : Created(log, 0, x, log[j].txn, Len(log) - 1)
  BY <1>1, <1>3
<1>5. Lists(EraseIndex(d, index), d, j, listing)
  BY <1>2, <1>3, <1>4, ListingSound DEF Redone
<1>. QED BY <1>5 DEF listing, old

(* redo of CREATE INDEX.                                                   *)
LEMMA RedoCreateIndex ==
  ASSUME Recovering, NEW d, NEW p \in Nat, NEW k \in 1 .. Len(log), k = p + 1, Redone(d, p),
         Done(log, k), log[k].kind = "create_index"
  PROVE  Redone(RedoRecord(d, log[k]), k)
<1> DEFINE index == log[k].after
<1>0. /\ Len(log) \in Nat /\ Typed(log) /\ k \in Nat /\ Makes(log, k) /\ Once(log)
      /\ p <= k /\ k <= Len(log) /\ k - 1 <= p /\ DropsCreated(log, 0)
      /\ p + 1 <= Len(log) /\ k \in 1 .. Len(log) - 1
      /\ \A i \in 1 .. k : i \in 1 .. p \/ i = k
  BY DEF Recovering, LogInv
<1>1. ~log[k].clr /\ index.id = log[k].txn
  <2>1. Fits(log[k])
    BY <1>0, RecordFields
  <2>. QED BY <1>0, <2>1 DEF Makes, Fits
<1>2. index \in MetaIndex /\ index.id \in Id /\ index.table_id = TableOf(log[k])
  BY <1>0, IndexRecord
<1>3. PICK j \in 1 .. Len(log) : Finds(d, k, j)
  BY <1>0, KnownTable
<1>4. index.table_id = log[j].txn
  BY <1>2, <1>3 DEF Finds
<1>5. RedoRecord(d, log[k]) = AddIndex(d, index)
  BY <1>1 DEF RedoRecord
<1>6. MakesIndex(log, k) /\ Live(log, 0, k) /\ log[k].after.table_id = log[j].txn
  BY <1>0, <1>4 DEF MakesIndex, Recovering
<1>7. Created(log, 0, index.id, log[j].txn, Len(log) - 1)
  BY <1>0, <1>1, <1>6 DEF Created
<1>. HIDE DEF index
<1> DEFINE listing == TableMeta(d, log[j].txn).indexes (+) SetToBag({index.id})
           d2 == AddIndex(d, index)
<1>8. Lists(d2, d, j, listing)
  BY <1>0, <1>2, <1>3, <1>4, <1>7, AddIndexSound
<1>9. \A t : Step(log, 0, t, p)
  BY <1>0, MadeStep
<1>10. ~Spoiled(log, log[j].txn) => listing = SetToBag(Made(log, 0, log[j].txn, k))
  <2>1. SUFFICES ASSUME ~Spoiled(log, log[j].txn) PROVE listing = SetToBag(Made(log, 0, log[j].txn, k))
    OBVIOUS
  <2>2. TableMeta(d, log[j].txn).indexes = SetToBag(Made(log, 0, log[j].txn, p))
    BY <1>0, <1>3, <2>1, OldListing
  <2>3. /\ Made(log, 0, log[j].txn, k) = Made(log, 0, log[j].txn, p) \union {index.id}
        /\ index.id \notin Made(log, 0, log[j].txn, p)
    BY <1>1, <1>6, <1>9 DEF Step
  <2>. QED BY <2>2, <2>3, AddToBag
<1>11. \A t : t # log[j].txn => Made(log, 0, t, k) = Made(log, 0, t, p)
  BY <1>6, <1>9 DEF Step
<1>12. \A i \in 1 .. k :
         i \in 1 .. p \/ ~Done(log, i) \/ log[i].kind \notin {"create_schema", "create_table"}
  BY <1>0
<1>13. p <= k /\ k <= Len(log) /\ k \in Nat
  BY <1>0
<1>. HIDE DEF listing, d2
<1>14. Redone(d2, k)
  BY <1>3, <1>8, <1>10, <1>11, <1>12, <1>13, ListsRedone
<1>. QED BY <1>5, <1>14 DEF d2

(* redo of DROP INDEX.                                                     *)
LEMMA RedoDropIndex ==
  ASSUME Recovering, NEW d, NEW p \in Nat, NEW k \in 1 .. Len(log), k = p + 1, Redone(d, p),
         Done(log, k), log[k].kind = "drop_index"
  PROVE  Redone(RedoRecord(d, log[k]), k)
<1> DEFINE index == log[k].before
<1>0. /\ Len(log) \in Nat /\ Typed(log) /\ k \in Nat /\ Makes(log, k) /\ Once(log)
      /\ p <= k /\ k <= Len(log) /\ k - 1 <= p /\ DropsCreated(log, 0)
      /\ p + 1 <= Len(log) /\ \A i \in 1 .. k : i \in 1 .. p \/ i = k
  BY DEF Recovering, LogInv
<1>1. ~log[k].clr
  BY <1>0 DEF Makes
<1>2. index \in MetaIndex /\ index.id \in Id /\ index.table_id = TableOf(log[k])
  BY <1>0, IndexRecord
<1>3. PICK j \in 1 .. Len(log) : Finds(d, k, j)
  BY <1>0, KnownTable
<1>4. index.table_id = log[j].txn
  BY <1>2, <1>3 DEF Finds
<1>5. RedoRecord(d, log[k]) = EraseIndex(d, index)
  BY <1>1 DEF RedoRecord
<1>6. Drops(log, k) /\ Live(log, 0, k) /\ log[k].before = index
  BY <1>0 DEF Drops, Recovering
<1>. HIDE DEF index
<1> DEFINE listing == Without(TableMeta(d, log[j].txn).indexes, index.id)
           d2 == EraseIndex(d, index)
<1>8. Lists(d2, d, j, listing)
  BY <1>0, <1>2, <1>3, <1>4, EraseIndexSound
<1>9. \A t : Made(log, 0, t, k) = Made(log, 0, t, p) \ {index.id}
  <2>1. \A t : Step(log, 0, t, p)
    BY <1>0, MadeStep
  <2>. QED BY <1>6, <2>1 DEF Step
<1>10. ~Spoiled(log, log[j].txn) => listing = SetToBag(Made(log, 0, log[j].txn, k))
  <2>1. SUFFICES ASSUME ~Spoiled(log, log[j].txn) PROVE listing = SetToBag(Made(log, 0, log[j].txn, k))
    OBVIOUS
  <2>2. TableMeta(d, log[j].txn).indexes = SetToBag(Made(log, 0, log[j].txn, p))
    BY <1>0, <1>3, <2>1, OldListing
  <2>. QED BY <1>9, <2>2, TakeFromBag
<1>11. ASSUME NEW t, t # log[j].txn PROVE Made(log, 0, t, k) = Made(log, 0, t, p)
  <2>1. ASSUME Created(log, 0, index.id, t, p) PROVE FALSE
    <3>1. PICK i \in 1 .. p : MakesIndex(log, i) /\ log[i].txn = index.id /\ log[i].after.table_id = t
      BY <2>1 DEF Created
    <3>2. Created(log, 0, index.id, log[j].txn, k - 1)
      BY <1>0, <1>4, <1>6 DEF DropsCreated
    <3>3. PICK l \in 1 .. k - 1 :
            MakesIndex(log, l) /\ log[l].txn = index.id /\ log[l].after.table_id = log[j].txn
      BY <3>2 DEF Created
    <3>4. i = l
      BY <1>0, <3>1, <3>3 DEF Once, MakesIndex
    <3>. QED BY <1>11, <3>1, <3>3, <3>4
  <2>2. index.id \notin Made(log, 0, t, p)
    BY <2>1 DEF Made
  <2>. QED BY <1>9, <2>2
<1>12. \A i \in 1 .. k :
         i \in 1 .. p \/ ~Done(log, i) \/ log[i].kind \notin {"create_schema", "create_table"}
  BY <1>0
<1>13. p <= k /\ k <= Len(log) /\ k \in Nat
  BY <1>0
<1>. HIDE DEF listing, d2
<1>14. Redone(d2, k)
  BY <1>3, <1>8, <1>10, <1>11, <1>12, <1>13, ListsRedone
<1>. QED BY <1>5, <1>14 DEF d2

(* An empty directory.                                                     *)
LEMMA EmptyDir ==
  NoDir \in Dir /\ NoDir.meta = NoTable /\ DOMAIN NoTable.indexes = {}
<1>1. NoDir \in Dir /\ NoDir.meta = NoTable
  BY DEF NoDir, Dir
<1>2. NoTable.indexes = EmptyBag
  BY DEF NoTable, Table
<1>. QED BY <1>1, <1>2 DEF EmptyBag, SetToBag

(* undo of CREATE SCHEMA: nothing was committed.                           *)
LEMMA UndoCreateSchema ==
  ASSUME Recovering, NEW d, NEW p \in Nat, NEW k \in 1 .. Len(log), Redone(d, p),
         log[k].clr, log[k].kind = "create_schema", \A j \in 1 .. p : ~Done(log, j)
  PROVE  Redone(RedoRecord(d, log[k]), p)
<1> DEFINE d2 == RedoRecord(d, log[k])
           none == [n \in Names |-> NoDir]
<1>1. d2 = [d EXCEPT !.schema = 0, !.dirs = none]
  BY DEF RedoRecord, RedoSchema, DeleteMs
<1>2. d \in Files /\ d.ok /\ 0 \in 0 .. MaxIds /\ none \in [Names -> Dir]
  BY EmptyDir, CatalogAssumption DEF Redone, Sound
<1>. HIDE DEF d2, none
<1>3. d2 \in Files /\ d2.ok /\ d2.schema = 0 /\ d2.dirs = none
  BY <1>1, <1>2 DEF Files
<1>4. \A n \in Names : d2.dirs[n].meta = NoTable
  BY <1>3, EmptyDir DEF none
<1>5. StoredIn(d2) /\ ListedIn(d2)
  BY <1>3, <1>4, EmptyDir DEF StoredIn, ListedIn
<1>6. \A s : Removed(log, s)
  BY DEF Removed
<1>7. FilesIn(d2)
  BY <1>6 DEF FilesIn
<1>8. RedoneIn(d2, p) /\ IndexedIn(d2, p)
  BY DEF RedoneIn, IndexedIn
<1>. QED BY <1>3, <1>5, <1>7, <1>8 DEF Redone, Sound, d2

(* undo of CREATE TABLE: no committed table has the name.                  *)
LEMMA UndoCreateTable ==
  ASSUME Recovering, NEW d, NEW p \in Nat, p <= Len(log), NEW k \in 1 .. Len(log), k - 1 <= p, Redone(d, p),
         log[k].clr, log[k].kind = "create_table",
         \A j \in 1 .. p : MakesTable(log, j) /\ Done(log, j) => log[j].after.name # log[k].after.name
  PROVE  Redone(RedoRecord(d, log[k]), p)
<1> DEFINE d2 == RedoRecord(d, log[k])
           name == log[k].after.name
<1>0. /\ Len(log) \in Nat /\ Typed(log) /\ \A j \in 1 .. p : j \in 1 .. Len(log)
      /\ \A j \in 1 .. Len(log) : Done(log, j) => Makes(log, j)
  BY DEF Recovering
<1>1. log[k].after.schema_id = d.schema /\ name \in Names
  <2>1. Fits(log[k])
    BY <1>0, RecordFields
  <2>2. log[k].after.schema_id = d.schema
    BY KnownSchema DEF Changes
  <2>. QED BY <2>1, <2>2 DEF Fits, MetaTable
<1>2. d \in Files /\ d.ok /\ d.dirs \in [Names -> Dir]
  BY DEF Redone, Sound, Files
<1>3. d2 = [d EXCEPT !.dirs = [d.dirs EXCEPT ![name] = NoDir]]
  BY <1>1, <1>2 DEF RedoRecord, DeleteMt, Files
<1>. HIDE DEF d2, name
<1>4. d2.schema = d.schema /\ d2.ok /\ d2.dirs = [d.dirs EXCEPT ![name] = NoDir] /\ d2 \in Files
  BY <1>1, <1>2, <1>3, EmptyDir DEF Files
<1>5. d2.dirs[name].meta = NoTable /\ \A n \in Names : n # name => d2.dirs[n] = d.dirs[n]
  BY <1>1, <1>2, <1>4, EmptyDir
<1>6. StoredIn(d2)
  BY <1>4, <1>5 DEF Redone, Sound, StoredIn
<1>7. ListedIn(d2)
  BY <1>5, EmptyDir DEF Redone, Sound, ListedIn
<1>8. \A j \in 1 .. Len(log) : MakesTable(log, j) => log[j].after.name \in Names
  BY <1>0, RecordFields DEF MakesTable, Fits, MetaTable
<1>9. FilesIn(d2)
  <2>1. Removed(log, name)
    BY DEF Removed, name
  <2>. QED BY <1>5, <1>8, <2>1 DEF Redone, Sound, FilesIn
<1>10. ASSUME NEW j \in 1 .. p, MakesTable(log, j), Done(log, j)
       PROVE  d2.dirs[log[j].after.name] = d.dirs[log[j].after.name]
  BY <1>0, <1>5, <1>8, <1>10 DEF name
<1>11. RedoneIn(d2, p)
  <2>1. \A j \in 1 .. p : Done(log, j) /\ log[j].kind = "create_table" => MakesTable(log, j)
    BY <1>0 DEF MakesTable
  <2>. QED BY <1>4, <1>10, <2>1 DEF Redone, RedoneIn
<1>12. IndexedIn(d2, p)
  BY <1>10 DEF Redone, IndexedIn
<1>. QED BY <1>4, <1>6, <1>7, <1>9, <1>11, <1>12 DEF Redone, Sound, d2

(* undo of CREATE INDEX: what was never committed is not in the list.      *)
LEMMA UndoCreateIndex ==
  ASSUME Recovering, NEW d, NEW p \in Nat, p <= Len(log), NEW k \in 1 .. Len(log), k - 1 <= p, Redone(d, p),
         log[k].clr, log[k].kind = "create_index"
  PROVE  Redone(RedoRecord(d, log[k]), p)
<1> DEFINE index == log[k].after
<1>0. /\ Len(log) \in Nat /\ Typed(log) /\ Once(log)
      /\ \A i \in 1 .. Len(log) : Live(log, 0, i) <=> Done(log, i)
  BY DEF Recovering, LogInv
<1>1. index.id = log[k].txn
  <2>1. Fits(log[k])
    BY <1>0, RecordFields
  <2>. QED BY <2>1 DEF Fits
<1>2. index \in MetaIndex /\ index.id \in Id /\ index.table_id = TableOf(log[k])
  BY IndexRecord
<1>3. PICK j \in 1 .. Len(log) : Finds(d, k, j)
  BY KnownTable
<1>4. index.table_id = log[j].txn
  BY <1>2, <1>3 DEF Finds
<1>5. RedoRecord(d, log[k]) = EraseIndex(d, index)
  BY DEF RedoRecord
<1>6. \A t : ~Created(log, 0, index.id, t, p)
  <2>1. PICK i \in 1 .. k : i \in 1 .. Len(log) /\ Makes(log, i) /\ log[i].txn = log[k].txn /\ ~Done(log, i)
    BY Origin DEF Changes
  <2>2. ASSUME NEW t, Created(log, 0, index.id, t, p) PROVE FALSE
    <3>1. PICK l \in 1 .. p : MakesIndex(log, l) /\ Live(log, 0, l) /\ log[l].txn = index.id
      BY <2>2 DEF Created
    <3>2. l \in 1 .. Len(log)
      BY <1>0
    <3>3. l = i
      BY <1>0, <1>1, <2>1, <3>1, <3>2 DEF Once, MakesIndex
    <3>. QED BY <1>0, <2>1, <3>1, <3>2, <3>3
  <2>. QED BY <2>2
<1>. HIDE DEF index
<1> DEFINE listing == Without(TableMeta(d, log[j].txn).indexes, index.id)
           d2 == EraseIndex(d, index)
<1>7. Lists(d2, d, j, listing)
  BY <1>2, <1>3, <1>4, EraseIndexSound
<1>8. ~Spoiled(log, log[j].txn) => listing = SetToBag(Made(log, 0, log[j].txn, p))
  <2>1. SUFFICES ASSUME ~Spoiled(log, log[j].txn) PROVE listing = SetToBag(Made(log, 0, log[j].txn, p))
    OBVIOUS
  <2>2. TableMeta(d, log[j].txn).indexes = SetToBag(Made(log, 0, log[j].txn, p))
    BY <1>3, <2>1, OldListing
  <2>3. Made(log, 0, log[j].txn, p) \ {index.id} = Made(log, 0, log[j].txn, p)
    BY <1>6 DEF Made
  <2>. QED BY <2>2, <2>3, TakeFromBag
<1>9. p <= p /\ \A i \in 1 .. p : i \in 1 .. p
  OBVIOUS
<1>. HIDE DEF listing, d2
<1>10. Redone(d2, p)
  BY <1>3, <1>7, <1>8, <1>9, ListsRedone
<1>. QED BY <1>5, <1>10 DEF d2

(* undo of DROP INDEX, although redo has not done it.                      *)
LEMMA UndoDropIndex ==
  ASSUME Recovering, NEW d, NEW p \in Nat, p <= Len(log), NEW k \in 1 .. Len(log), k - 1 <= p, Redone(d, p),
         log[k].clr, log[k].kind = "drop_index"
  PROVE  Redone(RedoRecord(d, log[k]), p)
<1> DEFINE index == log[k].before
<1>0. Len(log) \in Nat /\ Typed(log) /\ DropsCreated(log, 0)
  BY DEF Recovering
<1>1. index \in MetaIndex /\ index.id \in Id /\ index.table_id = TableOf(log[k])
  BY IndexRecord
<1>2. PICK j \in 1 .. Len(log) : Finds(d, k, j)
  BY KnownTable
<1>3. index.table_id = log[j].txn
  BY <1>1, <1>2 DEF Finds
<1>4. RedoRecord(d, log[k]) = AddIndex(d, index)
  BY DEF RedoRecord
<1>5. Created(log, 0, index.id, log[j].txn, Len(log) - 1)
  <2>1. PICK i \in 1 .. k : /\ i \in 1 .. Len(log) /\ Makes(log, i) /\ log[i].kind = "drop_index"
                            /\ log[i].before = log[k].before
    BY Origin DEF Changes
  <2>2. Created(log, 0, index.id, log[j].txn, i - 1)
    BY <1>0, <1>3, <2>1 DEF DropsCreated, Drops
  <2>3. i - 1 \in Int /\ Len(log) - 1 \in Int /\ i - 1 <= Len(log) - 1
    BY <1>0
  <2>. QED BY <2>2, <2>3, CreatedLater
<1>6. Spoiled(log, log[j].txn)
  <2>1. TableOf(log[k]) = log[j].txn
    BY <1>1, <1>3
  <2>. QED BY <2>1 DEF Spoiled
<1>. HIDE DEF index
<1> DEFINE listing == TableMeta(d, log[j].txn).indexes (+) SetToBag({index.id})
           d2 == AddIndex(d, index)
<1>7. Lists(d2, d, j, listing)
  BY <1>1, <1>2, <1>3, <1>5, AddIndexSound
<1>8. p <= p /\ \A i \in 1 .. p : i \in 1 .. p
  OBVIOUS
<1>. HIDE DEF listing, d2
<1>9. Redone(d2, p)
  BY <1>2, <1>6, <1>7, <1>8, ListsRedone
<1>. QED BY <1>4, <1>9 DEF d2

(* A CLR, whether it is redone or has just been logged.                    *)
LEMMA ClrRedone ==
  ASSUME Recovering, NEW d, NEW p \in Nat, p <= Len(log), NEW k \in 1 .. Len(log), k - 1 <= p, Redone(d, p),
         log[k].clr,
         log[k].kind = "create_schema" => \A j \in 1 .. p : ~Done(log, j),
         log[k].kind = "create_table" =>
           \A j \in 1 .. p : MakesTable(log, j) /\ Done(log, j) => log[j].after.name # log[k].after.name
  PROVE  Redone(RedoRecord(d, log[k]), p)
<1>1. log[k].kind \in Changes
  BY RecordFields DEF Recovering
<1>. QED BY <1>1, UndoCreateSchema, UndoCreateTable, UndoUpdateTable, UndoCreateIndex, UndoDropIndex DEF Changes

(* A committed record.                                                     *)
LEMMA DoneRedone ==
  ASSUME Recovering, NEW d, NEW p \in Nat, p + 1 <= Len(log), Redone(d, p), Done(log, p + 1)
  PROVE  Redone(RedoRecord(d, log[p + 1]), p + 1)
<1> DEFINE k == p + 1
<1>1. k \in 1 .. Len(log) /\ k = p + 1 /\ Done(log, k)
  BY DEF Recovering
<1>2. log[k].kind \in Changes
  BY <1>1 DEF Recovering, Makes
<1>3. CASE log[k].kind = "create_schema"
  BY <1>3, RedoCreateSchema
<1>4. CASE log[k].kind = "create_table"
  BY <1>4, RedoCreateTable
<1>. HIDE DEF k
<1>5. CASE log[k].kind \in {"update_table", "create_index", "drop_index"}
  BY <1>1, <1>5, RedoUpdateTable, RedoCreateIndex, RedoDropIndex DEF k
<1>. QED BY <1>2, <1>3, <1>4, <1>5 DEF Changes, k

(* Files that nothing has thrown on.                                       *)
LEMMA LeaveOk ==
  ASSUME NEW d \in Files, d.ok, Leave(d)
  PROVE  disk' = d /\ phase' = phase
BY DEF Leave, Files

(* Redo of one record: it never throws, and leaves what the records up to  *)
(* this one made.                                                          *)
LEMMA RedoKeeps ==
  ASSUME CatalogInv, Redo
  PROVE  CatalogInv'
<1> DEFINE p == at - 1
           r == log[at]
           d == IF Eligible(r) THEN RedoRecord(disk, r) ELSE disk
<1>1. Recovering /\ Redone(disk, Upto)
  BY InRecovery DEF Redo
<1>2. /\ phase = "redo" /\ at \in 1 .. Len(log) /\ Len(log) \in Nat /\ Typed(log) /\ LogInv(log)
      /\ at' = at + 1 /\ DOMAIN log = 1 .. Len(log)
      /\ IF Eligible(r) THEN Leave(d) ELSE phase' = phase /\ disk' = d
  BY <1>1, RecordFields DEF Redo, Replace, Recovering, CatalogInv, WalkInv
<1>3. p \in Nat /\ p + 1 = at /\ p + 1 <= Len(log) /\ p <= Len(log) /\ at - 1 <= p /\ Upto = p
  BY <1>2 DEF Upto
<1>4. Redone(disk, p) /\ disk \in Files /\ disk.ok
  BY <1>1, <1>3 DEF Redone, Sound
<1>5. /\ r.kind \in Changes \union Markers /\ (r.clr => r.kind \in Changes)
      /\ r.kind \in Changes /\ ~r.clr => Makes(log, at)
  BY <1>2, RecordFields DEF Makes
<1>6. Makes(log, at) => (Eligible(r) <=> Done(log, at))
  <2>1. SUFFICES ASSUME Makes(log, at) PROVE Eligible(r) <=> Done(log, at)
    OBVIOUS
  <2>2. ~r.clr
    BY <2>1 DEF Makes
  <2>3. r.txn \in TxnsWith("commit") <=> \E k \in 1 .. Len(log) : log[k].kind = "commit" /\ log[k].txn = r.txn
    BY <1>2 DEF TxnsWith
  <2>4. Done(log, at) <=> \E k \in 1 .. Len(log) : log[k].kind = "commit" /\ log[k].txn = r.txn
    BY <1>2, <2>1, DoneCommitted DEF LogInv
  <2>. QED BY <2>2, <2>3, <2>4 DEF Eligible
<1>. HIDE DEF p, d
<1>7. Redone(d, at)
  <2>1. CASE r.clr
    <3>1. d = RedoRecord(disk, log[at])
      BY <2>1 DEF d, Eligible
    <3>2. ASSUME log[at].kind = "create_schema", NEW j \in 1 .. p, Done(log, j) PROVE FALSE
      <4>1. j + 1 \in 1 .. at /\ log[j + 1].kind = "commit"
        BY <1>2, <1>3, <3>2 DEF Done
      <4>2. j + 1 \in 1 .. at - 1
        BY <1>2, <3>2, <4>1
      <4>. QED BY <1>2, <3>2, <4>1, <4>2 DEF LogInv, SchemaFirst
    <3>3. ASSUME log[at].kind = "create_table", NEW j \in 1 .. p, MakesTable(log, j), Done(log, j)
          PROVE  log[j].after.name # log[at].after.name
      <4>1. j \in 1 .. at - 1
        BY <1>2, <1>3
      <4>. QED BY <1>2, <3>3, <4>1 DEF LogInv, NamesDiffer
    <3>4. Redone(d, p)
      BY <1>1, <1>2, <1>3, <1>4, <2>1, <3>1, <3>2, <3>3, ClrRedone
    <3>5. ~Done(log, p + 1)
      BY <1>3, <2>1 DEF Done, Makes
    <3>. QED BY <1>1, <1>3, <3>4, <3>5, SkipRedone
  <2>2. CASE Makes(log, at) /\ Done(log, at)
    <3>1. d = RedoRecord(disk, log[p + 1])
      BY <1>3, <1>6, <2>2 DEF d
    <3>. QED BY <1>1, <1>3, <1>4, <2>2, <3>1, DoneRedone
  <2>3. CASE Makes(log, at) /\ ~Done(log, at)
    <3>1. d = disk
      BY <1>6, <2>3 DEF d
    <3>. QED BY <1>1, <1>3, <1>4, <2>3, <3>1, SkipRedone
  <2>4. CASE r.kind \in Markers
    <3>1. d = disk
      BY <2>4 DEF d, RedoRecord, Markers
    <3>2. ~Done(log, p + 1)
      BY <1>3, <2>4 DEF Done, Makes, Changes, Markers
    <3>. QED BY <1>1, <1>3, <1>4, <3>1, <3>2, SkipRedone
  <2>. QED BY <1>5, <2>1, <2>2, <2>3, <2>4
<1>8. d \in Files /\ d.ok
  BY <1>7 DEF Redone, Sound
<1>9. disk' = d /\ phase' = phase
  BY <1>2, <1>8, LeaveOk
<1>10. Upto' = at
  BY <1>2, <1>9 DEF Upto
<1>11. WalkInv'
  BY <1>2, <1>9 DEF Redo, CatalogInv, WalkInv
<1>12. /\ at' \in Nat /\ undoing' \in [txn : 0 .. MaxIds, logged : BOOLEAN] /\ log' = log
       /\ durable' = durable /\ schema' = schema /\ tables' = tables /\ running' = running /\ ids' = ids
  BY <1>2 DEF Redo, cache, CatalogInv, TypeInv
<1>13. Redone(disk', Upto')
  BY <1>7, <1>9, <1>10
<1>. QED BY <1>1, <1>9, <1>11, <1>12, <1>13, FilesKeep

(* Undo of the files, once the CLR is in the log: it never throws.         *)
LEMMA UndoApplyKeeps ==
  ASSUME CatalogInv, UndoApply
  PROVE  CatalogInv'
<1> DEFINE n == Len(log)
           d == RedoRecord(disk, MakeClr(log[at]))
<1>1. Recovering /\ Redone(disk, Upto)
  BY InRecovery DEF UndoApply
<1>2. /\ phase = "undo" /\ undoing.logged /\ Leave(d) /\ at' = log[at].prev
      /\ undoing' = [undoing EXCEPT !.logged = FALSE] /\ Upto = n
      /\ n \in Nat /\ Typed(log) /\ LogInv(log) /\ undoing # NotUndoing
  BY <1>1 DEF UndoApply, Replace, Recovering, Upto, NotUndoing
<1>3. at # 0 /\ ~log[at].clr /\ undoing.txn \in active /\ active = Unfinished
  BY <1>2 DEF CatalogInv, WalkInv
<1>4. at \in 1 .. n /\ Makes(log, at) /\ ~Ended(log, at) /\ log[at].prev = 0
  BY <1>2, <1>3, UndoneRecord
<1>5. PICK k \in at + 1 .. n : log[k] = MakeClr(log[at])
  BY <1>2 DEF CatalogInv, WalkInv
<1>6. k \in 1 .. n /\ k - 1 <= n /\ n <= n
  BY <1>2, <1>4
<1>7. /\ log[k].clr /\ log[k].kind = log[at].kind /\ log[k].after = log[at].after
  <2>1. log[at] \in LogRecord /\ Fits(log[at]) /\ ~log[at].clr /\ log[at].kind \in Changes
    BY <1>2, <1>4, RecordFields DEF Makes
  <2>. QED BY <1>5, <2>1, ClrFields
<1>8. ASSUME log[k].kind = "create_schema", NEW j \in 1 .. n, Done(log, j) PROVE FALSE
  <2>1. j + 1 \in 1 .. n /\ log[j + 1].kind = "commit"
    BY <1>2, <1>8 DEF Done
  <2>2. j + 1 < at
    BY <1>2, <1>4, <1>7, <1>8, <2>1, NoCommitAfter
  <2>3. j + 1 \in 1 .. at - 1
    BY <1>2, <1>4, <2>1, <2>2
  <2>. QED BY <1>2, <1>4, <1>7, <1>8, <2>1, <2>3 DEF LogInv, SchemaFirst
<1>9. ASSUME log[k].kind = "create_table", NEW j \in 1 .. n, MakesTable(log, j), Done(log, j)
      PROVE  log[j].after.name # log[k].after.name
  <2>1. j # at
    BY <1>4, <1>9 DEF Ended
  <2>2. ~(j \in at + 1 .. n)
    BY <1>2, <1>4, <1>7, <1>9 DEF LogInv, LastOnes, MakesTable
  <2>3. j \in 1 .. k - 1
    BY <1>2, <1>4, <2>1, <2>2
  <2>. QED BY <1>2, <1>6, <1>9, <2>3 DEF LogInv, NamesDiffer
<1>. HIDE DEF d
<1>10. Redone(d, n)
  BY <1>1, <1>2, <1>5, <1>6, <1>7, <1>8, <1>9, ClrRedone DEF d
<1>11. disk' = d /\ phase' = phase
  <2>1. d \in Files /\ d.ok
    BY <1>10 DEF Redone, Sound
  <2>. QED BY <1>2, <2>1, LeaveOk
<1>12. /\ undoing' \in [txn : 0 .. MaxIds, logged : BOOLEAN] /\ undoing'.txn = undoing.txn
       /\ ~undoing'.logged
  BY <1>2 DEF CatalogInv, TypeInv
<1>13. /\ at' = 0 /\ log' = log /\ active' = active /\ durable' = durable /\ schema' = schema
       /\ tables' = tables /\ running' = running /\ ids' = ids
  BY <1>2, <1>4 DEF UndoApply, cache
<1>14. Unfinished' = Unfinished /\ Upto' = n
  BY <1>2, <1>11, <1>13 DEF Unfinished, TxnsWith, Upto
<1>15. WalkInv'
  BY <1>2, <1>3, <1>11, <1>12, <1>13, <1>14 DEF WalkInv
<1>16. Redone(disk', Upto') /\ at' \in Nat
  BY <1>10, <1>11, <1>13, <1>14
<1>. QED BY <1>1, <1>11, <1>12, <1>13, <1>15, <1>16, FilesKeep

(* CatalogCache::hydrate: everything is undone, and the files are read.    *)
LEMMA HydrateKeeps ==
  ASSUME CatalogInv, Hydrate
  PROVE  CatalogInv'
<1> DEFINE n == Len(log)
           Read(t) == CHOOSE mt \in StoredTables(disk) : mt.id = t
<1>1. Recovering /\ Redone(disk, Upto) /\ Upto = n
  BY InRecovery DEF Hydrate, Recovered, Upto
<1>2. /\ phase = "undo" /\ undoing = NotUndoing /\ Unfinished = {} /\ phase' = "up"
      /\ schema' = disk.schema /\ log' = log /\ durable' = durable /\ disk' = disk
      /\ running' = running /\ at' = at /\ undoing' = undoing /\ ids' = ids
      /\ tables' = [t \in {mt.id : mt \in StoredTables(disk)} |-> Read(t)]
  BY DEF Hydrate, Recovered, recovery, CatalogInv, WalkInv
<1>3. /\ n \in Nat /\ Typed(log) /\ LogInv(log) /\ durable = n /\ running.txn = 0
      /\ \A j \in 1 .. n : Live(log, 0, j) <=> Done(log, j)
      /\ \A j \in 1 .. n : Done(log, j) => Makes(log, j)
      /\ StoredIn(disk) /\ ListedIn(disk) /\ RedoneIn(disk, n) /\ IndexedIn(disk, n) /\ Once(log)
  BY <1>1 DEF Recovering, Redone, Sound, LogInv
<1>4. ASSUME NEW t \in DOMAIN tables'
      PROVE  \E m \in Names : /\ tables'[t] = disk.dirs[m].meta /\ disk.dirs[m].meta # NoTable
                              /\ tables'[t].id = t
  <2>1. PICK mt \in StoredTables(disk) : mt.id = t
    BY <1>2, <1>4
  <2>2. Read(t) \in StoredTables(disk) /\ Read(t).id = t
    BY <2>1
  <2>3. tables'[t] = Read(t)
    BY <1>2, <1>4
  <2>. HIDE DEF Read
  <2>. QED BY <2>2, <2>3 DEF StoredTables
<1>. HIDE DEF Read
<1>5. ASSUME NEW t \in DOMAIN tables'
      PROVE  /\ tables'[t] \in MetaTable /\ tables'[t].id = t /\ t \in Id
             /\ \E j \in 1 .. n : Done(log, j) /\ Stems(tables'[t], log, j)
             /\ \A x \in DOMAIN tables'[t].indexes : Created(log, 0, x, t, n - 1)
             /\ ~Spoiled(log, t) => tables'[t].indexes = SetToBag(Made(log, 0, t, n))
  <2>1. PICK m \in Names : /\ tables'[t] = disk.dirs[m].meta /\ disk.dirs[m].meta # NoTable
                           /\ tables'[t].id = t
    BY <1>4
  <2>2. tables'[t] \in MetaTable /\ tables'[t].name = m /\ t \in Id
    BY <1>3, <2>1 DEF StoredIn, MetaTable
  <2>3. PICK j \in 1 .. n : Done(log, j) /\ Stems(tables'[t], log, j)
    BY <1>3, <2>1 DEF StoredIn
  <2>4. \A x \in DOMAIN tables'[t].indexes : Created(log, 0, x, t, n - 1)
    BY <1>3, <2>1 DEF ListedIn
  <2>5. ~Spoiled(log, t) => tables'[t].indexes = SetToBag(Made(log, 0, t, n))
    <3>1. MakesTable(log, j) /\ log[j].txn = t /\ log[j].after.name = m
      BY <2>1, <2>2, <2>3 DEF Stems
    <3>. QED BY <1>3, <2>1, <2>3, <3>1 DEF IndexedIn
  <2>. QED BY <2>1, <2>2, <2>3, <2>4, <2>5
<1>6. TypeInv'
  BY <1>2, <1>5 DEF CatalogInv, TypeInv, Files
<1>7. DurableInv' /\ RunningInv' /\ WalkInv' /\ RedoneInv' /\ LogInv(log')
  BY <1>1, <1>2, <1>3 DEF CatalogInv, DurableInv, RunningInv, WalkInv, RedoneInv
<1>8. SettledInv'
  <2>1. ASSUME NEW j \in 1 .. n, Makes(log, j) PROVE Ended(log, j)
    <3>1. PICK i \in 1 .. n : log[i].txn = log[j].txn /\ log[i].kind \in Markers
      BY <1>2, <1>3, WhoIsUnfinished
    <3>2. CASE log[i].kind = "commit"
      BY <1>3, <2>1, <3>1, <3>2, DoneCommitted DEF Ended, LogInv
    <3>3. CASE log[i].kind = "rollback"
      BY <3>1, <3>3 DEF Ended
    <3>. QED BY <3>1, <3>2, <3>3 DEF Markers
  <2>. QED BY <1>2, <2>1 DEF SettledInv
<1>9. StoredInv' /\ FilesInv'
  BY <1>2 DEF CatalogInv, StoredInv, FilesInv
<1>10. CachedInv'
  <2>1. ASSUME NEW j \in 1 .. n, Done(log, j)
        PROVE  /\ log[j].kind = "create_schema" => disk.schema = log[j].txn
               /\ log[j].kind = "create_table" => log[j].txn \in DOMAIN tables'
    <3>1. log[j].kind = "create_schema" => disk.schema = log[j].txn
      BY <1>3, <2>1 DEF RedoneIn
    <3>2. ASSUME log[j].kind = "create_table" PROVE log[j].txn \in DOMAIN tables'
      <4> DEFINE mt == disk.dirs[log[j].after.name].meta
      <4>1. log[j].txn \in Id /\ Fits(log[j])
        BY <1>3, RecordFields
      <4>2. log[j].after.name \in Names /\ log[j].txn # 0
        BY <3>2, <4>1 DEF Fits, MetaTable, Id
      <4>3. mt.id = log[j].txn
        BY <1>3, <2>1, <3>2 DEF RedoneIn
      <4>4. NoTable.id = 0
        BY DEF NoTable, Table
      <4>5. mt \in StoredTables(disk)
        BY <4>2, <4>3, <4>4 DEF StoredTables
      <4>. QED BY <1>2, <4>3, <4>5
    <3>. QED BY <3>1, <3>2
  <2>2. disk.schema # 0 => \E j \in 1 .. n : Done(log, j) /\ MakesSchema(log, j) /\ log[j].txn = disk.schema
    BY <1>3 DEF StoredIn
  <2>3. /\ \A j \in 1 .. n : Live(log, 0, j) =>
             /\ log[j].kind = "create_schema" => disk.schema = log[j].txn
             /\ log[j].kind = "create_table" => log[j].txn \in DOMAIN tables'
        /\ disk.schema # 0 =>
             \E j \in 1 .. n : Live(log, 0, j) /\ MakesSchema(log, j) /\ log[j].txn = disk.schema
        /\ \A t \in DOMAIN tables' : \E j \in 1 .. n : Live(log, 0, j) /\ Stems(tables'[t], log, j)
    BY <1>3, <1>5, <2>1, <2>2
  <2>. QED BY <1>2, <1>3, <1>5, <2>3 DEF CachedInv
<1>11. ListedInv'
  <2>1. ASSUME NEW t \in DOMAIN tables', NEW x \in DOMAIN tables'[t].indexes
        PROVE  Created(log, 0, x, t, n)
    <3>1. Created(log, 0, x, t, n - 1) /\ n - 1 \in Int /\ n \in Int /\ n - 1 <= n
      BY <1>3, <1>5, <2>1
    <3>. QED BY <3>1, CreatedLater
  <2>. QED BY <1>2, <1>3, <2>1 DEF CatalogInv, ListedInv
<1>12. IndexesInv'
  BY <1>2, <1>3, <1>5 DEF CatalogInv, IndexesInv
<1>. QED BY <1>6, <1>7, <1>8, <1>9, <1>10, <1>11, <1>12 DEF CatalogInv

-----------------------------------------------------------------------------
(* The invariant                                                           *)

(* An empty log and empty files have it.                                   *)
LEMMA InitKeeps ==
  ASSUME Init
  PROVE  CatalogInv
<1>1. /\ phase = "down" /\ log = << >> /\ Len(log) = 0 /\ durable = 0 /\ disk = NoFiles /\ schema = 0
      /\ DOMAIN tables = {} /\ running = NoStatement /\ at = 0 /\ undoing = NotUndoing /\ ids = 0
      /\ MaxIds \in Nat
  BY CatalogAssumption DEF Init
<1>2. \A i : ~(i \in 1 .. Len(log))
  BY <1>1
<1>3. /\ disk \in Files /\ disk.ok /\ disk.schema = 0 /\ \A n \in Names : disk.dirs[n].meta = NoTable
  BY <1>1, EmptyDir DEF NoFiles, Files
<1>4. /\ running.stage = "none" /\ running.txn = 0
      /\ running \in [txn : 0 .. MaxIds, stage : {"none", "ran", "committing"}]
      /\ undoing \in [txn : 0 .. MaxIds, logged : BOOLEAN]
  BY <1>1 DEF NoStatement, NotUndoing
<1>5. TypeInv
  <2>1. log \in Seq(LogRecord)
    BY <1>1
  <2>. QED BY <1>1, <1>2, <1>3, <1>4, <2>1 DEF TypeInv
<1>6. LogInv(log)
  BY <1>2 DEF LogInv, Once, CommitNext, ClrOf, ClrOnce, SchemaFirst, SchemaBefore, TableBefore, NamesDiffer, LastOnes
<1>7. DurableInv /\ RunningInv /\ SettledInv /\ WalkInv
  BY <1>1, <1>2, <1>4 DEF DurableInv, RunningInv, SettledInv, WalkInv
<1>8. StoredInv /\ RedoneInv /\ CachedInv
  BY <1>1, <1>3 DEF StoredInv, RedoneInv, CachedInv
<1>9. ListedInv /\ IndexesInv /\ FilesInv
  <2>1. \A n \in Names : DOMAIN disk.dirs[n].meta.indexes = {}
    BY <1>3, EmptyDir
  <2>. QED BY <1>1, <1>2, <2>1 DEF ListedInv, IndexesInv, FilesInv
<1>. QED BY <1>5, <1>6, <1>7, <1>8, <1>9 DEF CatalogInv

(* A step that changes nothing.                                            *)
LEMMA StutterKeeps ==
  ASSUME CatalogInv, UNCHANGED vars
  PROVE  CatalogInv'
<1>1. /\ phase' = phase /\ log' = log /\ durable' = durable /\ disk' = disk /\ schema' = schema
      /\ tables' = tables /\ running' = running /\ at' = at /\ active' = active /\ undoing' = undoing
      /\ ids' = ids
  BY DEF vars, cache, recovery
<1>2. TypeInv' /\ LogInv(log') /\ DurableInv' /\ RunningInv' /\ SettledInv'
  BY <1>1 DEF CatalogInv, TypeInv, DurableInv, RunningInv, SettledInv
<1>3. Unfinished' = Unfinished /\ Upto' = Upto
  BY <1>1 DEF Unfinished, TxnsWith, Upto
<1>4. WalkInv'
  BY <1>1, <1>3 DEF CatalogInv, WalkInv
<1>5. StoredInv' /\ RedoneInv' /\ CachedInv'
  BY <1>1, <1>3 DEF CatalogInv, StoredInv, RedoneInv, CachedInv
<1>6. ListedInv' /\ IndexesInv' /\ FilesInv'
  BY <1>1, <1>3 DEF CatalogInv, ListedInv, IndexesInv, FilesInv
<1>. QED BY <1>2, <1>4, <1>5, <1>6 DEF CatalogInv

(* Every step keeps it, but for a throw at a cut file.                     *)
LEMMA StepKeeps ==
  ASSUME CatalogInv, [Next]_vars
  PROVE  CatalogInv' \/ RecoveryThrows
<1>1. CASE Statement
  <2>1. CASE CreateSchema
    BY <2>1, CreateSchemaKeeps
  <2>2. ASSUME NEW name \in Names, CreateTable(name) PROVE CatalogInv'
    BY <2>2, CreateTableKeeps
  <2>3. ASSUME NEW t \in DOMAIN tables, CreateIndex(t) PROVE CatalogInv'
    BY <2>3, CreateIndexKeeps
  <2>4. ASSUME NEW t \in DOMAIN tables, ChangeRows(t) PROVE CatalogInv'
    BY <2>4, ChangeRowsKeeps
  <2>5. ASSUME NEW t \in DOMAIN tables, NEW id \in DOMAIN tables[t].indexes, DropIndex(t, id) PROVE CatalogInv'
    BY <2>5, DropIndexKeeps
  <2>. QED BY <1>1, <2>1, <2>2, <2>3, <2>4, <2>5 DEF Statement
<1>2. CASE Commit
  BY <1>2, CommitKeeps
<1>3. CASE Flushed
  BY <1>3, FlushedKeeps
<1>4. CASE Close
  BY <1>4, ClosingKeeps DEF Close
<1>5. CASE Crash
  BY <1>5, CrashKeeps
<1>6. CASE Start
  BY <1>6, StartKeeps
<1>7. CASE Recovery
  BY <1>7, RedoKeeps, RedoDoneKeeps, UndoBeginKeeps, UndoSkipKeeps, UndoLogKeeps, UndoApplyKeeps,
     UndoEndKeeps, HydrateKeeps DEF Recovery
<1>8. CASE UNCHANGED vars
  BY <1>8, StutterKeeps
<1>9. CASE KilledInClose
  BY <1>9, ClosingKeeps DEF KilledInClose
<1>. QED BY <1>1, <1>2, <1>3, <1>4, <1>5, <1>6, <1>7, <1>8, <1>9 DEF Next

-----------------------------------------------------------------------------
(* Cut metadata files                                                      *)

(* the committed statement at j made the object of the file                *)
MadeBy(lg, f, j) ==
  /\ Done(lg, j)
  /\ IF f = SchemaFile THEN MakesSchema(lg, j) ELSE MakesTable(lg, j) /\ lg[j].after.name = f
HasMaker(lg, dur, f) == f \in MetaFiles /\ \E j \in 1 .. dur - 1 : MadeBy(lg, f, j)
(* what is cut or may be is of a committed object, and redo replaces it    *)
(* when it comes to the statement that made it                             *)
CutInv ==
  /\ \A f \in cut \union writing : HasMaker(log, durable, f)
  /\ phase = "redo" => \A f \in cut : \A j \in 1 .. at - 1 : ~MadeBy(log, f, j)
  /\ phase \in {"undo", "up"} => cut = {}

(* the flushed part of the log stays                                       *)
FlushedStays ==
  /\ durable \in Nat /\ durable' \in Nat /\ Len(log) \in Nat /\ Len(log') \in Nat
  /\ durable <= durable' /\ durable <= Len(log) /\ durable' <= Len(log')
  /\ \A i \in 1 .. durable : log'[i] = log[i]

(* A committed statement stays one while the log is only cut or extended   *)
(* behind what is flushed.                                                 *)
LEMMA MakerStays ==
  ASSUME FlushedStays, NEW f, HasMaker(log, durable, f)
  PROVE  HasMaker(log', durable', f)
<1>1. PICK j \in 1 .. durable - 1 : MadeBy(log, f, j)
  BY DEF HasMaker
<1>2. j \in 1 .. durable /\ j + 1 \in 1 .. durable /\ j \in 1 .. durable' - 1 /\ j + 1 <= Len(log')
  <2>1. /\ durable \in Nat /\ durable' \in Nat /\ Len(log') \in Nat
        /\ durable <= durable' /\ durable' <= Len(log')
    BY DEF FlushedStays
  <2>2. j \in Nat /\ 1 <= j /\ j <= durable - 1
    BY <2>1
  <2>3. j + 1 <= durable' /\ j + 1 <= Len(log')
    BY <2>1, <2>2
  <2>4. j \in 1 .. durable
    BY <2>1, <2>2
  <2>5. j + 1 \in 1 .. durable
    BY <2>1, <2>2
  <2>6. j \in 1 .. durable' - 1
    <3>1. \A b \in Nat : j + 1 <= b => j \in 1 .. b - 1
      BY <2>2
    <3>. QED BY <2>1, <2>3, <3>1, Zenon
  <2>. QED BY <2>3, <2>4, <2>5, <2>6
<1>3. log'[j] = log[j] /\ log'[j + 1] = log[j + 1]
  BY <1>2 DEF FlushedStays
<1>4. MadeBy(log', f, j)
  BY <1>1, <1>2, <1>3 DEF MadeBy, Done, Makes, MakesSchema, MakesTable
<1>. QED BY <1>2, <1>4 DEF HasMaker

(* No step takes anything from the flushed part of the log.                *)
LEMMA LogStays ==
  ASSUME CatalogInv, CatalogInv',
         \/ log' = log /\ durable' = durable
         \/ \E r : log' = Append(log, r) /\ durable' \in {durable, Len(log) + 1}
         \/ durable' = Len(log) /\ log' = log
         \/ \E k \in durable .. Len(log) : log' = SubSeq(log, 1, k) /\ durable' = k
  PROVE  FlushedStays
<1>1. /\ Typed(log) /\ Typed(log') /\ Len(log) \in Nat /\ Len(log') \in Nat
      /\ durable \in 0 .. Len(log) /\ durable' \in 0 .. Len(log')
  BY RecordFields DEF CatalogInv, TypeInv, Typed
<1>2. CASE log' = log /\ durable' \in {durable, Len(log)}
  BY <1>1, <1>2 DEF FlushedStays
<1>3. ASSUME NEW r, log' = Append(log, r), durable' \in {durable, Len(log) + 1}
      PROVE  FlushedStays
  <2>1. log \in Seq(LogRecord)
    BY <1>1 DEF Typed
  <2>2. Len(log') = Len(log) + 1 /\ \A i \in 1 .. Len(log) : log'[i] = log[i]
    BY <1>3, <2>1
  <2>. QED BY <1>1, <1>3, <2>2 DEF FlushedStays
<1>4. ASSUME NEW k \in durable .. Len(log), log' = SubSeq(log, 1, k), durable' = k
      PROVE  FlushedStays
  <2>1. k \in 0 .. Len(log)
    BY <1>1
  <2>2. Part(log', log) /\ Len(log') = k
    BY <1>1, <1>4, <2>1, CutIsPart
  <2>. QED BY <1>1, <1>4, <2>2 DEF FlushedStays, Part
<1>. QED BY <1>2, <1>3, <1>4

(* What a record of recovery writes belongs to a committed statement: the  *)
(* record's own, or the one that made its table.                           *)
LEMMA WritesCommitted ==
  ASSUME Recovering, NEW p \in Nat, Redone(disk, p), NEW k \in 1 .. Len(log), k - 1 <= p,
         log[k].clr \/ Done(log, k), NEW f \in Writes(disk, log[k])
  PROVE  HasMaker(log, durable, f)
<1>1. /\ Typed(log) /\ Len(log) \in Nat /\ durable = Len(log)
      /\ \A i \in 1 .. Len(log) : Done(log, i) => i \in 1 .. durable - 1
  BY DEF Recovering
<1>2. log[k].kind \in Changes \union Markers /\ Fits(log[k]) /\ f \in FilesOf(disk, log[k])
  BY <1>1, RecordFields DEF Writes
<1>3. log[k].kind \notin Markers
  BY <1>2 DEF FilesOf, Markers
<1>4. CASE log[k].kind = "create_schema"
  <2>1. f = SchemaFile /\ ~log[k].clr /\ Done(log, k)
    BY <1>2, <1>4 DEF Writes, FilesOf
  <2>2. MadeBy(log, f, k)
    BY <1>4, <2>1 DEF MadeBy, MakesSchema, Done
  <2>. QED BY <1>1, <2>1, <2>2 DEF HasMaker, MetaFiles
<1>5. CASE log[k].kind = "create_table"
  <2>1. f = log[k].after.name /\ ~log[k].clr /\ Done(log, k) /\ f \in Names
    BY <1>2, <1>5 DEF Writes, FilesOf, Fits, MetaTable
  <2>2. MadeBy(log, f, k)
    BY <1>5, <2>1, CatalogAssumption DEF MadeBy, MakesTable, Done
  <2>. QED BY <1>1, <2>1, <2>2 DEF HasMaker, MetaFiles
<1>6. CASE log[k].kind \in {"update_table", "create_index", "drop_index"}
  <2>1. PICK j \in 1 .. Len(log) : Finds(disk, k, j)
    BY <1>6, KnownTable
  <2>2. MakesTable(log, j) /\ Done(log, j) /\ log[j].after.name \in Names
    BY <2>1 DEF Finds
  <2>3. CASE log[k].kind = "update_table"
    <3>1. f = log[k].after.name /\ log[k].after.name = log[k].before.name
      BY <1>2, <2>3 DEF FilesOf, Fits, MetaTable
    <3>2. f = log[j].after.name
      BY <2>1, <2>3, <3>1 DEF Finds
    <3>3. MadeBy(log, f, j)
      BY <2>2, <3>2, CatalogAssumption DEF MadeBy
    <3>. QED BY <1>1, <2>2, <3>2, <3>3 DEF HasMaker, MetaFiles
  <2>4. CASE log[k].kind \in {"create_index", "drop_index"}
    <3>1. f \in Names /\ disk.dirs[f].meta # NoTable
      BY <1>2, <2>4 DEF FilesOf
    <3>2. disk.dirs[f].meta.name = f
      BY <3>1 DEF Redone, Sound, StoredIn
    <3>3. PICK i \in 1 .. Len(log) : Done(log, i) /\ Stems(disk.dirs[f].meta, log, i)
      BY <3>1 DEF Redone, Sound, StoredIn
    <3>4. MadeBy(log, f, i)
      BY <3>1, <3>2, <3>3, CatalogAssumption DEF MadeBy, Stems
    <3>. QED BY <1>1, <3>1, <3>3, <3>4 DEF HasMaker, MetaFiles
  <2>. QED BY <1>6, <2>3, <2>4
<1>. QED BY <1>2, <1>3, <1>4, <1>5, <1>6 DEF Changes

(* Redo replaces the file of the object that a committed record makes.     *)
LEMMA RedoCut ==
  ASSUME CatalogInv, CutInv, Redo
  PROVE  /\ \A f \in cut' \union writing' : HasMaker(log, durable, f)
         /\ \A f \in cut' : \A j \in 1 .. at : ~MadeBy(log, f, j)
<1>1. Recovering /\ Redone(disk, Upto) /\ phase = "redo" /\ at \in 1 .. Len(log)
  BY InRecovery DEF Redo, Recovering, CatalogInv, WalkInv
<1>2. /\ Upto = at - 1 /\ Upto \in Nat /\ at - 1 <= Upto /\ Typed(log) /\ LogInv(log)
      /\ Len(log) \in Nat /\ DOMAIN log = 1 .. Len(log)
  BY <1>1, RecordFields DEF Upto, Recovering
<1>3. Makes(log, at) => (Eligible(log[at]) <=> Done(log, at))
  <2>1. SUFFICES ASSUME Makes(log, at) PROVE Eligible(log[at]) <=> Done(log, at)
    OBVIOUS
  <2>2. ~log[at].clr
    BY <2>1 DEF Makes
  <2>3. log[at].txn \in TxnsWith("commit") <=>
          \E k \in 1 .. Len(log) : log[k].kind = "commit" /\ log[k].txn = log[at].txn
    BY <1>2 DEF TxnsWith
  <2>4. Done(log, at) <=> \E k \in 1 .. Len(log) : log[k].kind = "commit" /\ log[k].txn = log[at].txn
    BY <1>1, <1>2, <2>1, DoneCommitted DEF LogInv
  <2>. QED BY <2>2, <2>3, <2>4 DEF Eligible
<1>4. \A f \in cut : HasMaker(log, durable, f) /\ \A j \in 1 .. at - 1 : ~MadeBy(log, f, j)
  BY <1>1 DEF CutInv
<1>5. CASE Eligible(log[at])
  <2>1. cut' = cut \ FilesOf(disk, log[at]) /\ writing' = Writes(disk, log[at])
    BY <1>5 DEF Redo, Replace
  <2>2. ASSUME NEW f \in Writes(disk, log[at]) PROVE HasMaker(log, durable, f)
    <3>1. log[at].kind \in Changes \union Markers
      BY <1>1, <1>2, RecordFields
    <3>2. log[at].kind \in Changes
      BY <2>2, <3>1 DEF Writes, FilesOf, Markers
    <3>3. log[at].clr \/ Done(log, at)
      BY <1>3, <1>5, <3>2 DEF Makes
    <3>. QED BY <1>1, <1>2, <2>2, <3>3, WritesCommitted
  <2>3. ASSUME NEW f \in cut', MadeBy(log, f, at) PROVE FALSE
    <3>1. f \in FilesOf(disk, log[at])
      BY <2>3 DEF MadeBy, FilesOf, MakesSchema, MakesTable, Makes
    <3>. QED BY <2>1, <2>3, <3>1
  <2>4. ASSUME NEW f \in cut', NEW j \in 1 .. at PROVE ~MadeBy(log, f, j)
    <3>1. j = at \/ j \in 1 .. at - 1
      BY <1>1
    <3>. QED BY <1>4, <2>1, <2>3, <3>1
  <2>. QED BY <1>4, <2>1, <2>2, <2>4
<1>6. CASE ~Eligible(log[at])
  <2>1. cut' = cut /\ writing' = {}
    BY <1>6 DEF Redo, Whole
  <2>2. ~Done(log, at)
    BY <1>3, <1>6 DEF Done
  <2>3. ASSUME NEW f \in cut', NEW j \in 1 .. at PROVE ~MadeBy(log, f, j)
    <3>1. j = at \/ j \in 1 .. at - 1
      BY <1>1
    <3>. QED BY <1>4, <2>1, <2>2, <3>1 DEF MadeBy
  <2>. QED BY <1>4, <2>1, <2>3
<1>. QED BY <1>5, <1>6

(* Every step keeps what is known of the cut files.                        *)
LEMMA CutKept ==
  ASSUME CatalogInv, CutInv, [Next]_vars, CatalogInv', ~RecoveryThrows
  PROVE  CutInv'
<1>0. Len(log) \in Nat /\ durable \in 0 .. Len(log) /\ phase \in {"down", "redo", "undo", "up"}
  BY RecordFields DEF CatalogInv, TypeInv, Typed
<1>1. ASSUME FlushedStays, cut' = cut, writing' \subseteq writing,
             \/ phase' = phase /\ phase # "redo"
             \/ phase' = "down"
             \/ phase' = "redo" /\ at' = 1
             \/ phase' = "up" /\ phase = "undo"
      PROVE  CutInv'
  <2>1. \A f \in cut' \union writing' : HasMaker(log', durable', f)
    BY <1>1, MakerStays DEF CutInv
  <2>. QED BY <1>1, <2>1 DEF CutInv
<1>2. CASE Statement
  <2>1. /\ phase = "up" /\ phase' = phase /\ cut' = cut /\ writing' = writing /\ durable' = durable
        /\ \E r : log' = Append(log, r)
    BY <1>2 DEF Statement, CreateSchema, CreateTable, CreateIndex, ChangeRows, DropIndex, Ready, Logged, torn
  <2>. QED BY <1>1, <2>1, LogStays
<1>3. CASE Commit
  <2>1. /\ phase = "up" /\ phase' = phase /\ cut' = cut /\ writing' = writing /\ durable' = durable
        /\ \E r : log' = Append(log, r)
    BY <1>3 DEF Commit, torn
  <2>. QED BY <1>1, <2>1, LogStays
<1>4. CASE Flushed
  <2>1. /\ phase = "up" /\ phase' = phase /\ cut' = cut /\ writing' = writing
        /\ log' = log /\ durable' = Len(log)
    BY <1>4 DEF Flushed, torn
  <2>. QED BY <1>1, <2>1, LogStays
<1>5. CASE Close
  <2>1. /\ phase' = "down" /\ cut' = cut /\ writing' = writing
        /\ log' = SubSeq(log, 1, durable) /\ durable' = durable
    BY <1>5 DEF Close, Closing
  <2>2. durable \in durable .. Len(log)
    BY <1>0
  <2>. QED BY <1>1, <2>1, <2>2, LogStays
<1>6. CASE KilledInClose
  <2>1. PICK S \in SUBSET Writable :
          Closing(S) /\ cut' \in {{}} \union {{f} : f \in IF S = {} THEN {SchemaFile} ELSE S}
    BY <1>6 DEF KilledInClose
  <2>2. /\ disk'.schema = schema /\ schema # 0 /\ phase' = "down" /\ \A m \in S : disk'.dirs[m].meta # NoTable
        /\ writing' = writing /\ log' = SubSeq(log, 1, durable) /\ durable' = durable
    BY <2>1, ClosingKeeps DEF Closing
  <2>3. durable \in durable .. Len(log)
    BY <1>0
  <2>4. FlushedStays
    BY <2>2, <2>3, LogStays
  <2>5. HasMaker(log', durable', SchemaFile)
    BY <2>2 DEF CatalogInv, StoredInv, HasMaker, MadeBy, MetaFiles
  <2>6. ASSUME NEW m \in S PROVE HasMaker(log', durable', m)
    <3>1. m \in Names /\ disk'.dirs[m].meta # NoTable /\ m # SchemaFile
      BY <2>2, CatalogAssumption DEF Writable
    <3>2. disk'.dirs[m].meta.name = m /\ \E j \in 1 .. durable' - 1 : Done(log', j) /\ Stems(disk'.dirs[m].meta, log', j)
      BY <3>1 DEF CatalogInv, StoredInv
    <3>. QED BY <3>1, <3>2 DEF HasMaker, MadeBy, MetaFiles, Stems
  <2>7. \A f \in writing' : HasMaker(log', durable', f)
    BY <2>2, <2>4, MakerStays DEF CutInv
  <2>8. \A f \in cut' : f = SchemaFile \/ f \in S
    BY <2>1
  <2>. QED BY <2>2, <2>5, <2>6, <2>7, <2>8 DEF CutInv
<1>7. CASE Crash
  <2>1. PICK k \in (IF running.stage = "committing" THEN durable .. Len(log) ELSE {durable}) :
          log' = SubSeq(log, 1, k) /\ durable' = k
    BY <1>7 DEF Crash
  <2>2. k \in durable .. Len(log)
    BY <1>0, <2>1
  <2>3. FlushedStays
    BY <2>1, <2>2, LogStays
  <2>4. cut' \union writing' \subseteq cut \union writing /\ phase' = "down"
    BY <1>7 DEF Crash
  <2>. QED BY <2>3, <2>4, MakerStays DEF CutInv
<1>8. CASE Start
  <2>1. phase' = "redo" /\ at' = 1 /\ cut' = cut /\ writing' = writing /\ log' = log /\ durable' = durable
    BY <1>8 DEF Start, torn
  <2>. QED BY <1>1, <2>1, LogStays
<1>9. CASE Redo
  <2>1. /\ phase = "redo" /\ at' = at + 1 /\ log' = log /\ durable' = durable /\ at \in Nat
        /\ phase' # "undo" /\ phase' # "up"
    <3>1. phase = "redo" /\ phase' \in {phase, "broken"}
      BY <1>9 DEF Redo, Replace, Leave
    <3>. QED BY <1>9, <3>1 DEF Redo, CatalogInv, TypeInv
  <2>2. at' - 1 = at
    BY <2>1
  <2>. QED BY <1>9, <2>1, <2>2, RedoCut DEF CutInv
<1>10. CASE RedoDone
  <2>1. /\ phase = "redo" /\ phase' = "undo" /\ cut' = cut /\ writing' = {} /\ log' = log /\ durable' = durable
        /\ at > Len(log) /\ at \in Nat
    BY <1>10 DEF RedoDone, Whole, CatalogInv, TypeInv
  <2>2. ASSUME NEW f \in cut PROVE FALSE
    <3>1. PICK j \in 1 .. durable - 1 : MadeBy(log, f, j)
      BY DEF CutInv, HasMaker
    <3>2. j \in 1 .. at - 1
      BY <1>0, <2>1
    <3>. QED BY <2>1, <3>1, <3>2 DEF CutInv
  <2>. QED BY <2>1, <2>2 DEF CutInv
<1>11. CASE UndoBegin \/ UndoSkip
  <2>1. /\ phase = "undo" /\ phase' = phase /\ cut' = cut /\ writing' = {} /\ log' = log /\ durable' = durable
    BY <1>11 DEF UndoBegin, UndoSkip, Whole
  <2>. QED BY <1>1, <2>1, LogStays
<1>12. CASE UndoLog \/ UndoEnd
  <2>1. /\ phase = "undo" /\ phase' = phase /\ cut' = cut /\ writing' = {} /\ durable' = Len(log) + 1
        /\ \E r : log' = Append(log, r)
    BY <1>12 DEF UndoLog, UndoEnd, Whole
  <2>. QED BY <1>1, <2>1, LogStays
<1>13. CASE UndoApply
  <2>1. Recovering /\ Redone(disk, Upto) /\ phase = "undo"
    BY <1>13, InRecovery DEF UndoApply
  <2>2. /\ Upto = Len(log) /\ cut = {} /\ undoing.logged /\ undoing # NotUndoing /\ Typed(log)
    BY <1>13, <2>1 DEF Upto, CutInv, UndoApply, NotUndoing, Recovering
  <2>3. PICK k \in at + 1 .. Len(log) : log[k] = MakeClr(log[at])
    BY <2>2 DEF CatalogInv, WalkInv
  <2>4. at \in Nat /\ k \in 1 .. Len(log) /\ k - 1 <= Len(log)
    BY <1>0, <2>3 DEF CatalogInv, TypeInv
  <2>5. at \in 1 .. Len(log)
    BY <1>0, <2>2 DEF CatalogInv, WalkInv
  <2>6. log[k].clr
    <3>1. log[at] \in LogRecord
      BY <2>2, <2>5, RecordFields
    <3>. QED BY <2>3, <3>1 DEF MakeClr, LogRecord
  <2>7. /\ cut' = {} /\ writing' = Writes(disk, log[k]) /\ log' = log /\ durable' = durable
        /\ phase' \in {phase, "broken"}
    BY <1>13, <2>2, <2>3 DEF UndoApply, Replace, Leave
  <2>8. \A f \in writing' : HasMaker(log, durable, f)
    BY <1>0, <2>1, <2>2, <2>4, <2>6, <2>7, WritesCommitted
  <2>. QED BY <2>1, <2>7, <2>8 DEF CutInv
<1>14. CASE Hydrate
  <2>1. /\ phase = "undo" /\ phase' = "up" /\ cut' = cut /\ writing' = {} /\ log' = log /\ durable' = durable
    BY <1>14 DEF Hydrate, Recovered, Whole
  <2>. QED BY <1>1, <2>1, LogStays
<1>15. CASE UNCHANGED vars
  BY <1>15 DEF vars, torn, recovery, CutInv
<1>. QED BY <1>2, <1>3, <1>4, <1>5, <1>6, <1>7, <1>8, <1>9, <1>10, <1>11, <1>12, <1>13, <1>14, <1>15
     DEF Next, Recovery


(* Types, from the invariant.                                              *)
LEMMA TypesFollow ==
  ASSUME CatalogInv, CutInv
  PROVE  TypeOK
<1>1. /\ phase \in {"down", "redo", "undo", "up"} /\ durable <= Len(log) /\ disk.ok
      /\ schema \in 0 .. MaxIds /\ DOMAIN tables \subseteq Id
      /\ disk.schema \in 0 .. MaxIds /\ running.stage \in {"none", "ran", "committing"}
  BY RecordFields DEF CatalogInv, TypeInv, Files, Typed
<1>2. running.stage # "none" => phase = "up"
  BY DEF CatalogInv, RunningInv
<1>3. ASSUME NEW t \in DOMAIN tables PROVE tables[t].id = t /\ tables[t].name \in Names
  <2>1. tables[t] \in MetaTable
    BY DEF CatalogInv, TypeInv
  <2>2. phase = "up"
    BY DEF CatalogInv, CachedInv, TypeInv
  <2>. QED BY <2>1, <2>2 DEF CatalogInv, CachedInv, MetaTable
<1>4. \A n \in Names : disk.dirs[n].meta = NoTable \/ disk.dirs[n].meta.name = n
  BY DEF CatalogInv, StoredInv
<1>5. cut \union writing \subseteq MetaFiles
  BY DEF CutInv, HasMaker
<1>. QED BY <1>1, <1>2, <1>3, <1>4, <1>5 DEF TypeOK, Id

(* Records that count as committed are those that are followed by their    *)
(* commit record.                                                          *)
LEMMA CommittedIs ==
  ASSUME CatalogInv, NEW kind \in Changes
  PROVE  /\ \A i \in 1 .. Len(log) : Done(log, i) /\ log[i].kind = kind => log[i] \in Committed(kind)
         /\ \A r \in Committed(kind) : \E i \in 1 .. Len(log) : Done(log, i) /\ log[i].kind = kind /\ r = log[i]
<1>1. Typed(log) /\ Once(log) /\ CommitNext(log) /\ DOMAIN log = 1 .. Len(log)
  BY RecordFields DEF CatalogInv, TypeInv, Typed, LogInv
<1>2. ASSUME NEW i \in 1 .. Len(log), Makes(log, i)
      PROVE  Done(log, i) <=> log[i].txn \in TxnsWith("commit")
  <2>1. log[i].txn \in TxnsWith("commit") <=>
          \E k \in 1 .. Len(log) : log[k].kind = "commit" /\ log[k].txn = log[i].txn
    BY <1>1 DEF TxnsWith
  <2>. QED BY <1>1, <1>2, <2>1, DoneCommitted
<1>3. \A i \in 1 .. Len(log) : Done(log, i) => Makes(log, i)
  BY DEF Done
<1>4. \A i \in 1 .. Len(log) : log[i].kind = kind => (Makes(log, i) <=> ~log[i].clr)
  BY DEF Makes
<1>. QED BY <1>1, <1>2, <1>3, <1>4 DEF Committed

(* recovery threw, at a cut file that it had not come to yet               *)
Broken == phase = "broken" /\ TypeOK /\ RecoverySucceeds

(* The schema's file is replaced before anything reads it, and the file of *)
(* a table before anything but read_table_meta, on its way to another      *)
(* table, does.                                                            *)
LEMMA ThrowBreaks ==
  ASSUME CatalogInv, CutInv, RecoveryThrows
  PROVE  Broken'
<1>1. PICK f \in cut : f \in ToRead
  BY DEF RecoveryThrows
<1>2. phase = "redo" /\ at <= Len(log) /\ f \in MayRead(log[at])
  BY <1>1 DEF ToRead, Recovered, CutInv
<1>3. at \in 1 .. Len(log) /\ Len(log) \in Nat /\ Typed(log) /\ durable \in 0 .. Len(log) /\ LogInv(log)
  BY <1>2, RecordFields DEF CatalogInv, TypeInv, WalkInv, Typed
<1>4. f # SchemaFile
  <2>1. SUFFICES ASSUME f = SchemaFile PROVE FALSE
    OBVIOUS
  <2>2. log[at].kind \in Changes \ {"create_schema"}
    BY <1>2 DEF MayRead, Changes
  <2>3. PICK s \in 1 .. at - 1 : MakesSchema(log, s) /\ Done(log, s)
    BY <1>3, <2>2 DEF LogInv, SchemaBefore, HasSchema
  <2>. QED BY <1>2, <2>1, <2>3 DEF CutInv, MadeBy
<1>5. log[at].kind \in {"update_table", "create_index", "drop_index"}
  BY <1>2, <1>4 DEF MayRead
<1>6. PICK j \in 1 .. durable - 1 : MadeBy(log, f, j)
  BY DEF CutInv, HasMaker
<1>7. j \in 1 .. Len(log) /\ Done(log, j) /\ log[j].kind = "create_table" /\ log[j].after.name = f
  BY <1>3, <1>4, <1>6 DEF MadeBy, MakesTable
<1>8. at < j
  <2>1. j # at
    BY <1>5, <1>7
  <2>2. j \notin 1 .. at - 1
    BY <1>2, <1>6 DEF CutInv
  <2>. QED BY <1>3, <1>7, <2>1, <2>2
<1>9. log[j] \in Committed("create_table") /\ j \in DOMAIN log
  BY <1>3, <1>7, CommittedIs, RecordFields DEF Changes
<1>10. /\ phase' = "broken" /\ log' = log /\ durable' = durable /\ disk' = disk /\ cut' = cut
       /\ writing' = writing /\ schema' = schema /\ tables' = tables /\ running' = running /\ at' = at
  BY DEF RecoveryThrows, torn, cache, recovery
<1>11. RecoverySucceeds'
  BY <1>7, <1>8, <1>9, <1>10 DEF RecoverySucceeds, Committed, TxnsWith
<1>12. TypeOK'
  BY <1>2, <1>10, TypesFollow DEF TypeOK, TableNamed
<1>. QED BY <1>10, <1>11, <1>12 DEF Broken

(* The constructor threw: there is no database to go on with.              *)
LEMMA BrokenStays ==
  ASSUME Broken, [Next]_vars
  PROVE  Broken'
<1>1. phase = "broken"
  BY DEF Broken
<1>2. ~Statement /\ ~Commit /\ ~Flushed /\ ~Close /\ ~KilledInClose /\ ~Crash /\ ~Start
  BY <1>1 DEF Statement, CreateSchema, CreateTable, CreateIndex, ChangeRows, DropIndex, Ready, Commit,
              Flushed, Close, KilledInClose, Closing, Crash, Start
<1>3. ~RecoveryThrows
  <2>1. ToRead = {}
    BY <1>1 DEF ToRead, Recovered
  <2>. QED BY <2>1 DEF RecoveryThrows
<1>4. ~Recovery
  BY <1>1, <1>3 DEF Recovery, Redo, RedoDone, UndoBegin, UndoSkip, UndoLog, UndoApply, UndoEnd, Hydrate, Recovered
<1>5. UNCHANGED vars
  BY <1>2, <1>4 DEF Next
<1>6. /\ phase' = phase /\ log' = log /\ durable' = durable /\ disk' = disk /\ cut' = cut
      /\ writing' = writing /\ schema' = schema /\ tables' = tables /\ running' = running /\ at' = at
  BY <1>5 DEF vars, torn, cache, recovery
<1>7. TypeOK'
  BY <1>6 DEF Broken, TypeOK
<1>8. RecoverySucceeds'
  BY <1>6 DEF Broken, RecoverySucceeds, Committed, TxnsWith
<1>. QED BY <1>1, <1>6, <1>7, <1>8 DEF Broken

(* The invariant is inductive, and so holds in every state that statements,*)
(* commits, closes, crashes and recoveries reach, cut files included.      *)
THEOREM Inductive == Spec => []((CatalogInv /\ CutInv) \/ Broken)
<1>1. Init => CatalogInv /\ CutInv
  <2>1. Init => CutInv
    BY DEF Init, CutInv
  <2>. QED BY <2>1, InitKeeps
<1>2. ((CatalogInv /\ CutInv) \/ Broken) /\ [Next]_vars => ((CatalogInv /\ CutInv) \/ Broken)'
  <2>1. ASSUME CatalogInv, CutInv, [Next]_vars PROVE (CatalogInv' /\ CutInv') \/ Broken'
    <3>1. CASE RecoveryThrows
      BY <2>1, <3>1, ThrowBreaks
    <3>2. CASE ~RecoveryThrows
      <4>1. CatalogInv'
        BY <2>1, <3>2, StepKeeps
      <4>. QED BY <2>1, <3>2, <4>1, CutKept
    <3>. QED BY <3>1, <3>2
  <2>. QED BY <2>1, BrokenStays
<1>. QED BY <1>1, <1>2, PTL DEF Spec

(* Metadata files are under the names of their tables, and the cache holds *)
(* tables only: read_tables_meta and hydrate never take an empty directory *)
(* for one.                                                                *)
THEOREM TypesCorrect == Spec => []TypeOK
<1>1. (CatalogInv /\ CutInv) \/ Broken => TypeOK
  BY TypesFollow DEF Broken
<1>. QED BY <1>1, Inductive, PTL

(* No log that statements, failures and crashes can leave makes recovery   *)
(* throw, and of the states of the files, cut metadata files included, one *)
(* does: read_table_meta meets the cut file of a table before the redo of  *)
(* its CREATE TABLE.  Every other file that redo_meta and undo_record look *)
(* for is there, and whole.                                                *)
THEOREM RecoveryThrowsOnlyAtCutFile == Spec => []RecoverySucceeds
<1>1. (CatalogInv /\ CutInv) \/ Broken => RecoverySucceeds
  BY DEF CatalogInv, TypeInv, RecoverySucceeds, Broken
<1>. QED BY <1>1, Inductive, PTL

(* The cache between statements: its tables.                               *)
LEMMA TablesCommitted ==
  ASSUME CatalogInv, phase = "up", running = NoStatement
  PROVE  {<<t, tables[t].name>> : t \in DOMAIN tables} = {<<mt.id, mt.name>> : mt \in CommittedTables}
<1>0. Typed(log) /\ Once(log) /\ Len(log) \in Nat
  BY RecordFields DEF CatalogInv, TypeInv, Typed, LogInv
<1>1. ASSUME NEW t \in DOMAIN tables
      PROVE  \E mt \in CommittedTables : <<t, tables[t].name>> = <<mt.id, mt.name>>
  <2>1. PICK j \in 1 .. Len(log) : Done(log, j) /\ Stems(tables[t], log, j)
    BY TableKnown
  <2>2. tables[t].id = t
    BY TableKnown
  <2>3. log[j].kind = "create_table" /\ log[j].txn = t /\ log[j].after.name = tables[t].name
    BY <2>1, <2>2 DEF Stems, MakesTable
  <2>4. log[j].after.id = t
    <3>1. Fits(log[j])
      BY <1>0, RecordFields
    <3>. QED BY <2>3, <3>1 DEF Fits
  <2>5. log[j] \in Committed("create_table")
    BY <2>1, <2>3, CommittedIs DEF Changes
  <2>. QED BY <2>3, <2>4, <2>5 DEF CommittedTables
<1>2. ASSUME NEW mt \in CommittedTables
      PROVE  \E t \in DOMAIN tables : <<t, tables[t].name>> = <<mt.id, mt.name>>
  <2>1. PICK i \in 1 .. Len(log) : Done(log, i) /\ log[i].kind = "create_table" /\ mt = log[i].after
    BY CommittedIs DEF CommittedTables, Changes
  <2>2. log[i].txn = mt.id /\ Makes(log, i)
    <3>1. Fits(log[i])
      BY <1>0, RecordFields
    <3>. QED BY <2>1, <3>1 DEF Fits, Done
  <2>3. mt.id \in DOMAIN tables
    <3>1. Live(log, running.txn, i)
      BY <2>1 DEF Live
    <3>. QED BY <2>1, <2>2, <3>1 DEF CatalogInv, CachedInv
  <2>4. PICK j \in 1 .. Len(log) : Done(log, j) /\ Stems(tables[mt.id], log, j)
    BY <2>3, TableKnown
  <2>5. tables[mt.id].id = mt.id
    BY <2>3, TableKnown
  <2>6. j = i
    BY <1>0, <2>2, <2>4, <2>5 DEF Once, Stems, MakesTable
  <2>. QED BY <2>1, <2>3, <2>4, <2>6 DEF Stems
<1>3. {<<t, tables[t].name>> : t \in DOMAIN tables} \subseteq {<<mt.id, mt.name>> : mt \in CommittedTables}
  BY <1>1
<1>4. {<<mt.id, mt.name>> : mt \in CommittedTables} \subseteq {<<t, tables[t].name>> : t \in DOMAIN tables}
  BY <1>2
<1>. QED BY <1>3, <1>4

(* The indexes that committed statements made of a table.                  *)
LEMMA IndexesCommitted ==
  ASSUME CatalogInv, NEW t \in Id
  PROVE  CommittedIndexes(t) = Made(log, 0, t, Len(log))
<1> DEFINE made == {r.after.id : r \in {q \in Committed("create_index") : q.after.table_id = t}}
           gone == {r.before.id : r \in Committed("drop_index")}
<1>0. Typed(log) /\ \A i \in 1 .. Len(log) : Live(log, 0, i) <=> Done(log, i)
  BY LiveIsDone DEF CatalogInv, TypeInv, Typed
<1>1. ASSUME NEW i \in 1 .. Len(log), Done(log, i), log[i].kind = "create_index"
      PROVE  log[i].after.id = log[i].txn /\ log[i].txn \in Id /\ MakesIndex(log, i)
  BY <1>0, <1>1, RecordFields, ZenonT(60) DEF Fits, Done, MakesIndex
<1>2. ASSUME NEW x PROVE x \in made <=> x \in Id /\ Created(log, 0, x, t, Len(log))
  <2>1. ASSUME x \in made PROVE x \in Id /\ Created(log, 0, x, t, Len(log))
    <3>1. PICK i \in 1 .. Len(log) :
            Done(log, i) /\ log[i].kind = "create_index" /\ log[i].after.id = x /\ log[i].after.table_id = t
      BY <2>1, CommittedIs DEF Changes
    <3>. QED BY <1>0, <1>1, <3>1 DEF Created
  <2>2. ASSUME Created(log, 0, x, t, Len(log)) PROVE x \in made
    <3>1. PICK i \in 1 .. Len(log) :
            MakesIndex(log, i) /\ Done(log, i) /\ log[i].txn = x /\ log[i].after.table_id = t
      BY <1>0, <2>2 DEF Created
    <3>2. log[i] \in Committed("create_index")
      BY <3>1, CommittedIs DEF MakesIndex, Changes
    <3>. QED BY <1>1, <3>1, <3>2 DEF MakesIndex
  <2>. QED BY <2>1, <2>2
<1>3. ASSUME NEW x PROVE x \in gone <=> Dropped(log, 0, x, Len(log))
  <2>1. ASSUME x \in gone PROVE Dropped(log, 0, x, Len(log))
    <3>1. PICK i \in 1 .. Len(log) : Done(log, i) /\ log[i].kind = "drop_index" /\ log[i].before.id = x
      BY <2>1, CommittedIs DEF Changes
    <3>. QED BY <1>0, <3>1 DEF Dropped, Drops, Done
  <2>2. ASSUME Dropped(log, 0, x, Len(log)) PROVE x \in gone
    <3>1. PICK i \in 1 .. Len(log) : Drops(log, i) /\ Done(log, i) /\ log[i].before.id = x
      BY <1>0, <2>2 DEF Dropped
    <3>2. log[i] \in Committed("drop_index")
      BY <3>1, CommittedIs DEF Drops, Changes
    <3>. QED BY <3>1, <3>2
  <2>. QED BY <2>1, <2>2
<1>4. CommittedIndexes(t) = made \ gone
  BY DEF CommittedIndexes
<1>. HIDE DEF made, gone
<1>. QED BY <1>2, <1>3, <1>4 DEF Made

(* Between statements, after any sequence of statements, failures, crashes *)
(* and recoveries, the catalog is what the committed statements of the log *)
(* made: nothing of a failed or interrupted one stays, and nothing of a    *)
(* committed one is lost, except as UndoSpoils says.                       *)
THEOREM CatalogIsCommitted == Spec => []CatalogRecovered
<1>1. CatalogInv => CatalogRecovered
  <2>1. SUFFICES ASSUME CatalogInv, phase = "up", running = NoStatement
                 PROVE  /\ {<<t, tables[t].name>> : t \in DOMAIN tables}
                             = {<<mt.id, mt.name>> : mt \in CommittedTables}
                        /\ \A t \in DOMAIN tables :
                             ~UndoSpoils(t) => tables[t].indexes = SetToBag(CommittedIndexes(t))
    BY DEF CatalogRecovered
  <2>2. ASSUME NEW t \in DOMAIN tables, ~UndoSpoils(t)
        PROVE  tables[t].indexes = SetToBag(CommittedIndexes(t))
    <3>1. running.txn = 0 /\ t \in Id /\ DOMAIN log = 1 .. Len(log)
      BY <2>1, TableKnown, RecordFields DEF NoStatement, CatalogInv, TypeInv, Typed
    <3>2. ~Spoiled(log, t)
      <4>1. ASSUME NEW i \in 1 .. Len(log), log[i].clr, log[i].kind = "update_table", TableOf(log[i]) = t
            PROVE  FALSE
        <5>1. log[i] \in Compensated("update_table") /\ log[i].before.id = t
          BY <3>1, <4>1 DEF Compensated, TableOf
        <5>. QED BY <2>2, <5>1 DEF UndoSpoils
      <4>2. ASSUME NEW i \in 1 .. Len(log), log[i].clr, log[i].kind = "drop_index", TableOf(log[i]) = t
            PROVE  FALSE
        <5>1. log[i] \in Compensated("drop_index") /\ log[i].before.table_id = t
          BY <3>1, <4>2 DEF Compensated, TableOf
        <5>. QED BY <2>2, <5>1 DEF UndoSpoils
      <4>. QED BY <4>1, <4>2 DEF Spoiled
    <3>3. tables[t].indexes = SetToBag(Made(log, 0, t, Len(log)))
      BY <2>1, <3>1, <3>2 DEF CatalogInv, IndexesInv
    <3>. QED BY <2>1, <3>1, <3>3, IndexesCommitted
  <2>. QED BY <2>1, <2>2, TablesCommitted
<1>2. Broken => CatalogRecovered
  BY DEF Broken, CatalogRecovered
<1>. QED BY <1>1, <1>2, Inductive, PTL

(* Every index of the catalog has its file, in the directory of the table's*)
(* name, unless the undo of a CREATE TABLE or of the schema removed that   *)
(* directory.                                                              *)
THEOREM FilesPresent == Spec => []IndexFilesPresent
<1>1. CatalogInv => IndexFilesPresent
  <2>1. SUFFICES ASSUME CatalogInv, phase = "up", NEW t \in DOMAIN tables, ~RemovedByName(tables[t]),
                        NEW x \in DOMAIN tables[t].indexes
                 PROVE  x \in disk.dirs[tables[t].name].index_files
    BY DEF IndexFilesPresent
  <2>2. Typed(log) /\ DOMAIN log = 1 .. Len(log)
    BY <2>1, RecordFields DEF CatalogInv, TypeInv, Typed
  <2>3. PICK j \in 1 .. Len(log) : Stems(tables[t], log, j)
    BY <2>1 DEF CatalogInv, CachedInv
  <2>4. MakesTable(log, j) /\ log[j].txn = t /\ log[j].after.name = tables[t].name
    BY <2>1, <2>3 DEF CatalogInv, CachedInv, Stems
  <2>5. PICK i \in 1 .. Len(log) : MakesIndex(log, i) /\ log[i].txn = x /\ log[i].after.table_id = t
    BY <2>1 DEF CatalogInv, ListedInv, Created
  <2>6. ~Removed(log, tables[t].name)
    <3>1. ASSUME NEW k \in 1 .. Len(log), log[k].clr, log[k].kind = "create_schema" PROVE FALSE
      <4>1. log[k] \in Compensated("create_schema")
        BY <2>2, <3>1 DEF Compensated
      <4>. QED BY <2>1, <4>1 DEF RemovedByName
    <3>2. ASSUME NEW k \in 1 .. Len(log), log[k].clr, log[k].kind = "create_table",
                 log[k].after.name = tables[t].name
          PROVE  FALSE
      <4>1. log[k] \in Compensated("create_table")
        BY <2>2, <3>2 DEF Compensated
      <4>. QED BY <2>1, <3>2, <4>1 DEF RemovedByName
    <3>. QED BY <3>1, <3>2 DEF Removed
  <2>. QED BY <2>1, <2>4, <2>5, <2>6 DEF CatalogInv, FilesInv
<1>2. Broken => IndexFilesPresent
  BY DEF Broken, IndexFilesPresent
<1>. QED BY <1>1, <1>2, Inductive, PTL
=============================================================================
