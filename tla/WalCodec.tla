------------------------------ MODULE WalCodec ------------------------------
(***************************************************************************)
(* What the serializers write and read back (wal/std_wal_serializer.cpp,   *)
(* storage/std_storage_serializer.cpp, misc/memory_stream.cpp) and how     *)
(* FileWalManager frames log records.                                      *)
(*                                                                         *)
(* serialize and deserialize are two programs that have to agree on the    *)
(* order of every field of 25 kinds of records and 10 kinds of objects.    *)
(* Each is a table of formats here: sequences of items.  A fixed-width     *)
(* field is two units of the stream, so that a read can come up short, and *)
(* a byte of a string is one.  Every field holds a value of its own.       *)
(***************************************************************************)
EXTENDS Integers, Sequences, SequencesExt

(* Items.  check says what the reader makes of a short read: "all" - it    *)
(* fails; "any" - it fails if nothing was read; "none" - it goes on        *)
Item(type, check, of) == [type |-> type, check |-> check, of |-> of]
Fields(names, check) ==
  [i \in DOMAIN names |-> [name |-> names[i]] @@ Item("field", check, "-")]
Written(names) == Fields(names, "all")
Checked(names) == Fields(names, "all")
Started(names) == Fields(names, "any")
Unchecked(names) == Fields(names, "none")
Tag(name) == <<[name |-> name] @@ Item("tag", "all", "-")>>
Nested(name, of) == <<[name |-> name] @@ Item("nested", "all", of)>>
Count(name) == <<[name |-> name] @@ Item("count", "all", "-")>>
Elements(name, of) == <<[name |-> name] @@ Item("elements", "all", of)>>
List(name, of) == Count(name) \o Elements(name, of)

(* a part that depends on a tag: of.zero if that is 0, else of.other       *)
Choice(name, tag, zero, other) ==
  <<[name |-> name] @@ Item("choice", "all", [tag |-> tag, zero |-> zero, other |-> other])>>

(* write_str, read_str                                                     *)
Str(name) == List(name, "byte")

(* the elements of lists that have no serializer of their own              *)
Inline ==
  [nothing |-> <<>>,
   byte |-> <<[name |-> "byte"] @@ Item("byte", "all", "-")>>,
   bytes |-> Str("bytes"),
   child |-> Written(<<"id">>),
   row_ptr |-> Written(<<"page_id", "row_id">>)]

-----------------------------------------------------------------------------
(* StdStorageSerializer, writing                                           *)

serialize_mt ==
  Written(<<"id", "schema_id">>) \o Str("name") \o Written(<<"total_rows", "live_rows">>)
    \o List("columns", "mc") \o Written(<<"last_rid">>) \o List("indexes", "mi")
serialize_ms == Written(<<"id">>) \o Str("name") \o Str("db_name")
serialize_mc == Written(<<"id", "table_id">>) \o Str("name") \o Written(<<"type", "flags">>)
serialize_mi ==
  Written(<<"id", "table_id", "column_id", "root_page_id">>) \o Str("name")
    \o Written(<<"is_unique", "key_type">>)
serialize_dt == Tag("type") \o Choice("data", "type", "nothing", "bytes")
serialize_dp ==
  Written(<<"id", "next", "table_id", "min_rid", "max_rid">>) \o Count("rows")
    \o Written(<<"last_lsn">>) \o Elements("rows", "dr")
(* last_page is not among them                                             *)
serialize_if == Written(<<"index_id", "root_page", "last_lsn">>) \o List("pages", "ip")
serialize_ip ==
  Written(<<"id", "parent", "index_id">>) \o Tag("is_leaf")
    \o Choice("node", "is_leaf", "internal", "leaf")
serialize_dr == Written(<<"id", "flags">>) \o List("tokens", "dt")
serialize_cfg ==
  Str("db_name") \o Str("default_schema") \o Str("db_path")
    \o Written(<<"io_type", "planner_type", "serializer_type", "last_checkpoint_lsn">>)

StorageWriter ==
  [mt |-> serialize_mt, ms |-> serialize_ms, mc |-> serialize_mc, mi |-> serialize_mi,
   dt |-> serialize_dt, dp |-> serialize_dp, if |-> serialize_if, ip |-> serialize_ip,
   dr |-> serialize_dr, cfg |-> serialize_cfg,
   internal |-> List("keys", "dt") \o List("children", "child"),
   leaf |-> List("keys", "dt") \o List("rows", "row_ptr") \o Written(<<"next_leaf">>)]
     @@ Inline

-----------------------------------------------------------------------------
(* StdStorageSerializer, reading                                           *)

deserialize_mt ==
  Unchecked(<<"id", "schema_id">>) \o Str("name") \o Unchecked(<<"total_rows", "live_rows">>)
    \o List("columns", "mc") \o Checked(<<"last_rid">>) \o List("indexes", "mi")
deserialize_ms == Unchecked(<<"id">>) \o Str("name") \o Str("db_name")
deserialize_mc == Checked(<<"id", "table_id">>) \o Str("name") \o Checked(<<"type", "flags">>)
(* (a mutant: the reader of the format before indexes had a root page)     *)
deserialize_miOld ==
  Checked(<<"id", "table_id", "column_id">>) \o Str("name") \o Checked(<<"is_unique", "key_type">>)
deserialize_mi ==
  Checked(<<"id", "table_id", "column_id", "root_page_id">>) \o Str("name")
    \o Checked(<<"is_unique", "key_type">>)
deserialize_dp ==
  Checked(<<"id", "next", "table_id", "min_rid", "max_rid">>) \o Count("rows")
    \o Checked(<<"last_lsn">>) \o Elements("rows", "dr")
deserialize_if == Checked(<<"index_id", "root_page", "last_lsn">>) \o List("pages", "ip")
deserialize_ip ==
  Checked(<<"id", "parent", "index_id">>) \o Tag("is_leaf")
    \o Choice("node", "is_leaf", "internal", "leaf")
deserialize_cfg ==
  Str("db_name") \o Str("default_schema") \o Str("db_path")
    \o Checked(<<"io_type", "planner_type", "serializer_type", "last_checkpoint_lsn">>)
deserialize_dr == Checked(<<"id", "flags">>) \o List("tokens", "dt")
deserialize_dt == Tag("type") \o Choice("data", "type", "nothing", "bytes")

StorageReader ==
  [mt |-> deserialize_mt, ms |-> deserialize_ms, mc |-> deserialize_mc, mi |-> deserialize_mi,
   dt |-> deserialize_dt, dp |-> deserialize_dp, if |-> deserialize_if, ip |-> deserialize_ip,
   dr |-> deserialize_dr, cfg |-> deserialize_cfg,
   internal |-> List("keys", "dt") \o List("children", "child"),
   leaf |-> List("keys", "dt") \o List("rows", "row_ptr") \o Checked(<<"next_leaf">>)]
     @@ Inline

-----------------------------------------------------------------------------
(* StdWalSerializer, writing.  Every record begins with its type           *)

WALRecordType ==
  <<"INSERT", "UPDATE", "DELETE", "CREATE_TABLE", "UPDATE_TABLE", "DELETE_TABLE",
    "CREATE_SCHEMA", "UPDATE_SCHEMA", "DELETE_SCHEMA", "BEGIN_TXN", "COMMIT_TXN", "ROLLBACK_TXN",
    "CLR_INSERT", "CLR_UPDATE", "CLR_DELETE", "CLR_CREATE_SCHEMA", "CLR_UPDATE_SCHEMA",
    "CLR_DELETE_SCHEMA", "CLR_CREATE_TABLE", "CLR_UPDATE_TABLE", "CLR_DELETE_TABLE",
    "CREATE_INDEX", "CLR_CREATE_INDEX", "DROP_INDEX", "CLR_DROP_INDEX">>
Before(of) == Nested("before", of)
After(of) == Nested("after", of)

Header == Written(<<"lsn", "prev_lsn", "txn_id">>)
RowHeader == Header \o Written(<<"table_id", "page_id">>)
UndoNext == Written(<<"undo_next_lsn">>)

WriteRows ==
  [INSERT |-> RowHeader \o After("dr"),
   UPDATE |-> RowHeader \o Before("dr") \o After("dr"),
   DELETE |-> RowHeader \o Before("dr")]
WriteClrRows ==
  [CLR_INSERT |-> RowHeader \o UndoNext \o After("dr"),
   CLR_UPDATE |-> RowHeader \o UndoNext \o Before("dr") \o After("dr"),
   CLR_DELETE |-> RowHeader \o UndoNext \o Before("dr")]
WriteClrSchemas ==
  [CLR_CREATE_SCHEMA |-> Header \o UndoNext \o Nested("schema", "ms"),
   CLR_UPDATE_SCHEMA |-> Header \o UndoNext \o Before("ms") \o After("ms"),
   CLR_DELETE_SCHEMA |-> Header \o UndoNext \o Before("ms")]
WriteClrTables ==
  [CLR_CREATE_TABLE |-> Header \o UndoNext \o After("mt"),
   CLR_UPDATE_TABLE |-> Header \o UndoNext \o Before("mt") \o After("mt"),
   CLR_DELETE_TABLE |-> Header \o UndoNext \o Before("mt")]
WriteSchemas ==
  [CREATE_SCHEMA |-> Header \o Nested("schema", "ms"),
   UPDATE_SCHEMA |-> Header \o Before("ms") \o After("ms"),
   DELETE_SCHEMA |-> Header \o Before("ms")]
WriteTables ==
  [CREATE_TABLE |-> Header \o After("mt"),
   UPDATE_TABLE |-> Header \o Before("mt") \o After("mt"),
   DELETE_TABLE |-> Header \o Before("mt")]
WriteIndexes ==
  [CREATE_INDEX |-> Header \o After("mi"),
   CLR_CREATE_INDEX |-> Header \o UndoNext \o After("mi"),
   DROP_INDEX |-> Header \o Before("mi"),
   CLR_DROP_INDEX |-> Header \o UndoNext \o Before("mi")]
WriteTxns == [BEGIN_TXN |-> Header, COMMIT_TXN |-> Header, ROLLBACK_TXN |-> Header]

Writer ==
  StorageWriter @@ WriteRows @@ WriteClrRows @@ WriteClrSchemas @@ WriteClrTables
    @@ WriteSchemas @@ WriteTables @@ WriteIndexes @@ WriteTxns

-----------------------------------------------------------------------------
(* StdWalSerializer::deserialize, by the type that it has read             *)

ReadHeader == Started(<<"lsn", "prev_lsn", "txn_id">>)
ReadIds == Started(<<"table_id", "page_id">>)
ReadUndoNext == Started(<<"undo_next_lsn">>)

ReadTxns == [BEGIN_TXN |-> ReadHeader, COMMIT_TXN |-> ReadHeader, ROLLBACK_TXN |-> ReadHeader]
ReadRows ==
  [INSERT |-> ReadHeader \o ReadIds \o After("dr"),
   UPDATE |-> ReadHeader \o ReadIds \o Before("dr") \o After("dr"),
   DELETE |-> ReadHeader \o ReadIds \o Before("dr")]
ReadSchemas ==
  [CREATE_SCHEMA |-> ReadHeader \o Nested("schema", "ms"),
   UPDATE_SCHEMA |-> ReadHeader \o Before("ms") \o After("ms"),
   DELETE_SCHEMA |-> ReadHeader \o Before("ms")]
ReadTables ==
  [CREATE_TABLE |-> ReadHeader \o After("mt"),
   UPDATE_TABLE |-> ReadHeader \o Before("mt") \o After("mt"),
   DELETE_TABLE |-> ReadHeader \o Before("mt")]
ReadCreateIndex == [CREATE_INDEX |-> ReadHeader \o After("mi")]
ReadClrRows ==
  [CLR_INSERT |-> ReadHeader \o ReadIds \o ReadUndoNext \o After("dr"),
   CLR_UPDATE |-> ReadHeader \o ReadIds \o ReadUndoNext \o Before("dr") \o After("dr"),
   CLR_DELETE |-> ReadHeader \o ReadIds \o ReadUndoNext \o Before("dr")]
ReadClrSchemas ==
  [CLR_CREATE_SCHEMA |-> ReadHeader \o ReadUndoNext \o Nested("schema", "ms"),
   CLR_UPDATE_SCHEMA |-> ReadHeader \o ReadUndoNext \o Before("ms") \o After("ms"),
   CLR_DELETE_SCHEMA |-> ReadHeader \o ReadUndoNext \o Before("ms")]
ReadClrTables ==
  [CLR_CREATE_TABLE |-> ReadHeader \o ReadUndoNext \o After("mt"),
   CLR_UPDATE_TABLE |-> ReadHeader \o ReadUndoNext \o Before("mt") \o After("mt"),
   CLR_DELETE_TABLE |-> ReadHeader \o ReadUndoNext \o Before("mt")]
ReadIndexes ==
  [CLR_CREATE_INDEX |-> ReadHeader \o ReadUndoNext \o After("mi"),
   DROP_INDEX |-> ReadHeader \o Before("mi"),
   CLR_DROP_INDEX |-> ReadHeader \o ReadUndoNext \o Before("mi")]

Reader ==
  StorageReader @@ ReadTxns @@ ReadRows @@ ReadSchemas @@ ReadTables @@ ReadCreateIndex
    @@ ReadClrRows @@ ReadClrSchemas @@ ReadClrTables @@ ReadIndexes

-----------------------------------------------------------------------------
(* Writing to a stream.  shape says how large the object is: its indexes,  *)
(* its tokens (the first of them NULL), leaf or internal pages; every      *)
(* other list has two elements                                             *)

Ordinal(k) == LET names == <<"first", "second", "third", "fourth", "later">>
              IN  names[IF k < Len(names) THEN k ELSE Len(names)]
Length(name, shape) ==
  IF name = "indexes" THEN shape.indexes ELSE IF name = "tokens" THEN shape.tokens ELSE 2
TagValue(path, shape) ==
  IF Last(path) = "is_leaf" THEN (IF shape.leaf THEN 1 ELSE 0)
  ELSE IF path[Len(path) - 1] = "first" THEN 0 ELSE 1

Own == 0 - 1
Leaf(path, width, value) == [path |-> path, width |-> width, value |-> value]
CountOf(path) == Append(path, "count")

RECURSIVE Leaves(_, _, _)
LeavesOf(item, path, shape) ==
  CASE item.type = "field" -> <<Leaf(path, 2, Own)>>
    [] item.type = "byte" -> <<Leaf(path, 1, Own)>>
    [] item.type = "tag" -> <<Leaf(path, 2, TagValue(path, shape))>>
    [] item.type = "count" -> <<Leaf(CountOf(path), 2, Length(item.name, shape))>>
    [] item.type = "nested" -> Leaves(Writer[item.of], path, shape)
    [] item.type = "elements" ->
         FlattenSeq([k \in 1 .. Length(item.name, shape) |->
                       Leaves(Writer[item.of], Append(path, Ordinal(k)), shape)])
    [] item.type = "choice" ->
         LET tag == TagValue(Append(Front(path), item.of.tag), shape)
         IN  Leaves(Writer[IF tag = 0 THEN item.of.zero ELSE item.of.other], Front(path), shape)
Leaves(format, path, shape) ==
  FlattenSeq([i \in DOMAIN format |-> LeavesOf(format[i], Append(path, format[i].name), shape)])

TypeCode(kind) == CHOOSE i \in DOMAIN WALRecordType : WALRecordType[i] = kind
IsRecord(kind) == kind \in ToSet(WALRecordType)

(* Fields get values that are no count, no tag and no type                 *)
Valued(leaves) ==
  [i \in DOMAIN leaves |-> IF leaves[i].value = Own THEN [leaves[i] EXCEPT !.value = 1000 + i]
                           ELSE leaves[i]]
Serialized(shape) ==
  Valued((IF IsRecord(shape.kind) THEN <<Leaf(<<"type">>, 2, TypeCode(shape.kind))>> ELSE <<>>)
           \o Leaves(Writer[shape.kind], <<>>, shape))
Units(value, width) == [i \in 1 .. width |-> <<value, i, width>>]
Stream(leaves) == FlattenSeq([i \in DOMAIN leaves |-> Units(leaves[i].value, leaves[i].width)])
Contents(leaves) ==
  [path \in {leaves[i].path : i \in DOMAIN leaves} |->
     leaves[CHOOSE i \in DOMAIN leaves : leaves[i].path = path].value]

(* write_logs: the size of a record, then the record                       *)
Frame(shape) == LET s == Stream(Serialized(shape)) IN Units(Len(s), 2) \o s

-----------------------------------------------------------------------------
(* Reading from a stream                                                   *)

Garbled == 0 - 2
AtUnit(pos) == [pos |-> pos, ok |-> TRUE, got |-> << >>]
Accepts(check, width, n) ==
  CASE check = "all" -> n = width [] check = "any" -> n # 0 [] check = "none" -> TRUE

(* MemoryStream::read gives what is left                                   *)
ReadField(s, st, path, width, check) ==
  LET left == Len(s) - st.pos
      n == IF left < width THEN left ELSE width
      whole == n = width /\ SubSeq(s, st.pos + 1, st.pos + n) = Units(s[st.pos + 1][1], width)
  IN  [pos |-> st.pos + n, ok |-> Accepts(check, width, n),
       got |-> (path :> IF whole THEN s[st.pos + 1][1] ELSE Garbled) @@ st.got]

RECURSIVE ReadItems(_, _, _, _)
RECURSIVE ReadElements(_, _, _, _, _)
ReadElements(s, st, of, path, k) ==
  IF ~st.ok \/ k > st.got[CountOf(path)] THEN st
  ELSE ReadElements(s, ReadItems(s, st, Reader[of], Append(path, Ordinal(k))), of, path, k + 1)
ReadItem(s, st, item, path) ==
  CASE item.type = "field" -> ReadField(s, st, path, 2, item.check)
    [] item.type = "tag" -> ReadField(s, st, path, 2, item.check)
    [] item.type = "byte" -> ReadField(s, st, path, 1, item.check)
    [] item.type = "count" -> ReadField(s, st, CountOf(path), 2, item.check)
    [] item.type = "nested" -> ReadItems(s, st, Reader[item.of], path)
    [] item.type = "elements" -> ReadElements(s, st, item.of, path, 1)
    [] item.type = "choice" ->
         LET tag == st.got[Append(Front(path), item.of.tag)]
         IN  ReadItems(s, st, Reader[IF tag = 0 THEN item.of.zero ELSE item.of.other], Front(path))
ReadItems(s, st, format, path) ==
  IF ~st.ok \/ format = <<>> THEN st
  ELSE ReadItems(s, ReadItem(s, st, Head(format), Append(path, Head(format).name)),
                 Tail(format), path)

ReadRecord(s, pos) ==
  LET typed == ReadField(s, AtUnit(pos), <<"type">>, 2, "any")
      type == typed.got[<<"type">>]
  IN  IF ~typed.ok \/ type \notin DOMAIN WALRecordType THEN [typed EXCEPT !.ok = FALSE]
      ELSE ReadItems(s, typed, Reader[WALRecordType[type]], <<>>)

(* read_logs_from_file: the next record begins where deserialize stopped,  *)
(* whatever the size said.  rest is what a size that is cut short holds in *)
(* the bytes that were not read                                            *)
RECURSIVE ReadLogs(_, _, _)
ReadLogs(s, pos, rest) ==
  IF pos = Len(s) THEN [ok |-> TRUE, logs |-> <<>>]
  ELSE
    LET sized == ReadField(s, AtUnit(pos), <<"size">>, 2, "any")
        size == IF sized.got[<<"size">>] = Garbled THEN rest ELSE sized.got[<<"size">>]
        record == ReadRecord(s, sized.pos)
        more == ReadLogs(s, record.pos, rest)
    IN  IF Len(s) - sized.pos < size THEN [ok |-> TRUE, logs |-> <<>>]
        ELSE IF ~record.ok THEN [ok |-> FALSE, logs |-> <<>>]
        ELSE [more EXCEPT !.logs = <<record.got>> \o @]

-----------------------------------------------------------------------------
Shape(kind, indexes, tokens, leaf) ==
  [kind |-> kind, indexes |-> indexes, tokens |-> tokens, leaf |-> leaf]
CommitShape == Shape("COMMIT_TXN", 0, 0, TRUE)

(* A log with the record reads back as what was written, and the record    *)
(* after it too; a log that ends anywhere inside the record reads as what  *)
(* precedes it.  A log that ends inside the size of a record does so only  *)
(* if the uninitialized rest of the size is not 0.                         *)
RecordSound(shape) ==
  LET commit == Frame(CommitShape)
      frame == Frame(shape)
      committed == Contents(Serialized(CommitShape))
      Cut(n, rest) == ReadLogs(commit \o SubSeq(frame, 1, n), 0, rest)
  IN  /\ ReadLogs(frame \o commit, 0, 0) =
           [ok |-> TRUE, logs |-> <<Contents(Serialized(shape)), committed>>]
      /\ \A n \in 0 .. Len(frame) - 1 : \A rest \in {0, 1000} :
           (n = 1 /\ rest = 0) \/ Cut(n, rest) = [ok |-> TRUE, logs |-> <<committed>>]

(* A file reads back as what was written, and no part of one is taken for  *)
(* a whole: the files are overwritten in place.                            *)
FileSound(shape) ==
  LET s == Stream(Serialized(shape))
      Read(t) == ReadItems(t, AtUnit(0), Reader[shape.kind], <<>>)
  IN  /\ Read(s) = [pos |-> Len(s), ok |-> TRUE, got |-> Contents(Serialized(shape))]
      /\ \A n \in 0 .. Len(s) - 1 : ~Read(SubSeq(s, 1, n)).ok
=============================================================================
