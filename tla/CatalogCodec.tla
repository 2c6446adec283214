---------------------------- MODULE CatalogCodec ----------------------------
(***************************************************************************)
(* The log and the metadata files of module Catalog in the formats of      *)
(* module WalCodec (wal/std_wal_serializer.cpp,                            *)
(* storage/std_storage_serializer.cpp).                                    *)
(***************************************************************************)
EXTENDS Catalog, WalCodec

(* The log and the files, as they are when a process may die, read back as *)
(* what was written: the two serializers agree on the order of the fields  *)
(* of every record, of the rows that go with it and of every file, with any*)
(* number of indexes; and a log or a file that a crash cuts short anywhere *)
(* reads as the records before the cut, or not at all (module WalCodec     *)
(* names the one exception).                                               *)
WalTypes ==
  [create_schema |-> <<"CREATE_SCHEMA", "CLR_CREATE_SCHEMA">>,
   create_table |-> <<"CREATE_TABLE", "CLR_CREATE_TABLE">>,
   update_table |-> <<"UPDATE_TABLE", "CLR_UPDATE_TABLE">>,
   create_index |-> <<"CREATE_INDEX", "CLR_CREATE_INDEX">>,
   drop_index |-> <<"DROP_INDEX", "CLR_DROP_INDEX">>,
   commit |-> <<"COMMIT_TXN">>, rollback |-> <<"ROLLBACK_TXN">>]
RowTypes == {"INSERT", "UPDATE", "DELETE", "CLR_INSERT", "CLR_UPDATE", "CLR_DELETE", "BEGIN_TXN"}
RecordShapes(r) ==
  {Shape(WalTypes[r.kind][IF r.clr THEN 2 ELSE 1],
         IF r.kind = "update_table" THEN BagCardinality(r.after.indexes) ELSE 0, 0, TRUE)}
    \union IF r.kind = "update_table"
           THEN {Shape(type, 0, tokens, TRUE) : type \in RowTypes, tokens \in 0 .. 2} ELSE {}
FileShapes ==
  {Shape("mt", BagCardinality(mt.indexes), 0, TRUE) : mt \in StoredTables(disk)}
    \union {Shape(file, 0, 2, leaf) : file \in {"ms", "cfg", "dp", "if"}, leaf \in BOOLEAN}
AllShapes(kinds) == {Shape(kind, n, m, leaf) :
                       kind \in kinds, n \in 0 .. MaxIds, m \in 0 .. 2, leaf \in BOOLEAN}
SoundRecords == {shape \in AllShapes(ToSet(WALRecordType)) : RecordSound(shape)}
SoundFiles == {shape \in AllShapes({"mt", "ms", "cfg", "dp", "if"}) : FileSound(shape)}
StoredReadsBack ==
  /\ \A i \in DOMAIN log : RecordShapes(log[i]) \subseteq SoundRecords
  /\ FileShapes \subseteq SoundFiles
=============================================================================
