------------------------------ MODULE Planner ------------------------------
(***************************************************************************)
(* From a parsed statement to a plan: executor/semantic_analyzer.cpp and   *)
(* executor/std_planner.cpp, over the catalog of an attached database with *)
(* one schema, the default one.                                            *)
(*                                                                         *)
(* A table is a record of its columns, its indexes and the row counts that *)
(* the planner reads.  An error that is returned and one that is thrown    *)
(* both end in execute_query throwing: both are a refusal here.            *)
(***************************************************************************)
EXTENDS SqlParser

CONSTANTS
  MaxInt,            \* the largest int: std::stoi throws on a larger literal
  StreamThreshold    \* k_seq_scan_stream_threshold_rows, 2048 in the code

ASSUME PlannerAssumption == {MaxInt, StreamThreshold} \subseteq Nat

DefaultSchema == "common"
SchemaOf(id) == IF id.schema_name = NoSchema THEN DefaultSchema ELSE id.schema_name

(* exists_table, get_table                                                 *)
ExistsTable(tables, id) == SchemaOf(id) = DefaultSchema /\ id.table_name \in DOMAIN tables
TableOf(tables, id) == tables[id.table_name]

HasColumn(mt, name) == \E i \in DOMAIN mt.columns : mt.columns[i].name = name
(* get_column_idx: the first column of that name                           *)
ColumnIdx(mt, name) ==
  CHOOSE i \in DOMAIN mt.columns :
    mt.columns[i].name = name /\ \A j \in 1 .. i - 1 : mt.columns[j].name # name

-----------------------------------------------------------------------------
(* Semantic analysis                                                       *)

(* compat_table, for the literals that a text can hold                     *)
IsCompatible(lit, type) ==
  \/ lit = "null"
  \/ lit = type /\ lit \in {"integer", "real", "string"}
  \/ type = "real" /\ lit = "integer"
  \/ type = "null"

(* analyze_column_comparison: a column and a literal, in either order      *)
ComparisonValid(mt, op, left, right) ==
  /\ {left.type, right.type} = {"identifier", "literal"}
  /\ LET column == IF left.type = "identifier" THEN left ELSE right
         literal == IF left.type = "identifier" THEN right ELSE left
     IN  /\ op = "is" => literal.lit = "null"
         /\ HasColumn(mt, column.value)
         /\ IsCompatible(literal.lit, mt.columns[ColumnIdx(mt, column.value)].type)

RECURSIVE WhereValid(_, _)
WhereValid(mt, where) ==
  CASE where.op = "=" -> FALSE
    [] where.op \in {"and", "or"} ->
         /\ where.left.type = "binary" /\ WhereValid(mt, where.left)
         /\ where.right.type = "binary" /\ WhereValid(mt, where.right)
    [] OTHER -> ComparisonValid(mt, where.op, where.left, where.right)

SelectValid(tables, stmt) ==
  /\ ExistsTable(tables, stmt.table)
  /\ LET mt == TableOf(tables, stmt.table)
     IN  /\ \A i \in DOMAIN stmt.columns : HasColumn(mt, stmt.columns[i])
         /\ stmt.where # NoExpr => WhereValid(mt, stmt.where)

(* a value without a column is an out_of_range, a column without a value is*)
(* NULL                                                                    *)
InsertValid(tables, stmt) ==
  /\ ExistsTable(tables, stmt.table)
  /\ LET mt == TableOf(tables, stmt.table)
     IN  /\ \A i \in DOMAIN stmt.columns : HasColumn(mt, stmt.columns[i])
         /\ Len(stmt.values) <= Len(stmt.columns)
         /\ \A i \in DOMAIN stmt.values :
              IsCompatible(Literals[stmt.values[i]].lit,
                           mt.columns[ColumnIdx(mt, stmt.columns[i])].type)

AssignmentValid(mt, asg) ==
  /\ asg.left.type = "identifier" /\ asg.right.type = "literal"
  /\ HasColumn(mt, asg.left.value)
  /\ IsCompatible(asg.right.lit, mt.columns[ColumnIdx(mt, asg.left.value)].type)

UpdateValid(tables, stmt) ==
  /\ ExistsTable(tables, stmt.table)
  /\ LET mt == TableOf(tables, stmt.table)
     IN  /\ \A i \in DOMAIN stmt.assignments : AssignmentValid(mt, stmt.assignments[i])
         /\ stmt.where # NoExpr => WhereValid(mt, stmt.where)

DeleteValid(tables, stmt) ==
  /\ ExistsTable(tables, stmt.table)
  /\ stmt.where # NoExpr => WhereValid(TableOf(tables, stmt.table), stmt.where)

HasIndex(mt, name) == \E i \in DOMAIN mt.indexes : mt.indexes[i].name = name

CreateIndexValid(tables, stmt) ==
  /\ ExistsTable(tables, stmt.table)
  /\ ~HasIndex(TableOf(tables, stmt.table), stmt.index_name)
  /\ HasColumn(TableOf(tables, stmt.table), stmt.column_name)

DropIndexValid(tables, stmt) ==
  /\ ExistsTable(tables, stmt.table)
  /\ HasIndex(TableOf(tables, stmt.table), stmt.index_name)

(* analyze; CREATE SCHEMA has no case of its own and is refused            *)
Valid(tables, databases, stmt) ==
  CASE stmt.type = "select"          -> SelectValid(tables, stmt)
    [] stmt.type = "insert"          -> InsertValid(tables, stmt)
    [] stmt.type = "update"          -> UpdateValid(tables, stmt)
    [] stmt.type = "delete"          -> DeleteValid(tables, stmt)
    [] stmt.type = "create_database" -> stmt.name \notin databases
    [] stmt.type = "create_table"    -> ~ExistsTable(tables, stmt.table)
    [] stmt.type = "create_index"    -> CreateIndexValid(tables, stmt)
    [] stmt.type = "drop_index"      -> DropIndexValid(tables, stmt)
    [] OTHER                         -> FALSE

-----------------------------------------------------------------------------
(* Values: DataToken                                                       *)

Null == [type |-> "null", n |-> 0]
(* the constructor from a literal, and whether std::stoi throws in it      *)
Fits(value) == Literals[value].lit = "integer" => Literals[value].n <= MaxInt
ValueOf(value) == [type |-> Literals[value].lit, n |-> Literals[value].n]
LiteralFits(node) == node.lit = "null" \/ Fits(node.value)
LiteralValue(node) == IF node.lit = "null" THEN Null ELSE ValueOf(node.value)

-----------------------------------------------------------------------------
(* Plan nodes: types/include/query_plan.hpp                                *)

SeqScanPlan(table) == [type |-> "seq_scan", table |-> table]
IndexScanPlan(table, index, condition) ==
  [type |-> "index_scan", table |-> table, index |-> index, condition |-> condition]
ValuesPlan(values) == [type |-> "values", values |-> values]
FilterPlan(where, child) == [type |-> "filter", where |-> where, child |-> child]
ProjectPlan(columns, child) == [type |-> "project", columns |-> columns, child |-> child]
InsertPlan(table, columns, child) ==
  [type |-> "insert", table |-> table, columns |-> columns, child |-> child]
UpdatePlan(table, assignments, child) ==
  [type |-> "update", table |-> table, assignments |-> assignments, child |-> child]
DeletePlan(table, child) == [type |-> "delete", table |-> table, child |-> child]
CreateDbPlan(name) == [type |-> "create_db", name |-> name]
CreateTablePlan(table, columns) ==
  [type |-> "create_table", table |-> table, columns |-> columns]
CreateIndexPlan(name, table, column, is_unique) ==
  [type |-> "create_index", name |-> name, table |-> table, column |-> column,
   is_unique |-> is_unique]
DropIndexPlan(name, table) == [type |-> "drop_index", name |-> name, table |-> table]

(* QueryPlan                                                               *)
QueryPlan(root, needs_stream) == [root |-> root, needs_stream |-> needs_stream]

-----------------------------------------------------------------------------
(* The choice of a scan                                                    *)

(* conditions on NULL never use an index: NULL has no entry in one         *)
IsNullPredicate(condition) ==
  \/ condition.op = "is"
  \/ /\ condition.op \in {"==", "!="}
     /\ \/ condition.left.type = "literal" /\ condition.left.lit = "null"
        \/ condition.right.type = "literal" /\ condition.right.lit = "null"

(* estimate_index_scan < total_rows.  With N rows in total an index scan   *)
(* costs log2(N) + N * sel, or nothing when no row lives; sel is 0.1 for an*)
(* equality on a unique index, 0.3 for a range and 1 otherwise, and for    *)
(* every N > 0 that is less than N exactly when sel < 1.                   *)
Ranges == {"<", "<=", ">", ">="}
IndexScanCheaper(mt, index, condition) ==
  /\ mt.total_rows > 0
  /\ \/ mt.live_rows = 0
     \/ condition.op \in Ranges
     \/ condition.op = "==" /\ index.is_unique

(* of several, which all cost the same, the first is chosen                *)
Cheapest(candidates) == CHOOSE i \in candidates : \A j \in candidates : i <= j

(* choose_scan_type throws for a table with indexes when the left side of  *)
(* the condition is not a column                                           *)
ChoiceThrows(mt, condition) ==
  /\ condition # NoExpr /\ ~IsNullPredicate(condition)
  /\ mt.indexes # <<>> /\ condition.left.type # "identifier"

(* the indexes on the condition's column that beat a sequential scan       *)
(* (a mutant: any index of the table will do)                              *)
CandidatesOfTable(mt, condition) ==
  IF condition = NoExpr \/ IsNullPredicate(condition) THEN {}
  ELSE {i \in DOMAIN mt.indexes : IndexScanCheaper(mt, mt.indexes[i], condition)}
Candidates(mt, condition) ==
  IF condition = NoExpr \/ IsNullPredicate(condition) THEN {}
  ELSE {i \in DOMAIN mt.indexes :
          /\ mt.indexes[i].column = ColumnIdx(mt, condition.left.value)
          /\ IndexScanCheaper(mt, mt.indexes[i], condition)}

(* should_stream_for_seq_scan: total_rows * (live_rows / total_rows), times*)
(* 0.3 for a filter, times 1 for a projection                              *)
ShouldStream(mt, filtered) ==
  /\ mt.total_rows > 0
  /\ (IF filtered THEN 3 ELSE 10) * mt.live_rows >= 10 * StreamThreshold

-----------------------------------------------------------------------------
(* plan, one overload per statement                                        *)

Filtered(where, scan) == IF where = NoExpr THEN scan ELSE FilterPlan(where, scan)

PlanSelect(tables, stmt) ==
  LET mt == TableOf(tables, stmt.table)
      candidates == Candidates(mt, stmt.where)
      scan == IF candidates # {}
                THEN IndexScanPlan(stmt.table, Cheapest(candidates), stmt.where)
                ELSE Filtered(stmt.where, SeqScanPlan(stmt.table))
      root == IF stmt.columns = <<>> THEN scan ELSE ProjectPlan(stmt.columns, scan)
  IN  QueryPlan(root, candidates = {} /\ ShouldStream(mt, stmt.where # NoExpr))

PlanInsert(stmt) ==
  QueryPlan(InsertPlan(stmt.table, stmt.columns, ValuesPlan(stmt.values)), FALSE)

PlanUpdate(stmt) ==
  QueryPlan(UpdatePlan(stmt.table, stmt.assignments,
                       Filtered(stmt.where, SeqScanPlan(stmt.table))), FALSE)

PlanDelete(stmt) ==
  QueryPlan(DeletePlan(stmt.table, Filtered(stmt.where, SeqScanPlan(stmt.table))), FALSE)

(* the literals that a plan turns into values: those of an INSERT and of   *)
(* the assignments of an UPDATE; std::stoi throws on one that is too large *)
PlanThrows(tables, stmt) ==
  CASE stmt.type = "select" -> /\ stmt.where # NoExpr
                               /\ ChoiceThrows(TableOf(tables, stmt.table), stmt.where)
    [] stmt.type = "insert" -> \E i \in DOMAIN stmt.values : ~Fits(stmt.values[i])
    [] stmt.type = "update" ->
         \E i \in DOMAIN stmt.assignments : ~LiteralFits(stmt.assignments[i].right)
    [] OTHER -> FALSE

(* CREATE TABLE in a schema that does not exist: *schema of a null pointer *)
PlanCrashes(stmt) ==
  stmt.type = "create_table" /\ SchemaOf(stmt.table) # DefaultSchema

Plan(tables, stmt) ==
  CASE stmt.type = "select"          -> PlanSelect(tables, stmt)
    [] stmt.type = "insert"          -> PlanInsert(stmt)
    [] stmt.type = "update"          -> PlanUpdate(stmt)
    [] stmt.type = "delete"          -> PlanDelete(stmt)
    [] stmt.type = "create_database" -> QueryPlan(CreateDbPlan(stmt.name), FALSE)
    [] stmt.type = "create_table"    ->
         QueryPlan(CreateTablePlan(stmt.table, stmt.columns), FALSE)
    [] stmt.type = "create_index"    ->
         QueryPlan(CreateIndexPlan(stmt.index_name, stmt.table, stmt.column_name,
                                   stmt.is_unique), FALSE)
    [] stmt.type = "drop_index"      ->
         QueryPlan(DropIndexPlan(stmt.index_name, stmt.table), FALSE)
=============================================================================
