------------------------------- MODULE Query -------------------------------
(***************************************************************************)
(* Engine::execute_query on an attached database: a text is lexed, parsed, *)
(* analysed and planned, and the tree of node executors is run             *)
(* (executor/node_executor.cpp, executor/evaluator.cpp, engine/engine.cpp).*)
(* A session runs one statement at a time.                                 *)
(*                                                                         *)
(* A table is one page of rows; page boundaries, the log and restarts are  *)
(* those of module Storage.  An index is its entries in the order they were*)
(* made; the tree is that of module Index, and which of several entries of *)
(* a key find() meets, and whether the split of a full leaf throws, is left*)
(* open.  A DataToken is its type and a number.                            *)
(***************************************************************************)
EXTENDS Planner, FiniteSets

CONSTANTS
  Statements,   \* the statements that clients write
  Words,        \* the words they mistype
  Careless,     \* the statements that they send mistyped, too
  MaxLeafKeys,  \* entries that fit into one leaf of an index, 64 in the code
  Counter,      \* number of values of live_rows, 2^64 in the code
  MaxRows       \* bound on the rows made and on the failed INSERTs together

ASSUME QueryAssumption == {MaxRows, MaxLeafKeys, Counter} \subseteq Nat /\ Counter > MaxRows

VARIABLES
  tables,      \* the catalog and the rows: table name -> table
  databases,   \* the databases that exist
  phase        \* of the session: "idle"; "hung" in lex; "crashed" with its process

vars == <<tables, databases, phase>>

Init ==
  /\ tables = << >>
  /\ databases = {"d"}
  /\ phase = "idle"

-----------------------------------------------------------------------------
(* Evaluator                                                               *)

(* Of the conditions that analysis lets pass, evaluate takes a column and a*)
(* literal, in this order; every other one throws, for the first row       *)
EvaluateThrows(expr) ==
  \/ "binary" \in {expr.left.type, expr.right.type}
  \/ expr.left.type = "literal"
  \/ ~LiteralFits(expr.right)

Eq(l, r) == IF Null \in {l, r} THEN l.type = r.type ELSE l.type = r.type /\ l.n = r.n

(* lt and lte compare the other way round: they are gr and gre             *)
Ordered(l, r) == l.type = r.type /\ l.type \in {"integer", "real", "string", "char"}
Gr(l, r) == Ordered(l, r) /\ l.n > r.n
Gre(l, r) == Ordered(l, r) /\ l.n >= r.n
Lt(l, r) == Ordered(l, r) /\ l.n > r.n
Lte(l, r) == Ordered(l, r) /\ l.n >= r.n

Compare(l, r, op) ==
  CASE op \in {"==", "is"} -> Eq(l, r)
    [] op = "!=" -> ~Eq(l, r)
    [] op = "<"  -> Lt(l, r)
    [] op = "<=" -> Lte(l, r)
    [] op = ">"  -> Gr(l, r)
    [] op = ">=" -> Gre(l, r)

(* the operators of DataToken, which index_scan uses: tokens of different  *)
(* types are ordered by their types                                        *)
TypeRank(type) == CASE type = "null" -> 1 [] type = "integer" -> 2 [] type = "real" -> 3
                    [] type = "char" -> 4 [] type = "bool" -> 5 [] type = "string" -> 6
TokenLess(l, r) ==
  IF l.type # r.type THEN TypeRank(l.type) < TypeRank(r.type) ELSE l.n < r.n
IndexCompare(l, r, op) ==
  CASE op = "==" -> l = r
    [] op = "!=" -> l # r
    [] op = "<"  -> TokenLess(l, r)
    [] op = "<=" -> TokenLess(l, r) \/ l = r
    [] op = ">"  -> TokenLess(r, l)
    [] op = ">=" -> ~TokenLess(l, r)

-----------------------------------------------------------------------------
(* Scans: the rows that an executor hands up, as positions in mt.rows, or  *)
(* that its next() throws                                                  *)

LiveRows(mt) == SelectSeq([i \in DOMAIN mt.rows |-> i], LAMBDA i : mt.rows[i].live)
ColumnValue(mt, i, node) == mt.rows[i].vals[ColumnIdx(mt, node.value)]

Found(rows) == [ok |-> TRUE, rows |-> rows]
Thrown == [ok |-> FALSE, rows |-> <<>>]

FilterRows(mt, where, child) ==
  IF child = <<>> THEN Found(<<>>)
  ELSE IF EvaluateThrows(where) THEN Thrown
  ELSE Found(SelectSeq(child, LAMBDA i :
               Compare(ColumnValue(mt, i, where.left), LiteralValue(where.right), where.op)))

(* RowPtr: the first row of that id, 0 when there is none                  *)
RowAt(rows, id) ==
  LET at == {i \in DOMAIN rows : rows[i].id = id}
  IN  IF at = {} THEN 0 ELSE CHOOSE i \in at : \A j \in at : i <= j

(* the leaves from left to right; obsolete rows are skipped, the others    *)
(* are compared with the condition once more                               *)
IndexScanRows(mt, index, condition) ==
  LET keyed == SortSeq(index.entries, LAMBDA e, f : TokenLess(e.key, f.key))
      at == [k \in DOMAIN keyed |-> RowAt(mt.rows, keyed[k].id)]
      live == SelectSeq(at, LAMBDA i : i # 0 /\ mt.rows[i].live)
  IN  IF live # <<>> /\ ~LiteralFits(condition.right) THEN Thrown
      ELSE Found(SelectSeq(live, LAMBDA i :
                   IndexCompare(ColumnValue(mt, i, condition.left),
                                LiteralValue(condition.right), condition.op)))

RECURSIVE Rows(_, _)
Rows(mt, plan) ==
  CASE plan.type = "seq_scan"   -> Found(LiveRows(mt))
    [] plan.type = "filter"     -> LET child == Rows(mt, plan.child)
                                   IN  FilterRows(mt, plan.where, child.rows)
    [] plan.type = "index_scan" -> IndexScanRows(mt, mt.indexes[plan.index], plan.condition)
    [] plan.type = "project"    -> Rows(mt, plan.child)

(* The result of a SELECT: [ok, rows] as above, and what each row of the   *)
(* answer holds.  A streamed result pulls from executors that nobody       *)
(* opened, whose cursor is not initialised.  ProjectionNodeExecutor appends*)
(* to the row that execute_query uses for every call of next.              *)
Projection(mt, columns, i) ==
  LET indices == SortSeq([k \in DOMAIN columns |-> ColumnIdx(mt, columns[k])], <)
  IN  [k \in DOMAIN indices |-> mt.rows[i].vals[indices[k]]]
RECURSIVE Accumulated(_, _, _, _)
Accumulated(mt, columns, rows, k) ==
  IF k = 0 THEN <<>>
  ELSE Accumulated(mt, columns, rows, k - 1) \o Projection(mt, columns, rows[k])

Answer(mt, plan) ==
  LET found == IF plan.needs_stream THEN Found(<<>>) ELSE Rows(mt, plan.root)
  IN  [ok |-> found.ok, rows |-> found.rows,
       values |-> IF plan.root.type = "project"
                    THEN [k \in DOMAIN found.rows |->
                            Accumulated(mt, plan.root.columns, found.rows, k)]
                    ELSE [k \in DOMAIN found.rows |-> mt.rows[found.rows[k]].vals]]

-----------------------------------------------------------------------------
(* Statements that change a table: the set of ways they may end, with the  *)
(* table as it then is.  `moved` is about update_row, see UpdateEach.      *)

Outcome(end, mt) == [end |-> end, table |-> mt, moved |-> FALSE]
Done(mt) == Outcome("done", mt)
Threw(mt) == Outcome("threw", mt)
Died(mt) == Outcome("died", mt)     \* with the process

(* insert_row_into_indexes, index by index: a unique one refuses a key     *)
(* when the entry that find() meets is not of an obsolete row; an entry too*)
(* many for one leaf may make the split throw std::length_error, when it   *)
(* is in the leaf already.  The entries made before stay.                  *)
EntriesOf(index, key) == {e \in ToSet(index.entries) : e.key = key}
IsObsolete(rows, id) == RowAt(rows, id) # 0 /\ ~rows[RowAt(rows, id)].live
Entered(index, row) ==
  [index EXCEPT !.entries = Append(@, [key |-> row.vals[index.column], id |-> row.id])]

RECURSIVE InsertIntoIndexes(_, _, _)
InsertIntoIndexes(mt, row, k) ==
  IF k > Len(mt.indexes) THEN {Done(mt)}
  ELSE LET index == mt.indexes[k]
           key == row.vals[index.column]
           met == IF index.is_unique THEN EntriesOf(index, key) ELSE {}
           entered == [mt EXCEPT !.indexes[k] = Entered(index, row)]
           goOn == InsertIntoIndexes(entered, row, k + 1)
           overfull == IF Len(index.entries) < MaxLeafKeys THEN {} ELSE {Threw(entered)}
       IN  IF key = Null THEN InsertIntoIndexes(mt, row, k + 1)
           ELSE (IF \E e \in met : ~IsObsolete(mt.rows, e.id) THEN {Threw(mt)} ELSE {})
                  \union (IF met = {} \/ \E e \in met : IsObsolete(mt.rows, e.id)
                            THEN goOn \union overfull ELSE {})

(* make_row: the last value that names a column, NULL for the others       *)
(* (a mutant: missing values are not filled in)                            *)
MakeRowShort(mt, columns, values) == [i \in DOMAIN values |-> ValueOf(values[i])]
MakeRow(mt, columns, values) ==
  [c \in DOMAIN mt.columns |->
     LET given == {i \in DOMAIN values : ColumnIdx(mt, columns[i]) = c}
     IN  IF given = {} THEN Null
         ELSE ValueOf(values[CHOOSE i \in given : \A j \in given : j <= i])]

(* insert_row: the counts and the row id first, the indexes next, then the *)
(* page; what is counted stays counted when an index refuses the row       *)
(* (a mutant: the row is on its page before the indexes are asked)         *)
Counted(mt) == [mt EXCEPT !.total_rows = @ + 1, !.live_rows = @ + 1, !.last_rid = @ + 1]
NewRow(id, vals) == [id |-> id, vals |-> vals, live |-> TRUE]
InsertPageFirst(mt, columns, values) ==
  LET row == NewRow(mt.last_rid, MakeRow(mt, columns, values))
      made == [Counted(mt) EXCEPT !.rows = Append(@, row)]
  IN  InsertIntoIndexes(made, row, 1)
InsertRow(mt, columns, values) ==
  LET row == NewRow(mt.last_rid, MakeRow(mt, columns, values))
  IN  {IF out.end = "done" THEN Done([out.table EXCEPT !.rows = Append(@, row)]) ELSE out :
         out \in InsertIntoIndexes(Counted(mt), row, 1)}

Assigned(mt, vals, assignments) ==
  [c \in DOMAIN vals |->
     LET given == {i \in DOMAIN assignments : ColumnIdx(mt, assignments[i].left.value) = c}
     IN  IF given = {} THEN vals[c]
         ELSE LiteralValue(assignments[CHOOSE i \in given : \A j \in given : j <= i].right)]

(* update_row takes the rows found by their ids, and each of them in turn: *)
(* it is flagged and its new version put on the page before the indexes are*)
(* asked.  The flag is `lost` when it is set in freed memory.              *)
(* (a mutant: the old version is never flagged)                            *)
LiveOf(rows, found) ==
  LET ids == {rows[found[k]].id : k \in DOMAIN found}
  IN  SelectSeq([i \in DOMAIN rows |-> i], LAMBDA i : rows[i].live /\ rows[i].id \in ids)
UpdateRowBoth(mt, i, vals, lost) ==
  [mt EXCEPT !.total_rows = @ + 1, !.last_rid = @ + 1,
             !.rows = Append(@, NewRow(mt.last_rid + 1, vals))]
UpdateRow(mt, i, vals, lost) ==
  [mt EXCEPT !.total_rows = @ + 1, !.last_rid = @ + 1,
             !.rows = Append([@ EXCEPT ![i].live = lost], NewRow(mt.last_rid + 1, vals))]

(* The push_back of a new version may move the rows of the page, and the   *)
(* loop over them goes on in the memory they have left.  A row met there   *)
(* may end the process, be overlooked, or be updated without its flag,     *)
(* depending on the build and on who uses that memory.                     *)
RECURSIVE UpdateEach(_, _, _, _)
UpdateEach(mt, positions, assignments, moved) ==
  IF positions = <<>> THEN {[Done(mt) EXCEPT !.moved = moved]}
  ELSE LET rest == Tail(positions)
           made == UpdateRow(mt, Head(positions),
                             Assigned(mt, mt.rows[Head(positions)].vals, assignments), moved)
           moves == IF moved THEN {TRUE} ELSE IF rest = <<>> THEN {FALSE} ELSE BOOLEAN
           updated == UNION {IF out.end = "done"
                               THEN UNION {UpdateEach(out.table, rest, assignments, m) : m \in moves}
                               ELSE {[out EXCEPT !.moved = moved]} :
                               out \in InsertIntoIndexes(made, Last(made.rows), 1)}
       IN  IF moved THEN updated \union {Died(mt)} \union UpdateEach(mt, rest, assignments, TRUE)
           ELSE updated
UpdateRows(mt, found, assignments) == UpdateEach(mt, LiveOf(mt.rows, found), assignments, FALSE)

DeleteRows(mt, found) ==
  LET gone == ToSet(LiveOf(mt.rows, found))
  IN  [mt EXCEPT !.live_rows = (@ + Counter - Cardinality(gone)) % Counter,
                 !.rows = [i \in DOMAIN @ |-> [@[i] EXCEPT !.live = @ /\ i \notin gone]]]

(* create_index: duplicates among the live rows are refused, and so are    *)
(* more entries than one leaf of the new tree takes: its first split throws*)
(* std::length_error.  The index is part of the table when it has an entry *)
(* for each live row.                                                      *)
HasDuplicates(mt, column) ==
  \E i, j \in ToSet(LiveRows(mt)) :
    i # j /\ mt.rows[i].vals[column] = mt.rows[j].vals[column] /\ mt.rows[i].vals[column] # Null
AddIndex(mt, plan, is_unique) ==
  LET column == ColumnIdx(mt, plan.column)
      keyed == SelectSeq(LiveRows(mt), LAMBDA i : mt.rows[i].vals[column] # Null)
      entries == [k \in DOMAIN keyed |->
                    [key |-> mt.rows[keyed[k]].vals[column], id |-> mt.rows[keyed[k]].id]]
  IN  IF (is_unique /\ HasDuplicates(mt, column)) \/ Len(entries) > MaxLeafKeys THEN Threw(mt)
      ELSE Done([mt EXCEPT !.indexes =
                   Append(@, [name |-> plan.name, column |-> column,
                              is_unique |-> is_unique, entries |-> entries])])

(* drop_index                                                              *)
RemoveIndex(mt, name) == [mt EXCEPT !.indexes = SelectSeq(@, LAMBDA index : index.name # name)]

(* create_table: a column's type has to be the keyword of a data type      *)
ColumnsConvert(defs) == \A i \in DOMAIN defs : defs[i].type \in DataTypes
NewTable(defs) ==
  [columns |-> [i \in DOMAIN defs |-> [name |-> defs[i].name, type |-> defs[i].type]],
   indexes |-> <<>>, rows |-> <<>>, last_rid |-> 0, total_rows |-> 0, live_rows |-> 0]

-----------------------------------------------------------------------------
(* Texts: what clients write, and the slips of one word                    *)

(* the text of a statement; != may be spelled IS NOT                       *)
CommaList(parts) ==
  FoldLeft(LAMBDA text, part : IF text = <<>> THEN part ELSE text \o <<",">> \o part, <<>>, parts)
Parenthesized(parts) == <<"(">> \o CommaList(parts) \o <<")">>
WrittenTable(id) ==
  (IF id.schema_name = NoSchema THEN <<>> ELSE <<id.schema_name, ".">>) \o <<id.table_name>>
RECURSIVE WrittenExpr(_, _)
WrittenExpr(e, neq) ==
  IF e.type # "binary" THEN <<e.value>>
  ELSE WrittenExpr(e.left, neq)
         \o (IF e.op = "!=" THEN neq ELSE <<e.op>>)
         \o WrittenExpr(e.right, neq)
WrittenWhere(where, neq) ==
  IF where = NoExpr THEN <<>> ELSE <<"where">> \o WrittenExpr(where, neq)
Each(Write(_), parts) == [k \in DOMAIN parts |-> Write(parts[k])]
Word(w) == <<w>>
Written(stmt, neq) ==
  CASE stmt.type = "select" ->
         <<"select">> \o (IF stmt.columns = <<>> THEN <<"*">> ELSE CommaList(Each(Word, stmt.columns)))
           \o <<"from">> \o WrittenTable(stmt.table) \o WrittenWhere(stmt.where, neq)
    [] stmt.type = "insert" ->
         <<"insert", "into">> \o WrittenTable(stmt.table) \o Parenthesized(Each(Word, stmt.columns))
           \o <<"values">> \o Parenthesized(Each(Word, stmt.values))
    [] stmt.type = "update" ->
         <<"update">> \o WrittenTable(stmt.table)
           \o <<"set">> \o CommaList(Each(LAMBDA e : WrittenExpr(e, neq), stmt.assignments))
           \o WrittenWhere(stmt.where, neq)
    [] stmt.type = "delete" ->
         <<"delete", "from">> \o WrittenTable(stmt.table) \o WrittenWhere(stmt.where, neq)
    [] stmt.type = "create_table" ->
         <<"create", "table">> \o WrittenTable(stmt.table)
           \o (IF stmt.columns = <<>> THEN <<>>
               ELSE Parenthesized(Each(LAMBDA def : <<def.name, def.type>> \o def.constraints,
                                       stmt.columns)))
    [] stmt.type = "create_database" -> <<"create", "database", stmt.name>>
    [] stmt.type = "create_schema" -> <<"create", "schema", stmt.name>>
    [] stmt.type = "create_index" ->
         <<"create">> \o (IF stmt.is_unique = {TRUE} THEN <<"unique">> ELSE <<>>)
           \o <<"index", stmt.index_name, "on">> \o WrittenTable(stmt.table)
           \o Parenthesized(<<Word(stmt.column_name)>>)
    [] stmt.type = "drop_index" ->
         <<"drop", "index", stmt.index_name, "on">> \o WrittenTable(stmt.table)

Spelled(stmt) ==
  {Written(stmt, neq) \o end : neq \in {<<"!=">>, <<"is", "not">>}, end \in {<<>>, <<";">>}}
Slips(text) ==
  {text} \union {RemoveAt(text, i) : i \in DOMAIN text}
    \union {InsertAt(text, i, w) : i \in 1 .. Len(text) + 1, w \in Words}
    \union {ReplaceAt(text, i, w) : i \in DOMAIN text, w \in Words}
Mistyped(stmts) == UNION {Slips(text) : text \in UNION {Spelled(stmt) : stmt \in stmts}}
Texts == UNION {Spelled(stmt) : stmt \in Statements} \union Mistyped(Careless)

(* lex and parse                                                           *)
Parsed(text) == Parse(Lex(text))
Accepted(texts) == {text \in texts : ~LexHangs(text) /\ ~LexThrows(text) /\ Parsed(text).ok}
ParsedStatements == {Parsed(text).node : text \in Accepted(Texts)}
OfType(type) == {stmt \in ParsedStatements : stmt.type = type}

-----------------------------------------------------------------------------
(* execute_query, one action for each kind of statement.  A SELECT changes *)
(* nothing, and neither does a text that is refused.                       *)

IsRun(stmt) ==
  /\ Valid(tables, databases, stmt)
  /\ ~PlanCrashes(stmt)
  /\ ~PlanThrows(tables, stmt)

(* the rows are found first; a scan that throws changes nothing            *)
Outcomes(mt, stmt) ==
  LET root == Plan(tables, stmt).root
      found == Rows(mt, root.child)
  IN  CASE stmt.type = "insert" -> InsertRow(mt, root.columns, root.child.values)
        [] stmt.type = "update" -> IF found.ok THEN UpdateRows(mt, found.rows, root.assignments)
                                   ELSE {Threw(mt)}
        [] stmt.type = "delete" -> {IF found.ok THEN Done(DeleteRows(mt, found.rows))
                                    ELSE Threw(mt)}

RunOn(stmt, outcomes) ==
  /\ \E out \in outcomes :
       /\ out.end # "died" /\ out.table.total_rows <= MaxRows
       /\ tables' = [tables EXCEPT ![stmt.table.table_name] = out.table]
  /\ UNCHANGED <<databases, phase>>

ExecuteInsert ==
  /\ phase = "idle"
  /\ \E stmt \in OfType("insert") :
       IsRun(stmt) /\ RunOn(stmt, Outcomes(TableOf(tables, stmt.table), stmt))

ExecuteUpdate ==
  /\ phase = "idle"
  /\ \E stmt \in OfType("update") :
       IsRun(stmt) /\ RunOn(stmt, Outcomes(TableOf(tables, stmt.table), stmt))

(* the loop of update_row in freed memory                                  *)
UpdateDies ==
  /\ phase = "idle"
  /\ \E stmt \in OfType("update") :
       /\ IsRun(stmt)
       /\ \E out \in Outcomes(TableOf(tables, stmt.table), stmt) : out.end = "died"
  /\ phase' = "crashed"
  /\ UNCHANGED <<tables, databases>>

ExecuteDelete ==
  /\ phase = "idle"
  /\ \E stmt \in OfType("delete") :
       IsRun(stmt) /\ RunOn(stmt, Outcomes(TableOf(tables, stmt.table), stmt))

ExecuteCreateTable ==
  /\ phase = "idle"
  /\ \E stmt \in OfType("create_table") :
       /\ IsRun(stmt) /\ ColumnsConvert(stmt.columns)
       /\ tables' = (stmt.table.table_name :> NewTable(stmt.columns)) @@ tables
  /\ UNCHANGED <<databases, phase>>

(* a plain CREATE INDEX makes what the uninitialised is_unique says        *)
ExecuteCreateIndex ==
  /\ phase = "idle"
  /\ \E stmt \in OfType("create_index") :
       /\ IsRun(stmt)
       /\ \E is_unique \in stmt.is_unique :
            RunOn(stmt, {AddIndex(TableOf(tables, stmt.table), Plan(tables, stmt).root, is_unique)})

ExecuteDropIndex ==
  /\ phase = "idle"
  /\ \E stmt \in OfType("drop_index") :
       IsRun(stmt)
         /\ RunOn(stmt, {Done(RemoveIndex(TableOf(tables, stmt.table), stmt.index_name))})

ExecuteCreateDb ==
  /\ phase = "idle"
  /\ \E stmt \in OfType("create_database") :
       IsRun(stmt) /\ databases' = databases \union {stmt.name}
  /\ UNCHANGED <<tables, phase>>

(* lex() never returns                                                     *)
Hang ==
  /\ phase = "idle"
  /\ \E text \in Texts : LexHangs(text)
  /\ phase' = "hung"
  /\ UNCHANGED <<tables, databases>>

(* the planner follows a null pointer                                      *)
Crash ==
  /\ phase = "idle"
  /\ \E stmt \in OfType("create_table") : Valid(tables, databases, stmt) /\ PlanCrashes(stmt)
  /\ phase' = "crashed"
  /\ UNCHANGED <<tables, databases>>

Next ==
  \/ ExecuteInsert \/ ExecuteUpdate \/ UpdateDies \/ ExecuteDelete
  \/ ExecuteCreateTable \/ ExecuteCreateIndex \/ ExecuteDropIndex \/ ExecuteCreateDb
  \/ Hang \/ Crash

Spec == Init /\ [][Next]_vars

-----------------------------------------------------------------------------
(* What a statement is asked to do                                         *)

(* Whether a row satisfies a comparison of a column with a literal: two    *)
(* values, NULL equal to itself and in no order                            *)
Holds(v, op, literal) ==
  CASE op \in {"==", "is"} -> v = literal
    [] op = "!=" -> v # literal
    [] op = "<"  -> v # Null /\ v.n < literal.n
    [] op = "<=" -> v # Null /\ v.n <= literal.n
    [] op = ">"  -> v # Null /\ v.n > literal.n
    [] op = ">=" -> v # Null /\ v.n >= literal.n
Selected(mt, where) ==
  {i \in ToSet(LiveRows(mt)) :
     where = NoExpr \/ Holds(ColumnValue(mt, i, where.left), where.op, LiteralValue(where.right))}

(* The conditions the code evaluates as they read: none; or a column, not  *)
(* AND or OR, compared with a literal of the type of all its values; NULL  *)
(* only for equality; and no < or <= except by an index scan.  No two rows *)
(* have one id (Storage's run storage_rowids is about those that have), and*)
(* no statement that an index refused has left a row without its entry or  *)
(* an entry without its row.                                               *)
IdsDistinct(mt) == \A i, j \in DOMAIN mt.rows : i # j => mt.rows[i].id # mt.rows[j].id
EntriesExact(mt) ==
  \A i \in ToSet(LiveRows(mt)), k \in DOMAIN mt.indexes :
    LET index == mt.indexes[k]
        own == SelectSeq(index.entries, LAMBDA e : e.id = mt.rows[i].id)
        key == mt.rows[i].vals[index.column]
    IN  own = IF key = Null THEN <<>> ELSE <<[key |-> key, id |-> mt.rows[i].id]>>
SameType(mt, where) ==
  \A i \in ToSet(LiveRows(mt)) :
    ColumnValue(mt, i, where.left).type \in {"null", LiteralValue(where.right).type}
Plain(mt, where, byIndex) ==
  /\ IdsDistinct(mt) /\ (byIndex => EntriesExact(mt))
  /\ where # NoExpr =>
       /\ where.left.type = "identifier"
       /\ where.op \in {"<", "<="} => byIndex
       /\ IF where.right.lit = "null" THEN where.op \in {"==", "!=", "is"} ELSE SameType(mt, where)

-----------------------------------------------------------------------------
(* Properties                                                              *)

(* Every row of a table has a value for each of its columns, total_rows    *)
(* bounds the rows, and an index is on a column of its table.              *)
TypeOK ==
  /\ phase \in {"idle", "hung", "crashed"}
  /\ "d" \in databases
  /\ \A name \in DOMAIN tables :
       LET mt == tables[name]
       IN  /\ \A i \in DOMAIN mt.rows :
                /\ mt.rows[i].live \in BOOLEAN
                /\ DOMAIN mt.rows[i].vals = DOMAIN mt.columns
           /\ Len(mt.rows) <= mt.total_rows /\ mt.live_rows \in 0 .. Counter - 1
           /\ \A k \in DOMAIN mt.indexes : mt.indexes[k].column \in DOMAIN mt.columns

(* A SELECT that returns, and that is not streamed, gives every live row   *)
(* that satisfies its condition and no other, once each, whichever scan    *)
(* the planner chose: choose_scan_type, index_scan and the filter agree.   *)
(* Of a column list only the first row of the answer is exact.             *)
SelectExact ==
  \A stmt \in OfType("select") : IsRun(stmt) =>
    LET mt == TableOf(tables, stmt.table)
        plan == Plan(tables, stmt)
        answer == Answer(mt, plan)
        columns == {ColumnIdx(mt, stmt.columns[k]) : k \in DOMAIN stmt.columns}
    IN  (/\ ~plan.needs_stream /\ answer.ok
         /\ Plain(mt, stmt.where, Candidates(mt, stmt.where) # {}))
        => /\ IsInjective(answer.rows)
           /\ ToSet(answer.rows) = Selected(mt, stmt.where)
           /\ stmt.columns = <<>> =>
                \A k \in DOMAIN answer.rows : answer.values[k] = mt.rows[answer.rows[k]].vals
           /\ (stmt.columns # <<>> /\ answer.rows # <<>>) =>
                ToSet(answer.values[1]) = {mt.rows[answer.rows[1]].vals[c] : c \in columns}

(* An UPDATE or DELETE that returns replaces, or removes, exactly the live *)
(* rows that satisfy its condition; a new version differs from the old one *)
(* in the assigned columns only.  This leaves out an UPDATE of several rows*)
(* of a page in which push_back moved the rows under the loop of update_row*)
(* (UpdateEach).  Both kinds of statement find their rows by a sequential  *)
(* scan.                                                                   *)
DmlExact ==
  \A stmt \in OfType("update") \union OfType("delete") : IsRun(stmt) =>
    LET mt == TableOf(tables, stmt.table)
        hit == Selected(mt, stmt.where)
        asgs == IF stmt.type = "update" THEN stmt.assignments ELSE <<>>
        assigned == {ColumnIdx(mt, asgs[k].left.value) : k \in DOMAIN asgs}
    IN  Plain(mt, stmt.where, FALSE) =>
          \A out \in {o \in Outcomes(mt, stmt) : o.end = "done" /\ ~o.moved} :
            LET after == out.table.rows
                added == Len(mt.rows) + 1 .. Len(after)
            IN  /\ \A i \in DOMAIN mt.rows :
                     after[i] = [mt.rows[i] EXCEPT !.live = @ /\ i \notin hit]
                /\ Cardinality(added) = IF stmt.type = "update" THEN Cardinality(hit) ELSE 0
                /\ \A j \in added : \E i \in hit :
                     /\ after[j].live
                     /\ \A c \in DOMAIN mt.columns :
                          IF c \in assigned
                            THEN \E k \in DOMAIN asgs :
                                   after[j].vals[c] = LiteralValue(asgs[k].right)
                            ELSE after[j].vals[c] = mt.rows[i].vals[c]

(* A statement that throws while it runs leaves every row as it was, except*)
(* for an UPDATE that a unique index refuses or that fills a leaf of an    *)
(* index.  An INSERT throws only for a key that a live row has in a unique *)
(* index or that is one too many for a leaf, unless the entries of an      *)
(* earlier INSERT that threw are left behind.                              *)
NoEntryLeft(mt) ==
  \A k \in DOMAIN mt.indexes : \A e \in ToSet(mt.indexes[k].entries) :
    \E i \in DOMAIN mt.rows : mt.rows[i].id = e.id /\ mt.rows[i].vals[mt.indexes[k].column] = e.key
MayOverfill(mt, n) == {k \in DOMAIN mt.indexes : Len(mt.indexes[k].entries) + n > MaxLeafKeys}
RefusedCleanly ==
  \A stmt \in OfType("insert") \union OfType("update") \union OfType("delete") : IsRun(stmt) =>
    LET mt == TableOf(tables, stmt.table)
        unique == {k \in DOMAIN mt.indexes : mt.indexes[k].is_unique}
        Key(k) == MakeRow(mt, stmt.columns, stmt.values)[mt.indexes[k].column]
    IN  \A out \in {o \in Outcomes(mt, stmt) : o.end = "threw"} :
          /\ \/ out.table.rows = mt.rows
             \/ /\ stmt.type = "update"
                /\ unique \union MayOverfill(mt, Len(LiveRows(mt))) # {}
          /\ (stmt.type = "insert" /\ IdsDistinct(mt) /\ NoEntryLeft(mt)) =>
               \/ \E k \in unique, i \in ToSet(LiveRows(mt)) :
                    mt.rows[i].vals[mt.indexes[k].column] = Key(k)
               \/ \E k \in MayOverfill(mt, 1) : Key(k) # Null

(* The parser gives back the statement that was written, with and without  *)
(* its semicolon: lists, operator priorities, optional parts.  A SELECT    *)
(* with a column list is never accepted as it is written: parse_select     *)
(* skips the FROM.                                                         *)
HasColumnList(stmt) == stmt.type = "select" /\ stmt.columns # <<>>
SpelledAreParsed ==
  \A stmt \in Statements : \A text \in Spelled(stmt) :
    IF HasColumnList(stmt) THEN ~Parsed(text).ok
    ELSE Parsed(text).ok /\ Parsed(text).node = stmt
RoundTrip == phase = "idle" => SpelledAreParsed

(* A text that is accepted says what is then executed, up to one word: no  *)
(* more than one token, and a comma before it, is skipped or read as       *)
(* something else.                                                         *)
UpToOneWord(text, exact) ==
  \/ text = exact
  \/ \E i \in DOMAIN text :
       LET rest == RemoveAt(text, i)
       IN  rest = exact \/ (i > 1 /\ text[i - 1] = "," /\ RemoveAt(rest, i - 1) = exact)
  \/ Len(text) = Len(exact) /\ Cardinality({i \in DOMAIN text : text[i] # exact[i]}) = 1
MistypedAreNear ==
  \A text \in Accepted(Mistyped(Statements)) :
    \E exact \in Spelled(Parsed(text).node) : UpToOneWord(text, exact)
AcceptedMeansWritten == phase = "idle" => MistypedAreNear
=============================================================================
