----------------------------- MODULE SqlParser -----------------------------
(***************************************************************************)
(* The SQL front end: sql/lexer.cpp, sql/include/dictionary.hpp and the    *)
(* recursive-descent parser of sql/parser.cpp, as operators from a query   *)
(* text to a statement.                                                    *)
(*                                                                         *)
(* A text is a sequence of lexemes (strings): white space, letter case,    *)
(* line numbers and the wording of errors are left out.  The parser's      *)
(* current_ is a position in the tokens; a parsing operator returns the    *)
(* position it leaves and the node it made, or Fail where the code throws. *)
(***************************************************************************)
EXTENDS Naturals, Sequences, SequencesExt

CONSTANTS
  Literals,   \* the literals that occur: lexeme -> [lit, n], its kind and its value
  Strays,     \* characters that begin no token: lex() does not step over them
  Broken      \* lexemes that lex() throws at: an open quote, an unknown operator

-----------------------------------------------------------------------------
(* Lexer                                                                   *)

Keywords ==
  {"add", "alter", "autoincrement", "bool", "char", "column", "create", "database",
   "delete", "drop", "from", "index", "insert", "integer", "into", "is", "key", "not",
   "null", "on", "primary", "real", "schema", "select", "set", "string", "table",
   "unique", "update", "values", "where"}
DataTypes == {"string", "integer", "real", "char", "bool", "null"}
Constraints == {"primary", "unique", "not", "null", "autoincrement"}
Symbols == {"(", ")", ",", ".", ";"}
Operators ==
  {"==", "!=", ">", ">=", "<", "<=", "is", "and", "or", "not", "+", "-", "*", "/", "="}

Token(type, detail, value) == [type |-> type, detail |-> <<type, detail>>, value |-> value]

(* a word is looked up as a keyword before it is as an operator: `is` and  *)
(* `not` are keywords                                                      *)
TokenOf(w) ==
  CASE w \in Keywords         -> Token("keyword", w, w)
    [] w \in Operators \ Keywords -> Token("operator", w, w)
    [] w \in DOMAIN Literals  -> Token("literal", Literals[w].lit, w)
    [] w \in Symbols          -> Token("symbol", w, w)
    [] OTHER                  -> Token("identifier", "", w)

(* lex goes from left to right; at a stray character its loop never ends   *)
FirstBad(text) ==
  LET bad == {i \in DOMAIN text : text[i] \in Strays \union Broken}
  IN  IF bad = {} THEN "none" ELSE text[CHOOSE i \in bad : \A j \in bad : i <= j]
LexHangs(text) == FirstBad(text) \in Strays
LexThrows(text) == FirstBad(text) \in Broken
Lex(text) == [i \in DOMAIN text |-> TokenOf(text[i])]

-----------------------------------------------------------------------------
(* The parser's position                                                   *)

KW(d) == <<"keyword", d>>
OP(d) == <<"operator", d>>
SY(d) == <<"symbol", d>>

Fail == [ok |-> FALSE]
Ok(at, node) == [ok |-> TRUE, at |-> at, node |-> node]
Then(r, Continue(_)) == IF r.ok THEN Continue(r) ELSE Fail

(* match, advance and advance_or_throw: the position never passes the last *)
(* token                                                                   *)
Match(t, i, detail) == i <= Len(t) /\ t[i].detail = detail
MatchType(t, i, type) == i <= Len(t) /\ t[i].type = type
CanAdvance(t, i) == i < Len(t)
Advance(t, i) == IF CanAdvance(t, i) THEN i + 1 ELSE i

(* the tokens after position i are of these details, and there are as many;*)
(* i moves with advance_or_throw and match_or_throw                        *)
Expect(t, i, details) ==
  \A k \in DOMAIN details : Match(t, i + k, details[k])

(* parse_table_identifier                                                  *)
NoSchema == "(default)"
TableIdentifier(t, i) ==
  IF ~MatchType(t, i, "identifier") THEN Fail
  ELSE LET j == Advance(t, i)
       IN  IF ~Match(t, j, SY("."))
             THEN Ok(j, [table_name |-> t[i].value, schema_name |-> NoSchema])
           ELSE IF ~MatchType(t, j + 1, "identifier") THEN Fail
           ELSE Ok(Advance(t, j + 1),
                   [table_name |-> t[j + 1].value, schema_name |-> t[i].value])

-----------------------------------------------------------------------------
(* Expressions                                                             *)

NoExpr == [type |-> "none"]
Leaf(token) ==
  [type |-> token.type, value |-> token.value, lit |-> token.detail[2]]
NullLeaf == [type |-> "literal", value |-> "null", lit |-> "null"]
Binary(op, left, right) == [type |-> "binary", op |-> op, left |-> left, right |-> right]

(* ast_operators_priorities, and to_ast_operator's domain                  *)
AstOperators == {"or", "and", "not", "==", "!=", ">", ">=", "<", "<=", "is", "="}
Priority(op) == CASE op = "or" -> 1 [] op = "and" -> 2 [] op = "not" -> 3 [] OTHER -> 4

RECURSIVE ParseBinaryTree(_, _, _), Climb(_, _, _, _), ParsePrimary(_, _)

(* parse_binary_expr: a lone identifier or literal is not a condition      *)
ParseBinaryExpr(t, i) ==
  LET tree == ParseBinaryTree(t, i, 0)
  IN  IF tree.ok /\ tree.node.type = "binary" THEN tree ELSE Fail

(* after a closing parenthesis the position stays on it                    *)
ParsePrimary(t, i) ==
  CASE Match(t, i, SY("(")) ->
         Then(ParseBinaryExpr(t, Advance(t, i)),
              LAMBDA r : IF Match(t, r.at, SY(")")) THEN r ELSE Fail)
    [] Match(t, i, OP("not")) ->
         Then(ParsePrimary(t, Advance(t, i)),
              LAMBDA r : Ok(r.at, Binary("not", NoExpr, r.node)))
    [] Match(t, i, KW("null")) -> Ok(Advance(t, i), NullLeaf)
    [] MatchType(t, i, "literal") \/ MatchType(t, i, "identifier") ->
         Ok(Advance(t, i), Leaf(t[i]))
    [] OTHER -> Fail

(* the operator at position i, if parse_binary_tree takes it               *)
OperatorAt(t, i) ==
  IF t[i].type = "operator" /\ t[i].value \in AstOperators THEN t[i].value
  ELSE IF Match(t, i, KW("is")) THEN "is" ELSE "none"

(* the loop of parse_binary_tree; `is not` is the operator !=              *)
(* (a mutant: operands of equal priority associate to the right)           *)
ClimbRight(t, i, left, min) ==
  LET op == OperatorAt(t, i)
  IN  IF op = "none" \/ Priority(op) < min THEN Ok(i, left)
      ELSE LET isNot == op = "is" /\ Match(t, Advance(t, i), KW("not"))
               j == IF isNot THEN Advance(t, Advance(t, i)) ELSE Advance(t, i)
           IN  Then(ParseBinaryTree(t, j, Priority(op)),
                    LAMBDA right : Climb(t, right.at,
                      Binary(IF isNot THEN "!=" ELSE op, left, right.node), min))
Climb(t, i, left, min) ==
  LET op == OperatorAt(t, i)
  IN  IF op = "none" \/ Priority(op) < min THEN Ok(i, left)
      ELSE LET isNot == op = "is" /\ Match(t, Advance(t, i), KW("not"))
               j == IF isNot THEN Advance(t, Advance(t, i)) ELSE Advance(t, i)
           IN  Then(ParseBinaryTree(t, j, Priority(op) + 1),
                    LAMBDA right : Climb(t, right.at,
                      Binary(IF isNot THEN "!=" ELSE op, left, right.node), min))

ParseBinaryTree(t, i, min) ==
  Then(ParsePrimary(t, i), LAMBDA left : Climb(t, left.at, left.node, min))

(* an optional WHERE, added to the statement before it                     *)
ParseWhere(t, i, stmt) ==
  IF Match(t, i, KW("where"))
    THEN Then(ParseBinaryExpr(t, Advance(t, i)),
              LAMBDA r : Ok(r.at, [stmt EXCEPT !.where = r.node]))
    ELSE Ok(i, stmt)

-----------------------------------------------------------------------------
(* Lists                                                                   *)

RECURSIVE SelectColumns(_, _, _), ListOf(_, _, _, _, _), Assignments(_, _, _),
          ColumnDefs(_, _, _), ConstraintsOf(_, _, _)

(* the columns of a SELECT: the loop leaves the position on the token after*)
(* the last column, and parse_select then skips that token                 *)
SelectColumns(t, i, columns) ==
  IF ~CanAdvance(t, i) THEN Fail
  ELSE LET j == i + 1
       IN  IF ~MatchType(t, j, "identifier") THEN Ok(j, columns)
           ELSE LET more == Append(columns, t[j].value)
                IN  IF Match(t, j + 1, SY(",")) THEN SelectColumns(t, j + 1, more)
                    ELSE Ok(Advance(t, j), more)

(* the columns and the values of an INSERT: the position is left on the    *)
(* last element (before it, when the text ends there); a token of another  *)
(* type ends the columns, and is an error among the values                 *)
ListOf(t, i, type, strict, elements) ==
  IF ~CanAdvance(t, i) THEN Fail
  ELSE LET j == i + 1
           more == Append(elements, t[j].value)
       IN  IF ~MatchType(t, j, type) THEN IF strict THEN Fail ELSE Ok(j, elements)
           ELSE IF ~CanAdvance(t, j) THEN Ok(j - 1, more)
           ELSE IF Match(t, j + 1, SY(",")) THEN ListOf(t, j + 1, type, strict, more)
           ELSE Ok(j, more)

(* the assignments of an UPDATE: expressions of the operator =             *)
Assignments(t, i, done) ==
  IF ~CanAdvance(t, i) THEN Fail
  ELSE Then(ParseBinaryExpr(t, i + 1),
            LAMBDA r : IF r.node.op # "=" THEN Fail
                       ELSE IF Match(t, r.at, SY(","))
                         THEN Assignments(t, r.at, Append(done, r.node))
                         ELSE Ok(r.at, Append(done, r.node)))

EndsColumn(t, i) == Match(t, i, SY(",")) \/ Match(t, i, SY(")"))

(* the constraints of a column: one token is skipped unseen, and each of   *)
(* the others has to be a constraint and a data type at once               *)
ConstraintsOf(t, i, def) ==
  IF EndsColumn(t, i) THEN Ok(i, def)
  ELSE IF /\ MatchType(t, i, "keyword") /\ t[i].value \in Constraints \intersect DataTypes
          /\ CanAdvance(t, i)
    THEN ConstraintsOf(t, i + 1, [def EXCEPT !.constraints = Append(@, t[i].value)])
    ELSE Fail

ParseColumnDef(t, i) ==
  IF ~MatchType(t, i, "identifier") \/ Len(t) < i + 2 THEN Fail
  ELSE LET def == [name |-> t[i].value, type |-> t[i + 1].value, constraints |-> <<>>]
       IN  IF EndsColumn(t, i + 2) THEN Ok(i + 2, def)
           ELSE IF ~CanAdvance(t, i + 2) THEN Fail
           ELSE ConstraintsOf(t, i + 3, def)

ColumnDefs(t, i, defs) ==
  Then(ParseColumnDef(t, i),
       LAMBDA r : IF Match(t, r.at, SY(")"))
                    THEN Ok(Advance(t, r.at), Append(defs, r.node))
                    ELSE ColumnDefs(t, Advance(t, r.at), Append(defs, r.node)))

-----------------------------------------------------------------------------
(* Statements; the position i is that of the statement's last keyword      *)

Select(table, columns, where) ==
  [type |-> "select", table |-> table, columns |-> columns, where |-> where]
ParseSelect(t, i) ==
  Then(SelectColumns(t, i, <<>>), LAMBDA c :
    IF ~Expect(t, c.at, <<KW("from")>>) THEN Fail
    ELSE Then(TableIdentifier(t, c.at + 2),
              LAMBDA r : ParseWhere(t, r.at, Select(r.node, c.node, NoExpr))))

Insert(table, columns, values) ==
  [type |-> "insert", table |-> table, columns |-> columns, values |-> values]
ParseInsert(t, i) ==
  IF ~Expect(t, i, <<KW("into")>>) THEN Fail
  ELSE Then(TableIdentifier(t, i + 2), LAMBDA r :
    IF ~Match(t, r.at, SY("(")) THEN Fail
    ELSE Then(ListOf(t, r.at, "identifier", FALSE, <<>>), LAMBDA c :
      IF ~Expect(t, c.at, <<SY(")"), KW("values"), SY("(")>>) THEN Fail
      ELSE Then(ListOf(t, c.at + 3, "literal", TRUE, <<>>), LAMBDA v :
        IF ~Expect(t, v.at, <<SY(")")>>) THEN Fail
        ELSE Ok(v.at + 1, Insert(r.node, c.node, v.node)))))

Update(table, assignments, where) ==
  [type |-> "update", table |-> table, assignments |-> assignments, where |-> where]
ParseUpdate(t, i) ==
  Then(TableIdentifier(t, i + 1), LAMBDA r :
    IF ~Match(t, r.at, KW("set")) THEN Fail
    ELSE Then(Assignments(t, r.at, <<>>),
              LAMBDA a : ParseWhere(t, a.at, Update(r.node, a.node, NoExpr))))

Delete(table, where) == [type |-> "delete", table |-> table, where |-> where]
ParseDelete(t, i) ==
  IF ~Expect(t, i, <<KW("from")>>) THEN Fail
  ELSE Then(TableIdentifier(t, i + 2),
            LAMBDA r : ParseWhere(t, r.at, Delete(r.node, NoExpr)))

(* the columns of a CREATE TABLE may be left out                           *)
CreateTable(table, columns) ==
  [type |-> "create_table", table |-> table, columns |-> columns]
ParseCreateTable(t, i) ==
  Then(TableIdentifier(t, i + 1), LAMBDA r :
    IF ~Match(t, r.at, SY("(")) THEN Ok(r.at, CreateTable(r.node, <<>>))
    ELSE Then(ColumnDefs(t, r.at + 1, <<>>), LAMBDA c : Ok(c.at, CreateTable(r.node, c.node))))

(* CREATE DATABASE and CREATE SCHEMA take any token as the name            *)
CreateNamed(type, name) == [type |-> type, name |-> name]
ParseNamed(t, i, type) ==
  IF CanAdvance(t, i) THEN Ok(i + 1, CreateNamed(type, t[i + 1].value)) ELSE Fail

(* is_unique is written only when the word UNIQUE is there: otherwise the  *)
(* member of the statement is uninitialised                                *)
CreateIndex(name, table, column, is_unique) ==
  [type |-> "create_index", index_name |-> name, table |-> table,
   column_name |-> column, is_unique |-> is_unique]
ParseCreateIndex(t, i) ==
  LET unique == Match(t, i, KW("unique"))
      k == IF unique THEN i + 1 ELSE i
  IN  IF ~(Match(t, k, KW("index")) /\ MatchType(t, k + 1, "identifier")
           /\ Match(t, k + 2, KW("on"))) THEN Fail
      ELSE Then(TableIdentifier(t, k + 3), LAMBDA r :
        IF ~(/\ Match(t, r.at, SY("(")) /\ MatchType(t, r.at + 1, "identifier")
             /\ Match(t, r.at + 2, SY(")"))) THEN Fail
        ELSE Ok(r.at + 2, CreateIndex(t[k + 1].value, r.node, t[r.at + 1].value,
                                      IF unique THEN {TRUE} ELSE BOOLEAN)))

DropIndex(name, table) == [type |-> "drop_index", index_name |-> name, table |-> table]
ParseDropIndex(t, i) ==
  IF ~(MatchType(t, i + 1, "identifier") /\ Match(t, i + 2, KW("on"))) THEN Fail
  ELSE Then(TableIdentifier(t, i + 3), LAMBDA r : Ok(r.at, DropIndex(t[i + 1].value, r.node)))

(* parse_alter_table returns for no text: its loop is left when current()  *)
(* is null, and advance never moves past the last token                    *)
ParseAlterTable(t, i) == Fail

(* is_trailing_sequence_valid: nothing, or one semicolon                   *)
TrailingValid(t, i) == i > Len(t) \/ (Match(t, i, SY(";")) /\ i = Len(t))

ParseStatement(t) ==
  CASE Match(t, 1, KW("select")) -> ParseSelect(t, 1)
    [] Match(t, 1, KW("insert")) -> ParseInsert(t, 1)
    [] Match(t, 1, KW("update")) -> ParseUpdate(t, 1)
    [] Match(t, 1, KW("delete")) -> ParseDelete(t, 1)
    [] Expect(t, 0, <<KW("create"), KW("table")>>) -> ParseCreateTable(t, 2)
    [] Expect(t, 0, <<KW("create"), KW("database")>>) -> ParseNamed(t, 2, "create_database")
    [] Expect(t, 0, <<KW("create"), KW("schema")>>) -> ParseNamed(t, 2, "create_schema")
    [] Expect(t, 0, <<KW("create"), KW("index")>>) -> ParseCreateIndex(t, 2)
    [] Expect(t, 0, <<KW("create"), KW("unique")>>) -> ParseCreateIndex(t, 2)
    [] Expect(t, 0, <<KW("drop"), KW("index")>>) -> ParseDropIndex(t, 2)
    [] Expect(t, 0, <<KW("alter"), KW("table")>>) -> ParseAlterTable(t, 2)
    [] OTHER -> Fail

(* parse: the statement has to end at the current token or at the next one *)
(* (a mutant: what follows the statement is not looked at)                 *)
ParseAnyRest(t) == ParseStatement(t)
Parse(t) ==
  Then(ParseStatement(t),
       LAMBDA r : IF TrailingValid(t, r.at) \/ TrailingValid(t, r.at + 1) THEN r ELSE Fail)
=============================================================================
