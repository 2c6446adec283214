------------------------------ MODULE MCQuery ------------------------------
(* Instances of Query for TLC: one table of an integer and a real column   *)
EXTENDS Query

MCLiterals ==
  "1" :> [lit |-> "integer", n |-> 1] @@ "2" :> [lit |-> "integer", n |-> 2]
    @@ "9" :> [lit |-> "integer", n |-> 9] @@ "1.5" :> [lit |-> "real", n |-> 1]

T == [table_name |-> "t", schema_name |-> NoSchema]
Qualified == [table_name |-> "t", schema_name |-> "common"]
Elsewhere == [table_name |-> "t", schema_name |-> "s"]
Col(name) == Leaf(TokenOf(name))
Lit(value) == Leaf(TokenOf(value))
Cmp(column, op, value) == Binary(op, Col(column), Lit(value))
ColumnDef(name, type) == [name |-> name, type |-> type, constraints |-> <<>>]

MCConditions ==
  {NoExpr, Cmp("a", "==", "1"), Cmp("a", "==", "9"), Cmp("a", "<", "2"), Cmp("a", ">", "1"),
   Cmp("b", ">=", "1.5"), Binary("is", Col("b"), NullLeaf), Binary("!=", Col("a"), NullLeaf)}
MCSelects ==
  {Select(T, <<>>, where) : where \in MCConditions}
    \union {Select(T, <<"b", "a">>, NoExpr),
            Select(Qualified, <<>>, Binary("or", Binary("or", Cmp("a", "==", "1"), Cmp("b", ">", "1")),
                                         Binary("and", Cmp("a", "==", "2"), Cmp("a", "!=", "9"))))}
MCChanges ==
  {Insert(T, <<"a", "b">>, <<"1", "1.5">>), Insert(Qualified, <<"a">>, <<"2">>),
   Insert(T, <<"a">>, <<"9">>), Update(T, <<Cmp("a", "=", "1")>>, Cmp("a", "==", "2")),
   Update(T, <<Cmp("a", "=", "2"), Cmp("b", "=", "1")>>, NoExpr),
   Delete(T, NoExpr), Delete(T, Cmp("a", "==", "1")), Delete(T, Cmp("b", "<=", "1.5"))}
MCDefinitions ==
  {CreateTable(T, <<ColumnDef("a", "integer"), ColumnDef("b", "real")>>),
   CreateTable(Elsewhere, <<>>), CreateNamed("create_database", "e"),
   CreateNamed("create_schema", "s"), DropIndex("i", T),
   CreateIndex("i", T, "a", BOOLEAN), CreateIndex("j", T, "b", {TRUE})}
MCStatements == MCSelects \union MCChanges \union MCDefinitions
MCWords == {"a", "x", "9", "1.5", ",", ")", "from", "null", "where", "=", "?", "'"}
MCCareless == {Select(T, <<"b", "a">>, NoExpr), Delete(T, NoExpr)}
=============================================================================
