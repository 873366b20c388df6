---------------------------- MODULE FilterMeaning ----------------------------
(***************************************************************************)
(* What a filter means for a row, twice: by its tree, as OData has it, and *)
(* by the SQL text that the compiler makes of it, as DuckDB reads that     *)
(* text.  A value is a tuple that starts with its kind; an operation on    *)
(* values whose outcome is DuckDB's own (a cast, a function, an ordering   *)
(* of strings) is left as a term over its operands.                        *)
(***************************************************************************)
EXTENDS ExpressionCompiler

True  == <<"bool", TRUE>>
False == <<"bool", FALSE>>
Null  == <<"null">>
Text(value)    == <<"text", value>>
Term(op, args) == <<"term", op, args>>

-----------------------------------------------------------------------------
(* Three-valued logic and comparison, the same for both readings.          *)

Logical == {True, False, Null}

And3(v, w) ==
    IF ~({v, w} \subseteq Logical) THEN Term("and", <<v, w>>)
    ELSE IF False \in {v, w} THEN False
    ELSE IF Null \in {v, w} THEN Null ELSE True

Not3(v) ==
    CASE v = True -> False [] v = False -> True [] v = Null -> Null [] OTHER -> Term("not", <<v>>)

Or3(v, w) ==
    IF {v, w} \subseteq Logical THEN Not3(And3(Not3(v), Not3(w))) ELSE Term("or", <<v, w>>)

IsNull(v) == IF v[1] = "term" THEN Term("null", <<v>>) ELSE IF v = Null THEN True ELSE False

Compare(op, v, w) ==
    LET same == IF v = w THEN True ELSE False
        decided == v[1] = w[1] /\ (v[1] = "bool" \/ (v[1] = "text" /\ op \in {"eq", "ne"}))
        less(x, y) == IF x = False /\ y = True THEN True ELSE False
    IN  IF Null \in {v, w} THEN Null
        ELSE IF ~decided THEN Term(op, <<v, w>>)
        ELSE CASE op = "eq" -> same
               [] op = "ne" -> Not3(same)
               [] op = "lt" -> less(v, w)
               [] op = "gt" -> less(w, v)
               [] op = "le" -> Not3(less(w, v))
               [] op = "ge" -> Not3(less(v, w))

-----------------------------------------------------------------------------
(* The tree.                                                               *)

LiteralValue(node) ==
    CASE node.type = "null"    -> Null
      [] node.type = "boolean" -> IF node.value = <<"true">> THEN True ELSE False
      [] node.type = "number"  -> <<"number", node.value>>
      [] node.type = "string"  -> Text(node.value)

\* A string that is an operand beside something of another type is read in that type.
Read(node, value, other, props) ==
    LET type == ResolveLiteralType(other, props) IN
    IF node.kind = "literal" /\ node.type = "string" /\ other.kind # "literal" /\ type \notin StringTypes \cup {""}
    THEN Term("cast", <<value, type>>) ELSE value

SqlNameOf(f) == (CHOOSE e \in FunctionMap : e[1] = f)[2]

IsNullTest(node) == IsNullLit(node.left) \/ IsNullLit(node.right)

RECURSIVE Meaning(_, _, _)
Meaning(node, row, props) ==
    CASE node.kind = "property" -> row[node.name]
      [] node.kind = "literal"  -> LiteralValue(node)
      [] node.kind = "not"      -> Not3(Meaning(node.child, row, props))
      [] node.kind = "call"     ->
            Term(SqlNameOf(node.name), [i \in DOMAIN node.args |-> Meaning(node.args[i], row, props)])
      [] node.kind = "binary"   ->
            LET v == Read(node.left, Meaning(node.left, row, props), node.right, props)
                w == Read(node.right, Meaning(node.right, row, props), node.left, props)
                test == IF IsNullLit(node.left) THEN IsNull(w) ELSE IsNull(v)
            IN  CASE node.op = "and" -> And3(v, w)
                  [] node.op = "or"  -> Or3(v, w)
                  [] node.op = "eq" /\ IsNullTest(node) -> test
                  [] node.op = "ne" /\ IsNullTest(node) -> Not3(test)
                  [] OTHER -> Compare(node.op, v, w)

-----------------------------------------------------------------------------
(* The SQL text, read with DuckDB's precedences: OR, AND, NOT, IS,         *)
(* comparison.                                                             *)

SqlRelations == {"=", "<>", ">", ">=", "<", "<="}
RelationOf(op) == CHOOSE r \in Comparisons : SqlOperator[r] = op

RECURSIVE SqlTokens(_, _, _)
SqlTokens(s, i, tokens) ==
    IF i > Len(s) THEN tokens
    ELSE IF s[i] \in Quotes
         THEN LET e == StringEnd(s, s[i], i + 1, <<>>) IN
              IF e.at = 0 THEN Append(tokens, Token("error", <<>>))
              ELSE SqlTokens(s, e.at + 1, Append(tokens, Token(IF s[i] = "'" THEN "string" ELSE "column", e.value)))
    ELSE SqlTokens(s, i + 1, Append(tokens, Token(s[i], <<s[i]>>)))

\* The positions outside all parentheses at which one of the words stands.
TopLevel(t, words) ==
    LET Count(i, w) == Len(SelectSeq(Before(t, i), LAMBDA x : x.type = w)) IN
    {i \in At(t, words) : Count(i, "(") = Count(i, ")")}

Greatest(S) == CHOOSE i \in S : \A j \in S : j <= i

SyntaxError == Term("error", <<>>)

RECURSIVE SqlOr(_, _), SqlArguments(_, _)

SqlArguments(t, row) ==
    LET commas == TopLevel(t, {","}) IN
    IF t = <<>> THEN <<>>
    ELSE IF commas = {} THEN <<SqlOr(t, row)>>
    ELSE Append(SqlArguments(Before(t, Greatest(commas)), row), SqlOr(After(t, Greatest(commas)), row))

SqlPrimary(t, row) ==
    IF Len(t) = 1
    THEN CASE t[1].type = "column" -> row[t[1].text[1]]
           [] t[1].type = "string" -> Text(t[1].text)
           [] t[1].type = "TRUE"   -> True
           [] t[1].type = "FALSE"  -> False
           [] t[1].type = "NULL"   -> Null
           [] t[1].type = "1"      -> <<"number", t[1].text>>
           [] OTHER                -> SyntaxError
    ELSE IF t = <<>> \/ t[Len(t)].type # ")" THEN SyntaxError
    ELSE IF t[1].type = "(" THEN SqlOr(Inner(t, 2), row)
    ELSE IF t[2].type # "(" THEN SyntaxError
    ELSE IF t[1].type = "CAST" /\ t[4].type = "AS" THEN Term("cast", <<Text(t[3].text), t[5].type>>)
    ELSE Term(t[1].type, SqlArguments(Inner(t, 3), row))

SqlComparison(t, row) ==
    LET ops == TopLevel(t, SqlRelations)
        i == Greatest(ops)
    IN  IF ops = {} THEN SqlPrimary(t, row)
        ELSE IF \E j \in ops : j # i THEN SyntaxError
        ELSE Compare(RelationOf(t[i].type), SqlPrimary(Before(t, i), row), SqlPrimary(After(t, i), row))

SqlIs(t, row) ==
    LET is == TopLevel(t, {"IS"})
        v == SqlComparison(Before(t, Greatest(is)), row)
        test == [i \in 1 .. Len(After(t, Greatest(is))) |-> After(t, Greatest(is))[i].type]
    IN  CASE is = {} -> SqlComparison(t, row)
          [] is # {} /\ test = <<"NULL">> -> IsNull(v)
          [] is # {} /\ test = <<"NOT", "NULL">> -> Not3(IsNull(v))
          [] OTHER -> SyntaxError

RECURSIVE SqlNot(_, _), SqlAnd(_, _)

SqlNot(t, row) == IF t # <<>> /\ t[1].type = "NOT" THEN Not3(SqlNot(Tail(t), row)) ELSE SqlIs(t, row)

SqlAnd(t, row) ==
    LET ands == TopLevel(t, {"AND"})
        i == Greatest(ands)
    IN  IF ands = {} THEN SqlNot(t, row) ELSE And3(SqlAnd(Before(t, i), row), SqlNot(After(t, i), row))

SqlOr(t, row) ==
    LET ors == TopLevel(t, {"OR"})
        i == Greatest(ors)
    IN  IF ors = {} THEN SqlAnd(t, row) ELSE Or3(SqlOr(Before(t, i), row), SqlAnd(After(t, i), row))

SqlMeaning(sql, row) == SqlOr(SqlTokens(sql, 1, <<>>), row)

-----------------------------------------------------------------------------
(* Two kinds of comparison are not compiled to what they mean: one with    *)
(* another comparison as an operand, whose grouping is lost (except the    *)
(* test of a comparison for null), and the test of a literal for null.     *)

IsComparison(node) == node.kind = "binary" /\ node.op \in Comparisons

RECURSIVE Plain(_)
Plain(node) ==
    CASE node.kind = "not"    -> Plain(node.child)
      [] node.kind = "call"   -> \A i \in DOMAIN node.args : Plain(node.args[i])
      [] node.kind = "binary" ->
            LET operands == {node.left, node.right} IN
            /\ \A n \in operands : Plain(n)
            /\ node.op \in Comparisons => \A n \in operands : ~IsComparison(n)
            /\ node.op \in {"eq", "ne"} /\ (\E n \in operands : IsNullLit(n)) =>
                  \E n \in operands : ~IsLiteral(n)
      [] OTHER -> TRUE

RECURSIVE Known(_, _)
\* The tree names only properties of the entity, and functions with a
\* number of arguments that they take.
Known(node, props) ==
    CASE node.kind = "property" -> node.name \in DOMAIN props
      [] node.kind = "literal"  -> TRUE
      [] node.kind = "not"      -> Known(node.child, props)
      [] node.kind = "binary"   -> Known(node.left, props) /\ Known(node.right, props)
      [] node.kind = "call"     ->
            /\ \E e \in FunctionMap : e[1] = node.name /\ e[3] <= Len(node.args) /\ Len(node.args) <= e[4]
            /\ \A i \in DOMAIN node.args : Known(node.args[i], props)
=============================================================================
