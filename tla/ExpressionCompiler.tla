-------------------------- MODULE ExpressionCompiler --------------------------
(***************************************************************************)
(* ExpressionCompiler: a filter's tree becomes the text of a SQL           *)
(* expression.  As in FilterParser a text is a sequence of symbols; quotes *)
(* are symbols of their own, so that quoting is modelled by what it does.  *)
(* props gives the DuckDB type of every property of the entity.            *)
(***************************************************************************)
EXTENDS FilterParser

StringTypes == {"VARCHAR", "TEXT", "STRING", "CHAR", "BPCHAR", "UUID", "BLOB", "JSON", "BIT", "BITSTRING"}

\* Types for which the entity model has no EDM type.
UnsupportedTypes == {"JSON", "INTERVAL", "STRUCT", "MAP", "UNION", "LIST", "GEOMETRY"}

\* What the compiler returns: SQL text, or an ODataParseException.
Sql(text) == [ok |-> TRUE, text |-> text]
Rejected  == [ok |-> FALSE, text |-> <<>>]

\* OData name, DuckDB name, and the numbers of arguments allowed.
FunctionMap ==
    {<<"contains", "contains", 2, 2>>, <<"startswith", "starts_with", 2, 2>>,
     <<"endswith", "ends_with", 2, 2>>, <<"tolower", "lower", 1, 1>>,
     <<"toupper", "upper", 1, 1>>, <<"length", "length", 1, 1>>,
     <<"substring", "substring", 2, 3>>, <<"concat", "concat", 2, 2>>,
     <<"indexof", "strpos", 2, 2>>, <<"trim", "trim", 1, 1>>,
     <<"year", "year", 1, 1>>, <<"month", "month", 1, 1>>, <<"day", "day", 1, 1>>,
     <<"hour", "hour", 1, 1>>, <<"minute", "minute", 1, 1>>, <<"second", "second", 1, 1>>,
     <<"now", "now", 0, 0>>, <<"round", "round", 2, 2>>, <<"floor", "floor", 1, 1>>,
     <<"ceiling", "ceil", 1, 1>>, <<"abs", "abs", 1, 1>>}

NumberFunctions == {"year", "month", "day", "hour", "minute", "second", "length", "indexof"}
StringFunctions == {"tolower", "toupper", "trim", "substring", "concat"}

IsLiteral(node) == node.kind = "literal"
IsNullLit(node) == IsLiteral(node) /\ node.type = "null"

\* The type a string literal takes from the other operand; "" if none.
ResolveLiteralType(node, props) ==
    CASE node.kind = "property" /\ node.name \in DOMAIN props ->
            IF props[node.name] \in UnsupportedTypes THEN "" ELSE props[node.name]
      [] node.kind = "call" /\ node.name \in NumberFunctions  -> "BIGINT"
      [] node.kind = "call" /\ node.name \in StringFunctions  -> "VARCHAR"
      [] node.kind = "call" /\ node.name \notin NumberFunctions \cup StringFunctions -> "BOOLEAN"
      [] OTHER -> ""

CompileLiteral(node, type) ==
    CASE node.type = "null"    -> Sql(<<"NULL">>)
      [] node.type = "boolean" -> Sql(<<IF node.value = <<"true">> THEN "TRUE" ELSE "FALSE">>)
      [] node.type = "number"  -> Sql(node.value)
      [] node.type = "string"  ->
            LET quoted == QuoteStringLiteral(node.value) IN
            IF type = "" \/ type \in StringTypes THEN Sql(quoted)
            ELSE Sql(<<"CAST", "(">> \o quoted \o <<"AS", type, ")">>)

ResolveProperty(name, props) ==
    IF name \in DOMAIN props THEN Sql(QuoteIdentifier(name)) ELSE Rejected

SqlOperator ==
    [eq |-> "=", ne |-> "<>", gt |-> ">", ge |-> ">=", lt |-> "<", le |-> "<=", and |-> "AND", or |-> "OR"]

RECURSIVE Compile(_, _)

\* An operand of a binary operator: a literal takes its type from the other
\* operand unless that is a literal as well.
Operand(node, other, props) ==
    IF IsLiteral(node) THEN CompileLiteral(node, ResolveLiteralType(other, props))
    ELSE Compile(node, props)

\* Mutant of CompileBinary: AND and OR are not parenthesised.
CompileBinaryBare(node, props) ==
    LET l == Operand(node.left, node.right, props)
        r == Operand(node.right, node.left, props)
    IN  IF l.ok /\ r.ok THEN Sql(l.text \o <<SqlOperator[node.op]>> \o r.text) ELSE Rejected

CompileBinary(node, props) ==
    LET l == Operand(node.left, node.right, props)
        r == Operand(node.right, node.left, props)
        text == l.text \o <<SqlOperator[node.op]>> \o r.text
        NullTest(operand) == Sql(operand.text \o IF node.op = "eq" THEN <<"IS", "NULL">> ELSE <<"IS", "NOT", "NULL">>)
    IN  IF ~(l.ok /\ r.ok) THEN Rejected
        ELSE IF node.op \in {"eq", "ne"} /\ IsNullLit(node.left) /\ ~IsLiteral(node.right) THEN NullTest(r)
        ELSE IF node.op \in {"eq", "ne"} /\ IsNullLit(node.right) /\ ~IsLiteral(node.left) THEN NullTest(l)
        ELSE IF node.op \in {"and", "or"} THEN Sql(<<"(">> \o text \o <<")">>)
        ELSE Sql(text)

CompileUnary(node, props) ==
    LET c == Compile(node.child, props) IN
    IF c.ok THEN Sql(<<"(", "NOT">> \o c.text \o <<")">>) ELSE Rejected

\* The arguments, separated by commas.
RECURSIVE CompileArguments(_, _)
CompileArguments(args, props) ==
    IF args = <<>> THEN Sql(<<>>)
    ELSE LET first == Compile(Head(args), props)
             rest  == CompileArguments(Tail(args), props)
         IN  CASE ~(first.ok /\ rest.ok) -> Rejected
               [] OTHER -> Sql(first.text \o (IF Len(args) > 1 THEN <<",">> ELSE <<>>) \o rest.text)

CompileFunction(node, props) ==
    LET args == CompileArguments(node.args, props)
        entries == {e \in FunctionMap : e[1] = node.name /\ Len(node.args) \in e[3] .. e[4]}
    IN  IF entries = {} \/ ~args.ok THEN Rejected
        ELSE Sql(<<(CHOOSE e \in entries : TRUE)[2], "(">> \o args.text \o <<")">>)

Compile(node, props) ==
    CASE node.kind = "property" -> ResolveProperty(node.name, props)
      [] node.kind = "literal"  -> CompileLiteral(node, "")
      [] node.kind = "not"      -> CompileUnary(node, props)
      [] node.kind = "binary"   -> CompileBinary(node, props)
      [] node.kind = "call"     -> CompileFunction(node, props)
=============================================================================
