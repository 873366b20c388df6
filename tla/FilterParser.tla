----------------------------- MODULE FilterParser -----------------------------
(***************************************************************************)
(* The text of a $filter: the depth guard, the lexer and the recursive-    *)
(* descent parser.  A text is a sequence of symbols.  Quotes, parentheses  *)
(* and the comma are symbols of one character; an identifier, a keyword or *)
(* a number, which the lexer takes in one piece, is one symbol too, and    *)
(* blanks between words are left out.                                      *)
(***************************************************************************)
EXTENDS StringUtil

Quotes == {"'", "\""}

MaxOf(m, n) == IF m > n THEN m ELSE n

-----------------------------------------------------------------------------
(* FilterWithinDepth: the guard that runs on the raw text.                 *)

RECURSIVE Guard(_, _, _, _, _)

\* Mutant of Guard: parentheses inside string literals count.
RECURSIVE GuardQuoted(_, _, _, _, _)
GuardQuoted(s, i, depth, quote, max) ==
    IF i > Len(s) THEN TRUE
    ELSE IF s[i] = "(" THEN depth < max /\ GuardQuoted(s, i + 1, depth + 1, quote, max)
    ELSE GuardQuoted(s, i + 1, IF s[i] = ")" /\ depth > 0 THEN depth - 1 ELSE depth, quote, max)

\* The loop from position i on.  A quote that another quote follows does not
\* toggle: of a doubled quote only the second one does.
Guard(s, i, depth, quote, max) ==
    IF i > Len(s) THEN TRUE
    ELSE IF s[i] = "'" /\ (i = Len(s) \/ s[i + 1] # "'")
         THEN Guard(s, i + 1, depth, ~quote, max)
    ELSE IF ~quote /\ s[i] = "("
         THEN depth < max /\ Guard(s, i + 1, depth + 1, quote, max)
    ELSE Guard(s, i + 1, IF ~quote /\ s[i] = ")" /\ depth > 0 THEN depth - 1 ELSE depth, quote, max)

FilterWithinDepth(s, max) == max < 0 \/ Guard(s, 1, 0, FALSE, max)

-----------------------------------------------------------------------------
(* Tokenize.                                                               *)

Comparisons == {"eq", "ne", "gt", "ge", "lt", "le"}
Keywords    == Comparisons \cup {"and", "or", "not", "null"}
Punctuation == {"(", ")", ","}
Booleans    == {"true", "false"}
Literals    == {"string", "number", "boolean", "null"}

\* Keywords and punctuation are their own token types.
KeywordType(w) ==
    IF w \in Keywords \cup Punctuation THEN w
    ELSE IF w \in Booleans THEN "boolean"
    ELSE IF w = "1" THEN "number"
    ELSE "identifier"

Token(type, text) == [type |-> type, text |-> text]

\* The closing quote of a string opened by q, searched from j on: its
\* position and the value in between, a doubled quote being one; 0 if none.
RECURSIVE StringEnd(_, _, _, _)
StringEnd(s, q, j, value) ==
    IF j > Len(s) THEN [at |-> 0, value |-> value]
    ELSE IF s[j] # q THEN StringEnd(s, q, j + 1, Append(value, s[j]))
    ELSE IF j < Len(s) /\ s[j + 1] = q THEN StringEnd(s, q, j + 2, Append(value, q))
    ELSE [at |-> j, value |-> value]

\* "@" stands for the characters no token starts with.
RECURSIVE Scan(_, _, _)
Scan(s, i, tokens) ==
    IF i > Len(s) THEN [ok |-> TRUE, tokens |-> Append(tokens, Token("end", <<>>))]
    ELSE IF s[i] \in Quotes
         THEN LET e == StringEnd(s, s[i], i + 1, <<>>) IN
              IF e.at = 0 THEN [ok |-> FALSE, tokens |-> tokens]
              ELSE Scan(s, e.at + 1, Append(tokens, Token("string", e.value)))
    ELSE IF s[i] = "@" THEN [ok |-> FALSE, tokens |-> tokens]
    ELSE Scan(s, i + 1, Append(tokens, Token(KeywordType(s[i]), <<s[i]>>)))

Tokenize(s) == Scan(s, 1, <<>>)

-----------------------------------------------------------------------------
(* FilterParser.  A result has the node, the position of the next token,   *)
(* and the number of parentheses the parser was inside of at the deepest   *)
(* point; a failed one has the position of the token in error.             *)

Property(name)     == [kind |-> "property", name |-> name]
Literal(token)     == [kind |-> "literal", type |-> token.type, value |-> token.text]
Negation(child)    == [kind |-> "not", child |-> child]
Binary(op, l, r)   == [kind |-> "binary", op |-> op, left |-> l, right |-> r]
Call(name, args)   == [kind |-> "call", name |-> name, args |-> args]

Parsed(node, pos, depth) == [ok |-> TRUE, node |-> node, pos |-> pos, depth |-> depth]
Failed(pos)              == [ok |-> FALSE, pos |-> pos]

Join(op, l, r) ==
    IF r.ok THEN Parsed(Binary(op, l.node, r.node), r.pos, MaxOf(l.depth, r.depth)) ELSE r

RECURSIVE ParseOr(_, _), ParseAnd(_, _), ParseNot(_, _), ParsePrimary(_, _),
          OrRest(_, _), AndRest(_, _), Arguments(_, _, _, _, _)

OrRest(t, l) ==
    IF l.ok /\ t[l.pos].type = "or" THEN OrRest(t, Join("or", l, ParseAnd(t, l.pos + 1))) ELSE l

ParseOr(t, p) == OrRest(t, ParseAnd(t, p))

AndRest(t, l) ==
    IF l.ok /\ t[l.pos].type = "and" THEN AndRest(t, Join("and", l, ParseNot(t, l.pos + 1))) ELSE l

\* Mutant of ParseAnd: 'and' binds no tighter than 'or'.
ParseAndLoose(t, p) == OrRest(t, AndRest(t, ParseNot(t, p)))

ParseAnd(t, p) == AndRest(t, ParseNot(t, p))

ParseComparison(t, p) ==
    LET l == ParsePrimary(t, p) IN
    IF l.ok /\ t[l.pos].type \in Comparisons
    THEN Join(t[l.pos].type, l, ParsePrimary(t, l.pos + 1))
    ELSE l

ParseNot(t, p) ==
    IF t[p].type = "not"
    THEN LET c == ParseNot(t, p + 1) IN IF c.ok THEN [c EXCEPT !.node = Negation(@)] ELSE c
    ELSE ParseComparison(t, p)

\* The arguments of a call after its first ones, up to the closing parenthesis.
Arguments(t, name, args, p, depth) ==
    LET a == ParseOr(t, p)
        all == Append(args, a.node)
        d == MaxOf(depth, a.depth)
    IN  IF ~a.ok THEN a
        ELSE CASE t[a.pos].type = ")" -> Parsed(Call(name, all), a.pos + 1, d + 1)
               [] t[a.pos].type = "," -> Arguments(t, name, all, a.pos + 1, d)
               [] OTHER               -> Failed(a.pos)

ParsePrimary(t, p) ==
    CASE t[p].type = "(" ->
            LET e == ParseOr(t, p + 1) IN
            IF ~e.ok THEN e
            ELSE IF t[e.pos].type = ")" THEN Parsed(e.node, e.pos + 1, e.depth + 1)
            ELSE Failed(e.pos)
      [] t[p].type \in Literals -> Parsed(Literal(t[p]), p + 1, 0)
      [] t[p].type = "identifier" ->
            IF t[p + 1].type # "(" THEN Parsed(Property(t[p].text[1]), p + 1, 0)
            ELSE IF t[p + 2].type = ")" THEN Parsed(Call(t[p].text[1], <<>>), p + 3, 1)
            ELSE Arguments(t, t[p].text[1], <<>>, p + 2, 0)
      [] OTHER -> Failed(p)

\* The whole filter is one expression; an empty one is an error as well.
Parse(t) ==
    LET e == ParseOr(t, 1) IN
    IF e.ok /\ t[e.pos].type # "end" THEN Failed(e.pos) ELSE e

ParseFilter(s) ==
    LET l == Tokenize(s) IN IF l.ok THEN Parse(l.tokens) ELSE Failed(0)

-----------------------------------------------------------------------------
(* The grammar of the comment that heads odata_parser.cpp, read as rules   *)
(* for splitting a sequence of tokens: the set of trees that each rule     *)
(* derives from it.  The reference for the parser.                         *)

\* The positions of the tokens of the given types.
At(s, types) == {i \in DOMAIN s : s[i].type \in types}

RECURSIVE OrTrees(_), AndTrees(_), NotTrees(_), PrimaryTrees(_), ArgumentTrees(_)

ArgumentTrees(s) ==
    {<<a>> : a \in OrTrees(s)}
    \cup UNION {{<<a>> \o rest : a \in OrTrees(Before(s, i)), rest \in ArgumentTrees(After(s, i))} :
                   i \in At(s, {","})}

PrimaryTrees(s) ==
    LET ends == s # <<>> /\ s[Len(s)].type = ")" IN
    CASE Len(s) = 1 /\ s[1].type \in Literals       -> {Literal(s[1])}
      [] Len(s) = 1 /\ s[1].type = "identifier"     -> {Property(s[1].text[1])}
      [] ends /\ s[1].type = "("                    -> OrTrees(Inner(s, 2))
      [] ends /\ Len(s) > 2 /\ s[1].type = "identifier" /\ s[2].type = "(" ->
            {Call(s[1].text[1], args) :
                args \in IF Len(s) = 3 THEN {<<>>} ELSE ArgumentTrees(Inner(s, 3))}
      [] OTHER                                      -> {}

ComparisonTrees(s) ==
    PrimaryTrees(s)
    \cup UNION {{Binary(s[i].type, l, r) : l \in PrimaryTrees(Before(s, i)), r \in PrimaryTrees(After(s, i))} :
                   i \in At(s, Comparisons)}

NotTrees(s) ==
    ComparisonTrees(s)
    \cup IF s # <<>> /\ s[1].type = "not" THEN {Negation(c) : c \in NotTrees(Tail(s))} ELSE {}

AndTrees(s) ==
    NotTrees(s)
    \cup UNION {{Binary("and", l, r) : l \in AndTrees(Before(s, i)), r \in NotTrees(After(s, i))} :
                   i \in At(s, {"and"})}

OrTrees(s) ==
    AndTrees(s)
    \cup UNION {{Binary("or", l, r) : l \in OrTrees(Before(s, i)), r \in AndTrees(After(s, i))} :
                   i \in At(s, {"or"})}

\* The trees of a filter: none if it is not in the grammar.
GrammarTrees(f) ==
    LET l == Tokenize(f) IN IF l.ok THEN OrTrees(SubSeq(l.tokens, 1, Len(l.tokens) - 1)) ELSE {}
=============================================================================
