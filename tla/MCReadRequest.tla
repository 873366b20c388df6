---- MODULE MCReadRequest ----
(* Small instances of ReadRequest for TLC. *)
EXTENDS ReadRequest

\* Two public columns and a hidden one, which is the primary key.
MCColumns == {"b", "s", "h"}
MCInitialColumns == <<"b", "s", "h">>
MCPolicy == [configured_columns |-> {"b", "s"}, configured_key |-> NoColumn]
MCKeyed == [configured_columns |-> {}, configured_key |-> "s"]
MCBindings == {MCPolicy, MCKeyed}
MCTypes == [c \in MCColumns |-> IF c = "b" THEN "BOOLEAN" ELSE "VARCHAR"]

\* A text that has only a quote in it, a plain one, and nulls.
MCRows ==
    {[c \in MCColumns |-> CASE c = "b" -> v [] c = "s" -> w [] c = "h" -> Null] :
        v \in {True, False, Null}, w \in {Text(<<"b">>), Text(<<"'">>), Null}}

MCLookups ==
    {[select |-> s, names |-> n] : s \in {{}, {"b"}, {"s"}, {"h"}}, n \in {{}, {"s"}, {"h"}}}

MCFilterSymbols ==
    {"'", "\"", "(", ")", ",", "and", "or", "not", "eq", "ne", "lt", "null", "true", "b", "s", "tolower", "@", "1"}
MCCoreSymbols == {"'", "(", ")", "and", "or", "not", "eq", "null", "b"}
MCKeyCharacters == {"a", "'", ")", "/", "%", "+", " ", "2", "7"}
MCEntity == <<"e", "t">>
MCCharacters ==
    {"a", "e", "t", " ", "'", "(", ")", "+", "/", "%", "2", "0", "5", "7", "8", "9", "B", "F", "\"", "\\",
     "backspace", "formfeed", "newline", "return", "tab", "bell", "unit", "b", "f", "n", "r", "u", "1"}
====
