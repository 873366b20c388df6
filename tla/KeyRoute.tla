------------------------------- MODULE KeyRoute -------------------------------
(***************************************************************************)
(* The way of a key: from a stored value to the Location header of the     *)
(* POST that stored it, through the request path of the client that        *)
(* follows the header, back to the value a lookup compares with.  Texts    *)
(* are sequences of characters.                                            *)
(***************************************************************************)
EXTENDS StringUtil

\* One character of a path, percent-encoded unless it is unreserved.
Encoded(c) == IF c \in DOMAIN Hex THEN <<"%">> \o Hex[c] ELSE <<c>>

EncodePath(text) == FlattenSeq([i \in 1 .. Len(text) |-> Encoded(text[i])])

\* The header of the inserted entity: keys of a string-like type are quoted.
Location(entity, value, is_string) ==
    EncodePath(entity) \o <<"(">> \o EncodePath(IF is_string THEN QuoteStringLiteral(value) ELSE value) \o <<")">>

\* One round of the search for the parenthesis that closes a key, at j.
CloseStep(path) ==
    [at \in [j : Nat, quoted : BOOLEAN, close : Nat] |->
        IF at.close # 0 \/ at.j > Len(path) THEN at
        ELSE IF path[at.j] = "'"
        THEN IF at.quoted /\ at.j < Len(path) /\ path[at.j + 1] = "'"
             THEN [at EXCEPT !.j = at.j + 2]
             ELSE [at EXCEPT !.j = at.j + 1, !.quoted = ~at.quoted]
        ELSE IF ~at.quoted /\ path[at.j] = ")" THEN [at EXCEPT !.close = at.j]
        ELSE [at EXCEPT !.j = at.j + 1]]

\* Its position, searched from j on; 0 if there is none.
CloseParen(path, j) ==
    Iterate(CloseStep(path), [j |-> j, quoted |-> FALSE, close |-> 0], Len(path)).close

Route(entity, keys, invalid_key) == [entity |-> entity, keys |-> keys, invalid_key |-> invalid_key]

\* Mutant of KeyRouteOf: the key ends at the first parenthesis.
KeyRouteUnquoted(path, i) ==
    LET close == SelectInSeq(path, LAMBDA c : c = ")") IN
    Route(Before(path, i), <<SubSeq(path, i + 1, close - 1)>>, close # Len(path))

\* entity(key): the parenthesis opens at i.
KeyRouteOf(path, i) ==
    LET close == CloseParen(path, i + 1)
        key_part == SubSeq(path, i + 1, close - 1)
    IN  IF close = 0 THEN Route(Before(path, i), <<>>, TRUE)
        ELSE Route(Before(path, i), IF key_part = <<>> THEN <<>> ELSE <<Trim(key_part)>>,
                   key_part = <<>> \/ close < Len(path))

\* ParseRoute for a decoded path below the base path, its first '/' removed.
ParseRoute(path) ==
    LET i == SelectInSeq(path, LAMBDA c : c \in {"(", "/"}) IN
    IF i = 0 THEN Route(path, <<>>, FALSE)
    ELSE IF path[i] = "(" THEN KeyRouteOf(path, i)
    ELSE Route(Before(path, i), IF i = Len(path) THEN <<>> ELSE <<After(path, i)>>, FALSE)

\* One round of the loop that undoes the doubling of quotes, at i.
UndoubleStep(value) ==
    [at \in [i : Nat, decoded : Seq(Characters)] |->
        IF at.i > Len(value) THEN at
        ELSE [i |-> IF value[at.i] = "'" /\ at.i < Len(value) /\ value[at.i + 1] = "'" THEN at.i + 2 ELSE at.i + 1,
              decoded |-> Append(at.decoded, value[at.i])]]

Undouble(value) == Iterate(UndoubleStep(value), [i |-> 1, decoded |-> <<>>], Len(value)).decoded

\* The value of a key in a route: the parameter of PATCH and DELETE.
KeyValue(raw) ==
    IF Len(raw) > 1 /\ raw[1] = "'" /\ raw[Len(raw)] = "'" THEN Undouble(Inner(raw, 2)) ELSE raw

\* The Location of an entity leads back to it: the route that the server
\* takes from it has the entity set and one key, with the value.
LeadsBack(entity, value, is_string) ==
    LET route == ParseRoute(UrlDecode(Location(entity, value, is_string))) IN
    /\ ~route.invalid_key /\ route.entity = entity
    /\ Len(route.keys) = 1 /\ KeyValue(route.keys[1]) = value

\* The key in the SQL text of a GET.
KeyLiteralSql(raw, type) ==
    LET quoted == QuoteStringLiteral(KeyValue(raw)) IN
    IF type = "VARCHAR" THEN quoted ELSE <<"CAST", "(">> \o quoted \o <<"AS", type, ")">>
=============================================================================
