----------------------------- MODULE ReadRequest -----------------------------
(***************************************************************************)
(* A read from its text to its rows: the guard, the lexer and the parser   *)
(* on the text of a $filter, or the route of a Location header that is     *)
(* followed; then the entity model, the compiler and the query, while      *)
(* other sessions change the table.  The text of a filter, or a key value, *)
(* is written symbol by symbol before it is sent, so that every text up to *)
(* a length is met; a filter grows further only while it can still become  *)
(* one that the parser accepts.                                            *)
(***************************************************************************)
EXTENDS EntityModel, FilterMeaning, KeyRoute

CONSTANTS
    FilterSymbols,
    CoreSymbols,         \* the ones a filter grows by beyond ShortFilter
    KeyCharacters,
    Types,               \* the DuckDB type of each column
    Rows,                \* rows: a value for each column
    Entity,              \* the public name, a sequence of characters
    max_filter_depth,
    ShortFilter,         \* bound on the length of every filter,
    LongFilter,          \* of one that can become acceptable,
    SentFilter,          \* and of one that is sent
    LongKey, SentKey     \* the same bounds for keys

ASSUME TextAssumption ==
    /\ ShortFilter \in Nat /\ LongFilter \in Nat /\ SentFilter \in Nat /\ LongKey \in Nat /\ SentKey \in Nat
    /\ max_filter_depth \in Int
    /\ DOMAIN Types = Columns
    /\ \A i \in DOMAIN Entity : Entity[i] \notin {"(", "/"}

VARIABLE draft   \* the text of the next request and its use

readVars == <<vars, draft>>

DraftOK == draft.use \in {"none", "filter", "key"}

ReadInit == Init /\ draft = [use |-> "none", text |-> <<>>]

-----------------------------------------------------------------------------
(* The client.                                                             *)

Uses(use) == draft.use \in {"none", use} /\ requests = 0 /\ alters = 0

\* A text that is not accepted yet but is not hopeless: the error is at its
\* end, or in a string that is just being opened.
Unfinished(f) ==
    LET l == Tokenize(f)
        e == Parse(l.tokens)
    IN  IF ~l.ok THEN "'" \in {f[Len(f)], f[Len(f) - 1]} /\ "@" \notin Elements(f) ELSE e.ok \/ e.pos = Len(l.tokens)

WriteFilter(symbol) ==
    /\ Uses("filter")
    /\ Len(draft.text) < LongFilter
    /\ Len(draft.text) >= ShortFilter => symbol \in CoreSymbols /\ Unfinished(Append(draft.text, symbol))
    /\ draft' = [use |-> "filter", text |-> Append(draft.text, symbol)]
    /\ UNCHANGED vars

WriteKey(character) ==
    /\ Uses("key")
    /\ Len(draft.text) < LongKey
    /\ draft' = [use |-> "key", text |-> Append(draft.text, character)]
    /\ UNCHANGED vars

-----------------------------------------------------------------------------
(* The handler up to the entity model.                                     *)

\* The columns a filter names; NoColumn for a call the compiler does not know.
RECURSIVE Names(_)
Names(node) ==
    CASE node.kind = "property" -> {IF node.name \in Columns THEN node.name ELSE NoColumn}
      [] node.kind = "literal"  -> {}
      [] node.kind = "not"      -> Names(node.child)
      [] node.kind = "binary"   -> Names(node.left) \cup Names(node.right)
      [] node.kind = "call"     ->
            UNION {Names(node.args[i]) : i \in DOMAIN node.args}
            \cup IF CompileFunction([node EXCEPT !.args = [i \in DOMAIN node.args |-> Literal(Token("null", <<>>))]],
                                    Types).ok THEN {} ELSE {NoColumn}

\* The loop over the query options: the guard comes before the parser.
SendFilter ==
    LET parsed == ParseFilter(draft.text) IN
    /\ Uses("filter") /\ Len(draft.text) \in 1 .. SentFilter
    /\ IF FilterWithinDepth(draft.text, max_filter_depth) /\ parsed.ok
       THEN Ask("collection", {}, Names(parsed.node))
       ELSE /\ pc = "idle" /\ requests < MaxRequests /\ requests' = requests + 1
            /\ Answer(400, {})
            /\ UNCHANGED <<catalog, request, properties, key, select_list, since, advertised>>
    /\ UNCHANGED draft

\* The client follows the Location of the entity that has the drafted key.
RouteOfKey(is_string) == ParseRoute(UrlDecode(Location(Entity, draft.text, is_string)))

FollowLocation ==
    LET route == RouteOfKey(TRUE) IN
    /\ Uses("key") /\ Len(draft.text) \in 1 .. SentKey
    /\ Ask(IF route.keys = <<>> THEN "collection" ELSE "key", {}, {})
    /\ UNCHANGED draft

ReadNext ==
    \/ \E s \in FilterSymbols : WriteFilter(s)
    \/ \E c \in KeyCharacters : WriteKey(c)
    \/ SendFilter
    \/ FollowLocation
    \/ Handler /\ UNCHANGED draft
    \/ Others /\ (draft.use = "none" \/ requests > 0) /\ UNCHANGED draft
    \/ /\ draft.use = "none"
       /\ \E kind \in Kinds, l \in Lookups : Ask(kind, l.select, l.names)
       /\ UNCHANGED draft

ReadSpec == ReadInit /\ [][ReadNext]_readVars

-----------------------------------------------------------------------------
(* Properties.                                                             *)

Filter == IF draft.use = "filter" THEN draft.text ELSE <<>>

ReadTypeOK == TypeOK /\ DraftOK

(* docs/odata-support.md: "Anything outside this grammar is rejected".     *)
(* The lexer and the recursive descent accept exactly the filters that the *)
(* grammar derives, and build its only tree for each of them: 'not' binds  *)
(* tighter than 'and', 'and' tighter than 'or', both to the left.          *)
ParserFollowsGrammar ==
    LET parsed == ParseFilter(Filter) IN
    GrammarTrees(Filter) = IF parsed.ok THEN {parsed.node} ELSE {}

(* FilterWithinDepth works on the text before the lexer does: a filter the *)
(* parser accepts passes the guard exactly when its parentheses nest no    *)
(* deeper than the limit, unless it has a doubled quote or a string in     *)
(* double quotes, which the guard reads differently from the lexer.        *)
GuardBoundsNesting ==
    LET parsed == ParseFilter(Filter) IN
    /\ parsed.ok
    /\ "\"" \notin Elements(Filter)
    /\ \A i \in 1 .. Len(Filter) - 1 : Filter[i] = "'" => Filter[i + 1] # "'"
    => \A d \in 0 .. 2 : FilterWithinDepth(Filter, d) <=> parsed.depth <= d

(* Over every row, the SQL text of a filter, read with the precedences of  *)
(* SQL, has the value of the filter's tree, so that the parentheses, the   *)
(* quotes, the casts and the tests for null that the compiler emits are    *)
(* the right ones; and it is refused exactly when it names an unknown      *)
(* property or function.                                                   *)
RowsMatchFilter ==
    LET parsed == ParseFilter(Filter)
        sql == Compile(parsed.node, Types)
    IN  parsed.ok =>
            /\ sql.ok <=> Known(parsed.node, Types)
            /\ sql.ok /\ Plain(parsed.node) =>
                  \A row \in Rows : SqlMeaning(sql.text, row) = Meaning(parsed.node, row, Types)

(* The Location of an inserted entity leads back to it: decoded and        *)
(* routed, it names the entity set and one key, which a GET compares as    *)
(* SQL text and a PATCH or DELETE as a parameter, and both are the stored  *)
(* value, whatever quotes, parentheses, slashes or escapes it contains.    *)
LocationFindsEntity ==
    draft.use = "key" =>
        \A is_string \in BOOLEAN :
            LET route == RouteOfKey(is_string)
                type == IF is_string THEN "VARCHAR" ELSE "BIGINT"
                literal == SqlTokens(KeyLiteralSql(route.keys[1], type), 1, <<>>)
            IN  (is_string \/ Elements(draft.text) \subseteq {"2", "7"}) =>
                    /\ LeadsBack(Entity, draft.text, is_string)
                    /\ literal[IF is_string THEN 1 ELSE 3] = Token("string", draft.text)
                    /\ Len(literal) = IF is_string THEN 1 ELSE 6
=============================================================================
