----------------------------- MODULE EntityModel -----------------------------
(***************************************************************************)
(* The entity model of one binding and the requests that are answered from *)
(* it.  Nothing about columns is cached: every request reads the columns   *)
(* and then the constraints of the table from the catalog, in two queries, *)
(* applies the column policy, compiles its SQL from the result and runs    *)
(* it, while other sessions change the table.  Column names are compared   *)
(* without regard to case in the code; the model has one spelling of each. *)
(***************************************************************************)
EXTENDS Integers, Sequences, FiniteSets

CONSTANTS
    Columns,          \* column names
    NoColumn,         \* no such column
    Bindings,         \* [configured_columns: empty is no policy,
                      \*  configured_key: the key of odata_entity, or NoColumn]
    InitialBinding,   \* the first of them
    InitialColumns,   \* the table when it was exposed: its columns in order,
    InitialKey,       \* and its single-column primary key, or NoColumn
    Complex,          \* columns of a type without an EDM counterpart
    Lookups,          \* the requests: [select: columns, names: columns in $filter and $orderby]
    MaxAlters,        \* bound on changes of the table
    MaxRequests       \* bound on requests

ASSUME EntityAssumption ==
    /\ NoColumn \notin Columns
    /\ Bindings \subseteq [configured_columns: SUBSET Columns, configured_key: Columns \cup {NoColumn}]
    /\ InitialBinding \in Bindings
    /\ InitialColumns \in Seq(Columns) /\ InitialColumns # <<>>
    /\ InitialKey \in Columns \cup {NoColumn}
    /\ Lookups \subseteq [select: SUBSET Columns, names: SUBSET Columns]
    /\ MaxAlters \in Nat /\ MaxRequests \in Nat

VARIABLES
    binding,       \* the entity's binding in the registry
    columns,       \* the table's columns in order; empty when it is dropped
    primary_key,   \* its single-column primary key, or NoColumn
    alters,        \* the number of changes of the table or the binding so far
    requests,      \* the number of requests so far
    request,       \* the current request, with its snapshot of the binding
    pc,            \* where its handler is
    properties,    \* EdmEntity.properties, in order
    key,           \* the property with is_key, or NoColumn
    select_list,   \* the columns named in the compiled SELECT; empty: "*"
    status,        \* the answer
    served,        \* the columns in the answer's rows
    error,         \* of a query that failed: "binder" for an unknown name, "query" for
                   \* anything else (a literal that does not convert, types that do not
                   \* compare, an interrupt), or "none"
    since,         \* alters when the current request arrived
    advertised     \* what the last $metadata said, and alters at that time;
                   \* -1 if the table changed while it was being made

catalog == <<binding, columns, primary_key, alters>>
answer  == <<status, served, error>>
vars == <<catalog, requests, request, pc, properties, key, select_list, answer, since, advertised>>

Kinds == {"metadata", "collection", "key"}

Elements(seq) == {seq[i] : i \in DOMAIN seq}

NoAdvertisement == [columns |-> {}, key |-> NoColumn, at |-> -1]

TypeOK ==
    /\ binding \in Bindings /\ columns \in Seq(Columns) /\ primary_key \in Columns \cup {NoColumn}
    /\ alters \in 0 .. MaxAlters /\ requests \in 0 .. MaxRequests
    /\ request.kind \in Kinds /\ request.binding \in Bindings /\ request.select \subseteq Columns /\ request.names \subseteq Columns \cup {NoColumn}
    /\ pc \in {"idle", "columns", "constraints", "policy", "execute"}
    /\ properties \in Seq(Columns) /\ key \in Columns \cup {NoColumn}
    /\ select_list \subseteq Columns
    /\ status \in {0, 200, 400, 404, 413, 500} /\ served \subseteq Columns
    /\ error \in {"none", "binder", "query"} /\ (error # "none" => status = 500)
    /\ pc = "idle" /\ requests > 0 => status # 0
    /\ since \in 0 .. alters
    /\ advertised \in [columns: SUBSET Columns, key: Columns \cup {NoColumn}, at: -1 .. alters]

Init ==
    /\ binding = InitialBinding /\ columns = InitialColumns /\ primary_key = InitialKey
    /\ alters = 0 /\ requests = 0
    /\ request = [kind |-> "metadata", binding |-> InitialBinding, select |-> {}, names |-> {}]
    /\ pc = "idle" /\ properties = <<>> /\ key = NoColumn /\ select_list = {}
    /\ status = 0 /\ served = {} /\ error = "none" /\ since = 0
    /\ advertised = NoAdvertisement

-----------------------------------------------------------------------------
(* The handler.                                                            *)

\* A request whose options parsed arrives at the metadata generator.
Ask(kind, select, names) ==
    /\ pc = "idle" /\ requests < MaxRequests
    /\ requests' = requests + 1
    /\ request' = [kind |-> kind, binding |-> binding, select |-> select, names |-> names]
    /\ pc' = "columns" /\ status' = 0 /\ served' = {} /\ error' = "none" /\ since' = alters
    /\ properties' = <<>> /\ key' = NoColumn /\ select_list' = {}
    /\ UNCHANGED <<catalog, advertised>>

Answer(code, columns_served) ==
    pc' = "idle" /\ status' = code /\ served' = columns_served /\ error' = "none"

\* A query's result has an error.
Fails(kind) == pc' = "idle" /\ status' = 500 /\ served' = {} /\ error' = kind

Untorn == IF since = alters THEN alters ELSE -1

\* BuildEntity throws: $metadata leaves the entity out, other requests fail.
NotReadable ==
    /\ Answer(IF request.kind = "metadata" THEN 200 ELSE 404, {})
    /\ advertised' = IF request.kind = "metadata"
                     THEN [NoAdvertisement EXCEPT !.at = Untorn] ELSE advertised

\* BuildEntity, first half: the columns, and a configured key.
ReadColumns ==
    LET configured_key == request.binding.configured_key IN
    /\ pc = "columns"
    /\ properties' = columns
    /\ UNCHANGED <<catalog, requests, request, select_list, since>>
    /\ \/ /\ columns = <<>> \/ configured_key \notin Elements(columns) \cup {NoColumn}
          /\ NotReadable /\ UNCHANGED key
       \/ /\ columns # <<>> /\ configured_key \in Elements(columns)
          /\ key' = configured_key /\ pc' = "policy"
          /\ UNCHANGED <<answer, advertised>>
       \/ /\ columns # <<>> /\ configured_key = NoColumn
          /\ pc' = "constraints"
          /\ UNCHANGED <<key, answer, advertised>>

\* BuildEntity, second half, in another query: the primary key if it is one
\* of the columns read, else the first of them.
ReadConstraints ==
    /\ pc = "constraints"
    /\ key' = IF primary_key \in Elements(properties) THEN primary_key ELSE properties[1]
    /\ pc' = "policy"
    /\ UNCHANGED <<catalog, requests, request, properties, select_list, answer, since, advertised>>

\* The columns that the policy of the binding allows.
Allowed(b) == IF b.configured_columns = {} THEN Columns ELSE b.configured_columns

\* Mutant of ApplyColumnPolicy: the key is public whatever the policy says.
PolicyKeepsKey(props, b) == {c \in Elements(props) : c \in Allowed(b) \cup {key}}

ApplyColumnPolicy(props, b) == {c \in Elements(props) : c \in Allowed(b)}

\* The entity after the policy, in GenerateEdmx and in the SQL compiler.

\* Mutant of Metadata: has_key is not computed again after the policy.
MetadataStaleKey ==
    /\ pc = "policy" /\ request.kind = "metadata"
    /\ advertised' = [columns |-> ApplyColumnPolicy(properties, request.binding) \ Complex,
                      key |-> key, at |-> Untorn]
    /\ Answer(200, {})
    /\ UNCHANGED <<catalog, requests, request, properties, key, select_list, since>>

Metadata ==
    LET public == ApplyColumnPolicy(properties, request.binding) IN
    /\ pc = "policy" /\ request.kind = "metadata"
    /\ advertised' = [columns |-> public \ Complex,
                      key |-> IF key \in public THEN key ELSE NoColumn, at |-> Untorn]
    /\ Answer(200, {})
    /\ UNCHANGED <<catalog, requests, request, properties, key, select_list, since>>

\* The columns that choose and order the rows: a key lookup compiles neither
\* $filter nor $orderby, whatever they name.
Conditions == IF request.kind = "key" THEN {key} ELSE request.names

\* Without a $select every property is selected; an empty list becomes "*".
CompileSql ==
    LET public == ApplyColumnPolicy(properties, request.binding) IN
    /\ pc = "policy" /\ request.kind # "metadata"
    /\ IF ~(request.select \cup Conditions \subseteq public)
       THEN Answer(400, {}) /\ UNCHANGED select_list
       ELSE /\ select_list' = IF request.select = {} THEN public ELSE request.select
            /\ pc' = "execute" /\ UNCHANGED answer
    /\ UNCHANGED <<catalog, requests, request, properties, key, since, advertised>>

\* All that the statement mentions; DuckDB binds it when it runs it.
Mentioned == select_list \cup Conditions

Bound == columns # <<>> /\ Mentioned \subseteq Elements(columns)

\* Mutant of Execute: an error of the query is not looked at.
ExecuteUnchecked ==
    /\ pc = "execute"
    /\ pc' = "idle" /\ served' = select_list /\ error' = "none"
    /\ status' = IF Bound THEN 200 ELSE status
    /\ UNCHANGED <<catalog, requests, request, properties, key, select_list, since, advertised>>

\* The query runs: it fails, finds no row for the key, or gives rows, which can
\* be too many bytes for a collection.
Execute ==
    /\ pc = "execute"
    /\ \/ ~Bound /\ Fails("binder")
       \/ Fails("query")
       \/ Bound /\ Answer(200, IF select_list = {} THEN Elements(columns) ELSE select_list)
       \/ Bound /\ request.kind = "key" /\ Answer(404, {})
       \/ Bound /\ request.kind = "collection" /\ Answer(413, {})
    /\ UNCHANGED <<catalog, requests, request, properties, key, select_list, since, advertised>>

Handler == ReadColumns \/ ReadConstraints \/ Metadata \/ CompileSql \/ Execute

-----------------------------------------------------------------------------
(* Other sessions.                                                         *)

Alter(new_columns, new_key) ==
    /\ alters < MaxAlters /\ alters' = alters + 1
    /\ columns' = new_columns /\ primary_key' = new_key /\ UNCHANGED binding
    /\ UNCHANGED <<requests, request, pc, properties, key, select_list, answer, since, advertised>>

AddColumn(c) ==
    columns # <<>> /\ c \notin Elements(columns) /\ Alter(Append(columns, c), primary_key)

\* DuckDB keeps the last column and the column of the primary key.
DropColumn(i) ==
    /\ columns[i] # primary_key /\ Len(columns) > 1
    /\ Alter(SubSeq(columns, 1, i - 1) \o SubSeq(columns, i + 1, Len(columns)), primary_key)

RenameColumn(c, d) ==
    /\ c \in Elements(columns) /\ d \notin Elements(columns)
    /\ Alter([i \in DOMAIN columns |-> IF columns[i] = c THEN d ELSE columns[i]],
             IF primary_key = c THEN d ELSE primary_key)

DropTable == columns # <<>> /\ Alter(<<>>, NoColumn)

CreateTable == columns = <<>> /\ Alter(InitialColumns, InitialKey)

\* odata_expose or odata_entity replaces the binding.
Expose(b) ==
    /\ alters < MaxAlters /\ alters' = alters + 1
    /\ b # binding /\ binding' = b
    /\ UNCHANGED <<columns, primary_key, requests, request, pc, properties, key, select_list,
                   answer, since, advertised>>

Others ==
    \/ \E b \in Bindings : Expose(b)
    \/ \E c \in Columns : AddColumn(c)
    \/ \E i \in DOMAIN columns : DropColumn(i)
    \/ \E c, d \in Columns : RenameColumn(c, d)
    \/ DropTable
    \/ CreateTable

Next ==
    \/ \E kind \in Kinds, l \in Lookups : Ask(kind, l.select, l.names)
    \/ Handler
    \/ Others

Spec == Init /\ [][Next]_vars

-----------------------------------------------------------------------------
(* Properties.                                                             *)

\* The columns of the policy that the request found in the table.
Public == Elements(properties) \cap Allowed(request.binding)

(* docs/security.md: the policy "is applied to metadata, $select, $filter,  *)
(* $orderby and key lookups".  Whatever happens to the table while a       *)
(* request runs, the columns that chose and ordered its rows are public    *)
(* ones that the request read from the catalog, and so are the columns of  *)
(* its rows, as long as the policy left it any column.                     *)
ServedWithinPolicy ==
    status = 200 /\ request.kind # "metadata" =>
        /\ Conditions \subseteq Public
        /\ Public # {} => served \subseteq Public

(* The promise without the exception: with a column policy, only columns   *)
(* of the policy are ever served.                                          *)
OnlyPublicColumnsServed ==
    served \subseteq Allowed(request.binding)

(* What $metadata says can be used: while the table stays as it was when   *)
(* $metadata was answered, a request that names only the properties listed *)
(* there is not refused and none of its names is unknown to the query,     *)
(* whatever else the query may fail of; and a key lookup is refused        *)
(* exactly when no key was listed and uses the listed key otherwise.       *)
AdvertisedIsUsable ==
    /\ status # 0 /\ request.kind # "metadata"
    /\ advertised.at = alters /\ advertised.columns # {}
    /\ request.select \subseteq advertised.columns
    /\ request.kind = "collection" => request.names \subseteq advertised.columns
    =>
    IF request.kind = "key" /\ advertised.key = NoColumn THEN status = 400
    ELSE /\ status # 400 /\ error # "binder"
         /\ request.kind = "collection" => status # 404
         /\ request.kind = "key" => key = advertised.key
=============================================================================
