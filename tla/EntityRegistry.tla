---------------------------- MODULE EntityRegistry ----------------------------
(***************************************************************************)
(* The list of exposed entity sets, ODataServerState::bindings, and the    *)
(* calls that change it: odata_expose, odata_expose_schema, odata_entity.  *)
(* Sessions make them concurrently, while tables are created and dropped.  *)
(*                                                                         *)
(* An identifier is the sequence of its parts between underscores, so the  *)
(* code's  a + "_" + b  is  a \o b  and an absent qualifier is <<>>: the   *)
(* table s1_x and the table x of schema s1 are both called <<"s1", "x">>.  *)
(* Identifiers are compared as if in lower case throughout.                *)
(***************************************************************************)
EXTENDS Naturals, Sequences, FiniteSets, FiniteSetsExt

CONSTANTS
    Sessions,
    Universe,         \* the tables and views that may exist
    NotBase,          \* those that odata_expose_schema leaves out: views, temporary tables
    CurrentCatalog,   \* current_catalog() of a new connection
    CurrentSchema,    \* current_schema() of a new connection
    Policies,         \* values of columns := [...]
    AllColumns,       \* no column policy
    Keys,             \* values of key := ...
    NoKey,
    MaxCalls,         \* bound on the calls made
    MaxDdl            \* bound on the tables created or dropped meanwhile

Idents == Seq(STRING) \ {<<>>}

ASSUME UniverseAssumption == Universe \subseteq [catalog: Idents, schema: Idents, table: Idents]
ASSUME NotBaseAssumption  == NotBase \subseteq Universe
ASSUME BoundsAssumption   == MaxCalls \in Nat /\ MaxDdl \in Nat
ASSUME ScopeAssumption    == CurrentCatalog \in Idents /\ CurrentSchema \in Idents

\* The public names a table can be exposed under.
NamesOf(t) == {t.table, t.schema \o t.table, t.catalog \o t.schema \o t.table}

Names == UNION {NamesOf(t) : t \in Universe}

\* What can be passed to odata_expose and odata_entity: a table name with no
\* qualifier, its schema, or its catalog and schema.
Refs == UNION {{[t EXCEPT !.catalog = <<>>, !.schema = <<>>], [t EXCEPT !.catalog = <<>>], t} :
                  t \in Universe}

Bindings == [name: Names, target: Universe, columns: Policies \cup {AllColumns},
             key: Keys \cup {NoKey}]

VARIABLES
    tables,     \* the tables and views that exist
    bindings,   \* ODataServerState::bindings, guarded by mu
    pc,         \* pc[s]: the call that session s is in
    binding,    \* binding[s]: the binding that its call will store, a set of at most one
    todo,       \* todo[s]: tables that its odata_expose_schema has listed and not stored
    reported,   \* history: the (entity, table) rows returned to callers
    calls, ddl  \* counters for the bounds

vars == <<tables, bindings, pc, binding, todo, reported, calls, ddl>>

TypeOK ==
    /\ tables \in SUBSET Universe
    /\ bindings \in Seq(Bindings)
    /\ pc \in [Sessions -> {"idle", "expose", "entity", "schema"}]
    /\ binding \in [Sessions -> SUBSET Bindings]
    /\ todo \in [Sessions -> SUBSET Universe]
    /\ reported \in SUBSET [name: Names, target: Universe]
    /\ calls \in 0 .. MaxCalls
    /\ ddl \in 0 .. MaxDdl

Init ==
    /\ tables \in SUBSET Universe
    /\ bindings = <<>>
    /\ pc = [s \in Sessions |-> "idle"]
    /\ binding = [s \in Sessions |-> {}]
    /\ todo = [s \in Sessions |-> {}]
    /\ reported = {}
    /\ calls = 0
    /\ ddl = 0

-----------------------------------------------------------------------------

\* Mutant of ParsedName: the qualifiers in the wrong order.
NameReversed(r) == r.table \o r.schema \o r.catalog

\* ParseQualifiedBinding: every qualifier given is part of the public name.
ParsedName(r) == r.catalog \o r.schema \o r.table

\* ResolveBindingTable: the tables a reference can mean.
Candidates(r) ==
    {t \in tables : /\ t.table = r.table
                    /\ r.schema \in {<<>>, t.schema}
                    /\ r.catalog \in {<<>>, t.catalog}}

\* SchemaEntityName: qualifiers outside the current scope are prefixed.
SchemaEntityName(t) ==
    IF t.catalog # CurrentCatalog THEN t.catalog \o t.schema \o t.table
    ELSE IF t.schema # CurrentSchema THEN t.schema \o t.table
    ELSE t.table

\* The tables that odata_expose_schema finds.
SchemaTables(catalog, schema) ==
    {t \in tables \ NotBase : t.catalog = catalog /\ t.schema = schema}

\* Where odata_expose and odata_entity look for their binding.
SameName(b) == {i \in DOMAIN bindings : bindings[i].name = b.name}

\* Mutant of SameNameAndSchema: the new binding is always appended.
NeverSame(b) == {}

\* Where odata_expose_schema looks for its binding.
SameNameAndSchema(b) ==
    {i \in SameName(b) : /\ bindings[i].target.schema = b.target.schema
                         /\ bindings[i].target.catalog = b.target.catalog}

\* Replace the first of the places found, or append.
Store(places, b) ==
    IF places = {} THEN Append(bindings, b) ELSE [bindings EXCEPT ![Min(places)] = b]

-----------------------------------------------------------------------------

\* The part of odata_expose (op "expose") and odata_entity (op "entity") before
\* the lock: the reference must mean exactly one table, else the call throws
\* and changes nothing.  (A column policy that names no column throws, too.)
Resolve(s, op, r, columns, key) ==
    /\ pc[s] = "idle"
    /\ calls < MaxCalls
    /\ calls' = calls + 1
    /\ \E t \in Universe :
         /\ Candidates(r) = {t}
         /\ binding' = [binding EXCEPT ![s] = {[name |-> ParsedName(r), target |-> t,
                                                columns |-> columns, key |-> key]}]
    /\ pc' = [pc EXCEPT ![s] = op]
    /\ UNCHANGED <<tables, bindings, todo, reported, ddl>>

\* odata_expose: under mu the binding replaces the one of its name, or is
\* appended; then the row is returned.
ExposeStore(s) ==
    /\ pc[s] = "expose"
    /\ \E b \in binding[s] :
         /\ bindings' = Store(SameName(b), b)
         /\ reported' = reported \cup {[name |-> b.name, target |-> b.target]}
    /\ binding' = [binding EXCEPT ![s] = {}]
    /\ pc' = [pc EXCEPT ![s] = "idle"]
    /\ UNCHANGED <<tables, todo, calls, ddl>>

\* Mutant of EntityStore: the whole binding is replaced.
EntityReplaces(s) ==
    /\ pc[s] = "entity"
    /\ \E b \in binding[s] : bindings' = Store(SameName(b), b)
    /\ binding' = [binding EXCEPT ![s] = {}]
    /\ pc' = [pc EXCEPT ![s] = "idle"]
    /\ UNCHANGED <<tables, todo, reported, calls, ddl>>

\* odata_entity: only the key of a binding of that name changes; without one
\* the new binding is appended.
EntityStore(s) ==
    /\ pc[s] = "entity"
    /\ \E b \in binding[s] :
         bindings' = Store(SameName(b),
                           IF SameName(b) = {} THEN b
                           ELSE [bindings[Min(SameName(b))] EXCEPT !.key = b.key])
    /\ binding' = [binding EXCEPT ![s] = {}]
    /\ pc' = [pc EXCEPT ![s] = "idle"]
    /\ UNCHANGED <<tables, todo, reported, calls, ddl>>

\* odata_expose_schema lists the base tables of the schema in one query ...
SchemaList(s, catalog, schema) ==
    /\ pc[s] = "idle"
    /\ calls < MaxCalls
    /\ calls' = calls + 1
    /\ todo' = [todo EXCEPT ![s] = SchemaTables(catalog, schema)]
    /\ pc' = [pc EXCEPT ![s] = "schema"]
    /\ UNCHANGED <<tables, bindings, binding, reported, ddl>>

\* ... stores one binding after the other, taking mu for each ...
SchemaStore(s, t) ==
    /\ pc[s] = "schema"
    /\ t \in todo[s]
    /\ LET b == [name |-> SchemaEntityName(t), target |-> t,
                 columns |-> AllColumns, key |-> NoKey]
       IN  /\ bindings' = Store(SameNameAndSchema(b), b)
           /\ reported' = reported \cup {[name |-> b.name, target |-> t]}
    /\ todo' = [todo EXCEPT ![s] = @ \ {t}]
    /\ UNCHANGED <<tables, pc, binding, calls, ddl>>

\* ... and returns a row for each.
SchemaReturn(s) ==
    /\ pc[s] = "schema"
    /\ todo[s] = {}
    /\ pc' = [pc EXCEPT ![s] = "idle"]
    /\ UNCHANGED <<tables, bindings, binding, todo, reported, calls, ddl>>

\* CREATE TABLE and DROP TABLE in some session.
CreateOrDrop(t) ==
    /\ ddl < MaxDdl
    /\ ddl' = ddl + 1
    /\ tables' = IF t \in tables THEN tables \ {t} ELSE tables \cup {t}
    /\ UNCHANGED <<bindings, pc, binding, todo, reported, calls>>

Next ==
    \/ \E s \in Sessions :
         \/ \E r \in Refs, c \in Policies \cup {AllColumns} : Resolve(s, "expose", r, c, NoKey)
         \/ \E r \in Refs, k \in Keys : Resolve(s, "entity", r, AllColumns, k)
         \/ \E t \in Universe : SchemaList(s, t.catalog, t.schema)
         \/ ExposeStore(s)
         \/ EntityStore(s)
         \/ \E t \in Universe : SchemaStore(s, t)
         \/ SchemaReturn(s)
    \/ \E t \in Universe : CreateOrDrop(t)

Spec == Init /\ [][Next]_vars

-----------------------------------------------------------------------------
(* Properties.                                                             *)

\* The bindings of a name; HandleODataRequest serves the first.
Named(n)  == {i \in DOMAIN bindings : bindings[i].name = n}
Served(n) == bindings[Min(Named(n))]

\* More than one table can claim the name.
Ambiguous(n) == \E t, u \in Universe : t # u /\ n \in NamesOf(t) \cap NamesOf(u)

(***************************************************************************)
(* Whatever calls are made, in whatever order and concurrently, a name     *)
(* that only one table can claim is bound once, and every row returned for *)
(* it stays true: HandleODataRequest serves that table under it - although *)
(* the three calls look for existing bindings by different rules.          *)
(***************************************************************************)
UnambiguousNamesServed ==
    /\ \A i, j \in DOMAIN bindings :
         bindings[i].name = bindings[j].name /\ ~Ambiguous(bindings[i].name) => i = j
    /\ \A r \in reported :
         ~Ambiguous(r.name) => Named(r.name) # {} /\ Served(r.name).target = r.target

(***************************************************************************)
(* README.md: odata_expose(..., columns := [...]) "restricts the visible   *)
(* metadata and every query expression": what a served name shows, table   *)
(* and column policy, is only ever changed by an exposure of that very     *)
(* name, never by odata_entity or by an exposure of another name.          *)
(***************************************************************************)
OnlyExposureChangesPolicy ==
    [][\A n \in Names :
         /\ Named(n) # {}
         /\ \/ Served(n)'.target # Served(n).target
            \/ Served(n)'.columns # Served(n).columns
         => \E s \in Sessions :
              \/ ExposeStore(s) /\ \E b \in binding[s] : b.name = n
              \/ \E t \in todo[s] : SchemaStore(s, t) /\ SchemaEntityName(t) = n]_vars
=============================================================================
