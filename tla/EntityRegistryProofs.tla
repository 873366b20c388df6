------------------------- MODULE EntityRegistryProofs -------------------------
(***************************************************************************)
(* Proofs about EntityRegistry, for any set of tables, any number of       *)
(* sessions and any sequence of calls: a name that only one table can      *)
(* claim is bound once and serves the table it was reported for.           *)
(***************************************************************************)
EXTENDS EntityRegistry, WellFoundedInduction, TLAPS

(***************************************************************************)
(* The "first binding that matches" exists whenever some binding matches.  *)
(***************************************************************************)
LEMMA MinIsElement ==
    ASSUME NEW S \in SUBSET Nat, S # {}
    PROVE  Min(S) \in S
  <1>. DEFINE R == OpToRel(<, Nat)
  <1>1. \E x \in S : \A y \in S : ~(<<y, x>> \in R)
    <2>1. IsWellFoundedOn(R, Nat)
      BY NatLessThanWellFounded
    <2>2. QED
      BY <2>1, WFMin
  <1>2. \A x, y \in Nat : y < x => <<y, x>> \in R
    BY DEF OpToRel
  <1>. HIDE DEF R
  <1>3. \E x \in S : \A y \in S : x <= y
    <2>1. PICK x \in S : \A y \in S : ~(<<y, x>> \in R)
      BY <1>1
    <2>2. ASSUME NEW y \in S PROVE x <= y
      <3>1. ~(y < x)
        BY <1>2, <2>1
      <3>2. QED
        BY <3>1
    <2>3. QED
      BY <2>2
  <1>4. QED
    BY <1>3 DEF Min

(***************************************************************************)
(* What replacing or appending a binding does to the list: other entries   *)
(* and all names stay, the new binding is in it, and the list only grows   *)
(* when no place was found.                                                *)
(***************************************************************************)
LEMMA StoreFacts ==
    ASSUME bindings \in Seq(Bindings), NEW b \in Bindings,
           NEW places \in SUBSET SameName(b),
           NEW new, new = Store(places, b)
    PROVE  /\ new \in Seq(Bindings)
           /\ DOMAIN bindings \subseteq DOMAIN new
           /\ \A i \in DOMAIN bindings : new[i].name = bindings[i].name
           /\ \A i \in DOMAIN new : new[i] = b \/ (i \in DOMAIN bindings /\ new[i] = bindings[i])
           /\ \E i \in DOMAIN new : new[i] = b
           /\ places # {} => DOMAIN new = DOMAIN bindings
           /\ places = {} => \A i \in DOMAIN new \ DOMAIN bindings : i = Len(bindings) + 1
  <1>1. CASE places = {}
    <2>1. new = Append(bindings, b)
      BY <1>1 DEF Store
    <2>2. QED
      BY <1>1, <2>1
  <1>2. CASE places # {}
    <2>. DEFINE k == Min(places)
    <2>1. k \in places
      <3>1. places \in SUBSET Nat
        BY DEF SameName
      <3>2. QED
        BY <1>2, <3>1, MinIsElement
    <2>2. k \in DOMAIN bindings /\ bindings[k].name = b.name
      BY <2>1 DEF SameName
    <2>3. new = [bindings EXCEPT ![k] = b]
      BY <1>2 DEF Store
    <2>. HIDE DEF k
    <2>4. QED
      BY <1>2, <2>2, <2>3
  <1>3. QED
    BY <1>1, <1>2

-----------------------------------------------------------------------------
(* Type correctness.                                                       *)

(***************************************************************************)
(* The name that ParseQualifiedBinding makes of a reference is one of the  *)
(* names of the table that ResolveBindingTable finds for it.               *)
(***************************************************************************)
LEMMA ParsedNameIsOwn ==
    ASSUME NEW r \in Refs, NEW t \in Universe, Candidates(r) = {t}
    PROVE  ParsedName(r) \in NamesOf(t)
  <1>1. PICK u \in Universe :
            \/ r = [u EXCEPT !.catalog = <<>>, !.schema = <<>>]
            \/ r = [u EXCEPT !.catalog = <<>>]
            \/ r = u
    BY DEF Refs
  <1>2. /\ t.table \in Seq(STRING) /\ t.schema \in Seq(STRING) /\ t.catalog \in Seq(STRING)
        /\ u.schema # <<>> /\ u.catalog # <<>>
    BY UniverseAssumption DEF Idents
  <1>3. t.table = r.table /\ r.schema \in {<<>>, t.schema} /\ r.catalog \in {<<>>, t.catalog}
    BY DEF Candidates
  <1>4. \/ r.catalog = <<>> /\ r.schema = <<>>
        \/ r.catalog = <<>> /\ r.schema # <<>>
        \/ r.catalog # <<>> /\ r.schema # <<>>
    BY <1>1, <1>2, UniverseAssumption
  <1>5. \A x \in Seq(STRING) : <<>> \o x = x
    OBVIOUS
  <1>6. \/ ParsedName(r) = t.table
        \/ ParsedName(r) = t.schema \o t.table
        \/ ParsedName(r) = t.catalog \o t.schema \o t.table
    <2>1. CASE r.catalog = <<>> /\ r.schema = <<>>
      <3>1. <<>> \o <<>> = <<>>
        OBVIOUS
      <3>2. QED
        BY <1>2, <1>3, <1>5, <2>1, <3>1, Zenon DEF ParsedName
    <2>2. CASE r.catalog = <<>> /\ r.schema # <<>>
      <3>1. r.schema = t.schema
        BY <1>3, <2>2
      <3>2. QED
        BY <1>2, <1>3, <1>5, <2>2, <3>1, Zenon DEF ParsedName
    <2>3. CASE r.catalog # <<>> /\ r.schema # <<>>
      <3>1. r.schema = t.schema /\ r.catalog = t.catalog
        BY <1>3, <2>3
      <3>2. QED
        BY <1>3, <3>1, Zenon DEF ParsedName
    <2>4. QED
      BY <1>4, <2>1, <2>2, <2>3
  <1>7. QED
    BY <1>6 DEF NamesOf

(***************************************************************************)
(* The name that odata_expose_schema gives a table is one of its own.      *)
(***************************************************************************)
LEMMA SchemaNameIsOwn == \A t \in Universe : SchemaEntityName(t) \in NamesOf(t)
  BY DEF SchemaEntityName, NamesOf

(***************************************************************************)
(* A binding stored by any of the three calls is well formed and named     *)
(* after its table.                                                        *)
(***************************************************************************)
LEMMA SchemaBindingType ==
    ASSUME NEW t \in Universe
    PROVE  [name |-> SchemaEntityName(t), target |-> t, columns |-> AllColumns, key |-> NoKey]
               \in Bindings
  BY SchemaNameIsOwn DEF Bindings, Names

(***************************************************************************)
(* odata_entity stores a binding of the name it was called with: the one   *)
(* it found with another key, or its own.                                  *)
(***************************************************************************)
LEMMA EntityBinding ==
    ASSUME TypeOK, NEW s \in Sessions, EntityStore(s)
    PROVE  \E b \in binding[s], d \in Bindings :
              /\ d.name = b.name
              /\ d.target = b.target \/ (\E i \in DOMAIN bindings : d.name = bindings[i].name
                                                          /\ d.target = bindings[i].target)
              /\ bindings' = Store(SameName(b), d)
  <1>1. PICK b \in binding[s] :
            bindings' = Store(SameName(b),
                              IF SameName(b) = {} THEN b
                              ELSE [bindings[Min(SameName(b))] EXCEPT !.key = b.key])
    BY DEF EntityStore
  <1>2. b \in Bindings
    BY DEF TypeOK
  <1>3. CASE SameName(b) = {}
    BY <1>1, <1>2, <1>3
  <1>4. CASE SameName(b) # {}
    <2>. DEFINE k == Min(SameName(b))
                d == [bindings[k] EXCEPT !.key = b.key]
    <2>1. k \in DOMAIN bindings /\ bindings[k].name = b.name
      <3>1. SameName(b) \in SUBSET Nat
        BY DEF SameName, TypeOK
      <3>2. k \in SameName(b)
        BY <1>4, <3>1, MinIsElement
      <3>3. QED
        BY <3>2 DEF SameName
    <2>2. bindings[k] \in Bindings
      BY <2>1 DEF TypeOK
    <2>3. d \in Bindings /\ d.name = b.name /\ d.target = bindings[k].target
      BY <1>2, <2>1, <2>2 DEF Bindings
    <2>4. bindings' = Store(SameName(b), d)
      BY <1>1, <1>4
    <2>. HIDE DEF d, k
    <2>5. QED
      BY <2>1, <2>3, <2>4
  <1>5. QED
    BY <1>3, <1>4

(***************************************************************************)
(* Every step keeps the registry well typed.                               *)
(***************************************************************************)
LEMMA TypeStep == TypeOK /\ [Next]_vars => TypeOK'
  <1>. SUFFICES ASSUME TypeOK, [Next]_vars PROVE TypeOK'
    OBVIOUS
  <1>. USE BoundsAssumption
  <1>1. ASSUME NEW s \in Sessions, NEW op \in {"expose", "entity"}, NEW r \in Refs,
               NEW c \in Policies \cup {AllColumns}, NEW k \in Keys \cup {NoKey},
               Resolve(s, op, r, c, k)
        PROVE  TypeOK'
    <2>1. PICK t \in Universe :
              /\ Candidates(r) = {t}
              /\ binding' = [binding EXCEPT ![s] = {[name |-> ParsedName(r), target |-> t,
                                                     columns |-> c, key |-> k]}]
      BY <1>1 DEF Resolve
    <2>2. ParsedName(r) \in Names
      BY <2>1, ParsedNameIsOwn DEF Names
    <2>3. [name |-> ParsedName(r), target |-> t, columns |-> c, key |-> k] \in Bindings
      BY <2>2 DEF Bindings
    <2>4. binding' \in [Sessions -> SUBSET Bindings]
      BY <2>1, <2>3 DEF TypeOK
    <2>5. QED
      BY <1>1, <2>4 DEF Resolve, TypeOK
  <1>2. ASSUME NEW s \in Sessions, ExposeStore(s) PROVE TypeOK'
    <2>1. PICK b \in binding[s] :
              /\ bindings' = Store(SameName(b), b)
              /\ reported' = reported \cup {[name |-> b.name, target |-> b.target]}
      BY <1>2 DEF ExposeStore
    <2>2. b \in Bindings
      BY DEF TypeOK
    <2>3. bindings' \in Seq(Bindings)
      BY <2>1, <2>2, StoreFacts DEF TypeOK
    <2>4. reported' \in SUBSET [name: Names, target: Universe]
      BY <2>1, <2>2 DEF TypeOK, Bindings
    <2>5. QED
      BY <1>2, <2>3, <2>4 DEF ExposeStore, TypeOK
  <1>3. ASSUME NEW s \in Sessions, EntityStore(s) PROVE TypeOK'
    <2>1. PICK b \in binding[s], d \in Bindings :
              d.name = b.name /\ bindings' = Store(SameName(b), d)
      BY <1>3, EntityBinding
    <2>2. SameName(b) = SameName(d)
      BY <2>1 DEF SameName
    <2>3. bindings' \in Seq(Bindings)
      BY <2>1, <2>2, StoreFacts DEF TypeOK
    <2>4. QED
      BY <1>3, <2>3 DEF EntityStore, TypeOK
  <1>4. ASSUME NEW s \in Sessions, NEW t \in Universe, SchemaList(s, t.catalog, t.schema)
        PROVE  TypeOK'
    BY <1>4 DEF SchemaList, SchemaTables, TypeOK
  <1>5. ASSUME NEW s \in Sessions, NEW t \in Universe, SchemaStore(s, t) PROVE TypeOK'
    <2>. DEFINE b == [name |-> SchemaEntityName(t), target |-> t,
                      columns |-> AllColumns, key |-> NoKey]
    <2>1. b \in Bindings /\ b.name = SchemaEntityName(t) /\ b.target = t
      BY SchemaBindingType
    <2>2. /\ bindings' = Store(SameNameAndSchema(b), b)
          /\ reported' = reported \cup {[name |-> b.name, target |-> t]}
      BY <1>5 DEF SchemaStore
    <2>. HIDE DEF b
    <2>3. SameNameAndSchema(b) \subseteq SameName(b)
      BY DEF SameNameAndSchema
    <2>4. bindings' \in Seq(Bindings)
      BY <2>1, <2>2, <2>3, StoreFacts DEF TypeOK
    <2>5. reported' \in SUBSET [name: Names, target: Universe]
      BY <2>1, <2>2 DEF TypeOK, Bindings
    <2>6. QED
      BY <1>5, <2>4, <2>5 DEF SchemaStore, TypeOK
  <1>6. ASSUME NEW s \in Sessions, SchemaReturn(s) PROVE TypeOK'
    BY <1>6 DEF SchemaReturn, TypeOK
  <1>7. ASSUME NEW t \in Universe, CreateOrDrop(t) PROVE TypeOK'
    BY <1>7 DEF CreateOrDrop, TypeOK
  <1>8. CASE UNCHANGED vars
    BY <1>8 DEF vars, TypeOK
  <1>9. QED
    BY <1>1, <1>2, <1>3, <1>4, <1>5, <1>6, <1>7, <1>8 DEF Next

-----------------------------------------------------------------------------
(* Names.                                                                  *)

\* Every binding, stored or about to be, and every row is named after its table.
OwnNames ==
    /\ \A i \in DOMAIN bindings : bindings[i].name \in NamesOf(bindings[i].target)
    /\ \A r \in reported : r.name \in NamesOf(r.target)
    /\ \A s \in Sessions : \A b \in binding[s] : b.name \in NamesOf(b.target)

BoundOnce ==
    \A i, j \in DOMAIN bindings :
        bindings[i].name = bindings[j].name /\ ~Ambiguous(bindings[i].name) => i = j

ReportedBound == \A r \in reported : Named(r.name) # {}

IInv == TypeOK /\ OwnNames /\ BoundOnce /\ ReportedBound

(***************************************************************************)
(* Storing a binding keeps names unique where only one table can claim     *)
(* them, and no name is ever lost.                                         *)
(***************************************************************************)
LEMMA StoreKeeps ==
    ASSUME TypeOK, OwnNames, BoundOnce,
           NEW b \in Bindings, b.name \in NamesOf(b.target),
           NEW places \in SUBSET SameName(b),
           places = {} /\ ~Ambiguous(b.name) => SameName(b) = {},
           bindings' = Store(places, b)
    PROVE  /\ \A i \in DOMAIN bindings' : bindings'[i].name \in NamesOf(bindings'[i].target)
           /\ BoundOnce'
           /\ \A n : Named(n) # {} \/ n = b.name => Named(n)' # {}
  <1>1. /\ bindings' \in Seq(Bindings)
        /\ DOMAIN bindings \subseteq DOMAIN bindings'
        /\ \A i \in DOMAIN bindings : bindings'[i].name = bindings[i].name
        /\ \A i \in DOMAIN bindings' :
              bindings'[i] = b \/ (i \in DOMAIN bindings /\ bindings'[i] = bindings[i])
        /\ \E i \in DOMAIN bindings' : bindings'[i] = b
        /\ places # {} => DOMAIN bindings' = DOMAIN bindings
        /\ places = {} => \A i \in DOMAIN bindings' \ DOMAIN bindings : i = Len(bindings) + 1
    <2>1. bindings \in Seq(Bindings)
      BY DEF TypeOK
    <2>2. QED
      BY <2>1, StoreFacts
  <1>2. \A i \in DOMAIN bindings' : bindings'[i].name \in NamesOf(bindings'[i].target)
    BY <1>1 DEF OwnNames
  <1>3. BoundOnce'
    <2>. SUFFICES ASSUME NEW i \in DOMAIN bindings', NEW j \in DOMAIN bindings',
                         bindings'[i].name = bindings'[j].name, ~Ambiguous(bindings'[i].name)
                  PROVE  i = j
      BY DEF BoundOnce, Ambiguous
    <2>1. CASE i \in DOMAIN bindings /\ j \in DOMAIN bindings
      BY <1>1, <2>1 DEF BoundOnce
    <2>2. CASE i \notin DOMAIN bindings \/ j \notin DOMAIN bindings
      <3>1. places = {}
        BY <1>1, <2>2
      <3>2. bindings'[i].name = b.name
        BY <1>1, <2>2
      <3>3. SameName(b) = {}
        BY <3>1, <3>2
      <3>4. i \notin DOMAIN bindings /\ j \notin DOMAIN bindings
        BY <1>1, <3>2, <3>3 DEF SameName
      <3>5. QED
        BY <1>1, <3>1, <3>4
    <2>3. QED
      BY <2>1, <2>2
  <1>4. \A n : Named(n) # {} \/ n = b.name => Named(n)' # {}
    BY <1>1 DEF Named
  <1>5. QED
    BY <1>2, <1>3, <1>4

(***************************************************************************)
(* The inductive step for the names.                                       *)
(***************************************************************************)
LEMMA NamesStep == IInv /\ [Next]_vars => (OwnNames /\ BoundOnce /\ ReportedBound)'
  <1>. DEFINE Goal == OwnNames' /\ BoundOnce' /\ ReportedBound'
  <1>. SUFFICES ASSUME TypeOK, OwnNames, BoundOnce, ReportedBound, [Next]_vars PROVE Goal
    BY DEF IInv
  <1>1. ASSUME NEW s \in Sessions, NEW op \in {"expose", "entity"}, NEW r \in Refs,
               NEW c \in Policies \cup {AllColumns}, NEW k \in Keys \cup {NoKey},
               Resolve(s, op, r, c, k)
        PROVE  Goal
    <2>1. PICK t \in Universe :
              /\ Candidates(r) = {t}
              /\ binding' = [binding EXCEPT ![s] = {[name |-> ParsedName(r), target |-> t,
                                                     columns |-> c, key |-> k]}]
      BY <1>1 DEF Resolve
    <2>2. ParsedName(r) \in NamesOf(t)
      BY <2>1, ParsedNameIsOwn
    <2>3. \A v \in Sessions : \A b \in binding'[v] : b.name \in NamesOf(b.target)
      BY <2>1, <2>2 DEF OwnNames, TypeOK
    <2>4. QED
      BY <1>1, <2>3 DEF Resolve, OwnNames, BoundOnce, ReportedBound, Named, Ambiguous
  <1>2. ASSUME NEW s \in Sessions, ExposeStore(s) PROVE Goal
    <2>1. PICK b \in binding[s] :
              /\ bindings' = Store(SameName(b), b)
              /\ reported' = reported \cup {[name |-> b.name, target |-> b.target]}
      BY <1>2 DEF ExposeStore
    <2>2. b \in Bindings /\ b.name \in NamesOf(b.target)
      BY DEF TypeOK, OwnNames
    <2>3. /\ \A i \in DOMAIN bindings' : bindings'[i].name \in NamesOf(bindings'[i].target)
          /\ BoundOnce'
          /\ \A n : Named(n) # {} \/ n = b.name => Named(n)' # {}
      BY <2>1, <2>2, StoreKeeps
    <2>4. \A v \in Sessions : binding'[v] \subseteq binding[v]
      BY <1>2 DEF ExposeStore, TypeOK
    <2>5. OwnNames'
      BY <2>1, <2>2, <2>3, <2>4 DEF OwnNames
    <2>6. ReportedBound'
      BY <2>1, <2>3 DEF ReportedBound
    <2>7. QED
      BY <2>3, <2>5, <2>6
  <1>3. ASSUME NEW s \in Sessions, EntityStore(s) PROVE Goal
    <2>1. PICK b \in binding[s], d \in Bindings :
              /\ d.name = b.name
              /\ d.target = b.target \/ (\E i \in DOMAIN bindings : d.name = bindings[i].name
                                                          /\ d.target = bindings[i].target)
              /\ bindings' = Store(SameName(b), d)
      BY <1>3, EntityBinding
    <2>2. d.name \in NamesOf(d.target) /\ SameName(b) = SameName(d)
      BY <2>1 DEF OwnNames, SameName
    <2>3. /\ \A i \in DOMAIN bindings' : bindings'[i].name \in NamesOf(bindings'[i].target)
          /\ BoundOnce'
          /\ \A n : Named(n) # {} \/ n = d.name => Named(n)' # {}
      BY <2>1, <2>2, StoreKeeps
    <2>4. (\A v \in Sessions : binding'[v] \subseteq binding[v]) /\ reported' = reported
      BY <1>3 DEF EntityStore, TypeOK
    <2>5. QED
      BY <2>3, <2>4 DEF OwnNames, ReportedBound
  <1>4. ASSUME NEW s \in Sessions, NEW t \in Universe, SchemaList(s, t.catalog, t.schema)
        PROVE  Goal
    BY <1>4 DEF SchemaList, OwnNames, BoundOnce, ReportedBound, Named, Ambiguous
  <1>5. ASSUME NEW s \in Sessions, NEW t \in Universe, SchemaStore(s, t) PROVE Goal
    <2>. DEFINE b == [name |-> SchemaEntityName(t), target |-> t,
                      columns |-> AllColumns, key |-> NoKey]
    <2>1. b \in Bindings /\ b.name \in NamesOf(b.target) /\ b.target = t
      BY SchemaBindingType, SchemaNameIsOwn
    <2>2. /\ bindings' = Store(SameNameAndSchema(b), b)
          /\ reported' = reported \cup {[name |-> b.name, target |-> t]}
          /\ binding' = binding
      BY <1>5 DEF SchemaStore
    <2>. HIDE DEF b
    <2>3. SameNameAndSchema(b) = {} /\ ~Ambiguous(b.name) => SameName(b) = {}
      <3>. SUFFICES ASSUME ~Ambiguous(b.name), NEW i \in SameName(b)
                    PROVE  i \in SameNameAndSchema(b)
        OBVIOUS
      <3>1. bindings[i].target \in Universe /\ b.name \in NamesOf(bindings[i].target)
        <4>1. i \in DOMAIN bindings /\ bindings[i].name = b.name
          BY DEF SameName
        <4>2. bindings[i] \in Bindings
          BY <4>1 DEF TypeOK
        <4>3. bindings[i].target \in Universe
          BY <4>2 DEF Bindings
        <4>4. QED
          BY <4>1, <4>3 DEF OwnNames
      <3>2. bindings[i].target = t
        BY <2>1, <3>1 DEF Ambiguous
      <3>3. QED
        BY <2>1, <3>2 DEF SameNameAndSchema
    <2>4. /\ \A i \in DOMAIN bindings' : bindings'[i].name \in NamesOf(bindings'[i].target)
          /\ BoundOnce'
          /\ \A n : Named(n) # {} \/ n = b.name => Named(n)' # {}
      <3>1. SameNameAndSchema(b) \subseteq SameName(b)
        BY DEF SameNameAndSchema
      <3>2. QED
        BY <2>1, <2>2, <2>3, <3>1, StoreKeeps
    <2>5. OwnNames'
      BY <2>1, <2>2, <2>4 DEF OwnNames
    <2>6. ReportedBound'
      BY <2>2, <2>4 DEF ReportedBound
    <2>7. QED
      BY <2>4, <2>5, <2>6
  <1>6. ASSUME NEW s \in Sessions, SchemaReturn(s) PROVE Goal
    BY <1>6 DEF SchemaReturn, OwnNames, BoundOnce, ReportedBound, Named, Ambiguous
  <1>7. ASSUME NEW t \in Universe, CreateOrDrop(t) PROVE Goal
    BY <1>7 DEF CreateOrDrop, OwnNames, BoundOnce, ReportedBound, Named, Ambiguous
  <1>8. CASE UNCHANGED vars
    BY <1>8 DEF vars, OwnNames, BoundOnce, ReportedBound, Named, Ambiguous
  <1>9. QED
    BY <1>1, <1>2, <1>3, <1>4, <1>5, <1>6, <1>7, <1>8 DEF Next

(***************************************************************************)
(* Initially nothing is exposed.                                           *)
(***************************************************************************)
LEMMA RegistryInit == Init => IInv
  <1>. SUFFICES ASSUME Init PROVE IInv
    OBVIOUS
  <1>1. TypeOK
    <2>1. bindings \in Seq(Bindings)
      BY DEF Init
    <2>2. QED
      BY <2>1, BoundsAssumption DEF Init, TypeOK
  <1>2. OwnNames /\ BoundOnce /\ ReportedBound
    BY DEF Init, OwnNames, BoundOnce, ReportedBound
  <1>3. QED
    BY <1>1, <1>2 DEF IInv

(***************************************************************************)
(* The inductive invariant of the registry.                                *)
(***************************************************************************)
LEMMA RegistryInvariant == Spec => []IInv
  <1>1. IInv /\ [Next]_vars => IInv'
    BY TypeStep, NamesStep DEF IInv
  <1>2. QED
    BY <1>1, RegistryInit, PTL DEF Spec

(***************************************************************************)
(* Type correctness of the binding list and of the calls in progress.      *)
(***************************************************************************)
THEOREM RegistryTypes == Spec => []TypeOK
  <1>1. IInv => TypeOK
    BY DEF IInv
  <1>2. QED
    BY <1>1, RegistryInvariant, PTL

(***************************************************************************)
(* A name that only one table can claim is bound at most once by the three *)
(* calls, and HandleODataRequest serves under it the table that every row  *)
(* returned for it names.                                                  *)
(***************************************************************************)
THEOREM RegistryNames == Spec => []UnambiguousNamesServed
  <1>1. IInv => UnambiguousNamesServed
    <2>. SUFFICES ASSUME IInv PROVE UnambiguousNamesServed
      OBVIOUS
    <2>1. ASSUME NEW r \in reported, ~Ambiguous(r.name)
          PROVE  Named(r.name) # {} /\ Served(r.name).target = r.target
      <3>1. Named(r.name) # {} /\ Named(r.name) \in SUBSET Nat
        BY DEF IInv, ReportedBound, Named, TypeOK
      <3>. DEFINE k == Min(Named(r.name))
      <3>2. k \in Named(r.name)
        BY <3>1, MinIsElement
      <3>. HIDE DEF k
      <3>3. /\ bindings[k].target \in Universe /\ r.target \in Universe
            /\ r.name \in NamesOf(bindings[k].target) /\ r.name \in NamesOf(r.target)
        <4>1. k \in DOMAIN bindings /\ bindings[k].name = r.name
          BY <3>2 DEF Named
        <4>2. bindings[k] \in Bindings /\ r \in [name: Names, target: Universe]
          BY <4>1 DEF IInv, TypeOK
        <4>3. bindings[k].target \in Universe /\ r.target \in Universe
          BY <4>2 DEF Bindings
        <4>4. QED
          BY <4>1, <4>3 DEF IInv, OwnNames
      <3>4. bindings[k].target = r.target
        BY <2>1, <3>3 DEF Ambiguous
      <3>5. QED
        BY <3>1, <3>4 DEF Served, k
    <2>2. QED
      BY <2>1 DEF UnambiguousNamesServed, IInv, BoundOnce
  <1>2. QED
    BY <1>1, RegistryInvariant, PTL

-----------------------------------------------------------------------------
(* What a served name shows.                                               *)

(***************************************************************************)
(* Storing a binding leaves what other names serve alone.                  *)
(***************************************************************************)
LEMMA StoreKeepsOthers ==
    ASSUME TypeOK, NEW b \in Bindings, NEW places \in SUBSET SameName(b),
           bindings' = Store(places, b), NEW n, n # b.name, Named(n) # {}
    PROVE  Served(n)' = Served(n)
  <1>1. /\ DOMAIN bindings \subseteq DOMAIN bindings'
        /\ \A i \in DOMAIN bindings : bindings'[i].name = bindings[i].name
        /\ \A i \in DOMAIN bindings' :
              bindings'[i] = b \/ (i \in DOMAIN bindings /\ bindings'[i] = bindings[i])
    <2>1. bindings \in Seq(Bindings)
      BY DEF TypeOK
    <2>2. QED
      BY <2>1, StoreFacts
  <1>2. Named(n)' = Named(n)
    BY <1>1 DEF Named
  <1>. DEFINE k == Min(Named(n))
  <1>3. k \in Named(n)
    <2>1. Named(n) \in SUBSET Nat
      BY DEF Named, TypeOK
    <2>2. QED
      BY <2>1, MinIsElement
  <1>4. Served(n) = bindings[k] /\ Served(n)' = bindings'[k]
    BY <1>2 DEF Served
  <1>. HIDE DEF k
  <1>5. bindings'[k] = bindings[k]
    BY <1>1, <1>3 DEF Named
  <1>6. QED
    BY <1>4, <1>5

(***************************************************************************)
(* odata_entity changes at most the key of what a bound name serves.       *)
(***************************************************************************)
LEMMA EntityKeepsPolicy ==
    ASSUME TypeOK, NEW s \in Sessions, EntityStore(s), NEW n, Named(n) # {}
    PROVE  Served(n)'.target = Served(n).target /\ Served(n)'.columns = Served(n).columns
  <1>1. PICK b \in binding[s] :
            bindings' = Store(SameName(b),
                              IF SameName(b) = {} THEN b
                              ELSE [bindings[Min(SameName(b))] EXCEPT !.key = b.key])
    BY DEF EntityStore
  <1>2. b \in Bindings
    BY DEF TypeOK
  <1>3. CASE SameName(b) = {}
    <2>1. n # b.name
      BY <1>3 DEF SameName, Named
    <2>2. QED
      BY <1>1, <1>2, <1>3, <2>1, StoreKeepsOthers
  <1>4. CASE SameName(b) # {}
    <2>. DEFINE k == Min(SameName(b))
                d == [bindings[k] EXCEPT !.key = b.key]
    <2>1. k \in DOMAIN bindings /\ bindings[k].name = b.name /\ k \in SameName(b)
      <3>1. SameName(b) \in SUBSET Nat
        BY DEF SameName, TypeOK
      <3>2. k \in SameName(b)
        BY <1>4, <3>1, MinIsElement
      <3>3. QED
        BY <3>2 DEF SameName
    <2>2. bindings[k] \in Bindings /\ bindings \in Seq(Bindings)
      BY <2>1 DEF TypeOK
    <2>3. /\ d \in Bindings /\ d.name = b.name
          /\ d.target = bindings[k].target /\ d.columns = bindings[k].columns
      BY <1>2, <2>1, <2>2 DEF Bindings
    <2>4. bindings' = Store(SameName(b), d) /\ SameName(b) = SameName(d)
      BY <1>1, <1>4, <2>3 DEF SameName
    <2>5. bindings' = [bindings EXCEPT ![k] = d]
      BY <1>4, <2>4 DEF Store
    <2>6. CASE n # b.name
      <3>. HIDE DEF d
      <3>1. QED
        BY <2>3, <2>4, <2>6, StoreKeepsOthers
    <2>7. CASE n = b.name
      <3>1. Named(n) = SameName(b)
        BY <2>7 DEF Named, SameName
      <3>2. Named(n)' = Named(n)
        <4>. HIDE DEF d, k
        <4>1. QED
          BY <2>1, <2>2, <2>3, <2>5 DEF Named
      <3>3. Served(n) = bindings[k] /\ Served(n)' = bindings'[k]
        BY <3>1, <3>2 DEF Served
      <3>. HIDE DEF d, k
      <3>4. QED
        BY <2>1, <2>2, <2>3, <2>5, <3>3
    <2>8. QED
      BY <2>6, <2>7
  <1>5. QED
    BY <1>3, <1>4

(***************************************************************************)
(* The table and the column policy that a name serves change only when     *)
(* odata_expose or odata_expose_schema stores a binding of that very name, *)
(* never by odata_entity, an exposure of another name, or any other step.  *)
(***************************************************************************)
THEOREM RegistryPolicies == Spec => OnlyExposureChangesPolicy
  <1>. DEFINE Exposed(n) ==
                \E s \in Sessions :
                   \/ ExposeStore(s) /\ \E b \in binding[s] : b.name = n
                   \/ \E t \in todo[s] : SchemaStore(s, t) /\ SchemaEntityName(t) = n
              Changed(n) == \/ Served(n)'.target # Served(n).target
                            \/ Served(n)'.columns # Served(n).columns
              Step ==
                \A n \in Names :
                   /\ Named(n) # {}
                   /\ \/ Served(n)'.target # Served(n).target
                      \/ Served(n)'.columns # Served(n).columns
                   => \E s \in Sessions :
                        \/ ExposeStore(s) /\ \E b \in binding[s] : b.name = n
                        \/ \E t \in todo[s] : SchemaStore(s, t) /\ SchemaEntityName(t) = n
  <1>1. ASSUME TypeOK, Next PROVE Step
    <2>. SUFFICES ASSUME NEW n \in Names, Named(n) # {}, Changed(n) PROVE Exposed(n)
      OBVIOUS
    <2>1. ASSUME bindings' = bindings PROVE FALSE
      <3>1. Served(n)' = Served(n)
        BY <2>1 DEF Served, Named
      <3>2. QED
        BY <3>1
    <2>2. ASSUME NEW s \in Sessions, ExposeStore(s) PROVE Exposed(n)
      <3>1. PICK b \in binding[s] : bindings' = Store(SameName(b), b)
        BY <2>2 DEF ExposeStore
      <3>2. b \in Bindings
        BY <1>1 DEF TypeOK
      <3>3. b.name = n
        <4>1. SUFFICES ASSUME b.name # n PROVE FALSE
          OBVIOUS
        <4>2. Served(n)' = Served(n)
          BY <1>1, <3>1, <3>2, <4>1, StoreKeepsOthers
        <4>3. QED
          BY <4>2
      <3>4. QED
        BY <2>2, <3>3
    <2>3. ASSUME NEW s \in Sessions, EntityStore(s) PROVE FALSE
      BY <1>1, <2>3, EntityKeepsPolicy
    <2>4. ASSUME NEW s \in Sessions, NEW t \in Universe, SchemaStore(s, t) PROVE Exposed(n)
      <3>. DEFINE b == [name |-> SchemaEntityName(t), target |-> t,
                        columns |-> AllColumns, key |-> NoKey]
      <3>1. b \in Bindings /\ b.name = SchemaEntityName(t)
        BY SchemaBindingType
      <3>2. bindings' = Store(SameNameAndSchema(b), b) /\ t \in todo[s]
        BY <2>4 DEF SchemaStore
      <3>. HIDE DEF b
      <3>3. SameNameAndSchema(b) \subseteq SameName(b)
        BY DEF SameNameAndSchema
      <3>4. b.name = n
        <4>1. SUFFICES ASSUME b.name # n PROVE FALSE
          OBVIOUS
        <4>2. Served(n)' = Served(n)
          BY <1>1, <3>1, <3>2, <3>3, <4>1, StoreKeepsOthers
        <4>3. QED
          BY <4>2
      <3>5. QED
        BY <2>4, <3>1, <3>2, <3>4
    <2>. HIDE DEF Exposed, Changed
    <2>5. QED
      <3>1. \/ \E s \in Sessions : ExposeStore(s) \/ EntityStore(s)
            \/ \E s \in Sessions, t \in Universe : SchemaStore(s, t)
            \/ bindings' = bindings
        BY <1>1 DEF Next, Resolve, SchemaList, SchemaReturn, CreateOrDrop
      <3>2. QED
        BY <2>1, <2>2, <2>3, <2>4, <3>1
  <1>2. TypeOK /\ [Next]_vars => [Step]_vars
    BY <1>1
  <1>3. QED
    BY <1>2, RegistryTypes, PTL DEF Spec, OnlyExposureChangesPolicy
=============================================================================
