-------------------------- MODULE EntityModelProofs --------------------------
(***************************************************************************)
(* What a request may show and use of a table, for any table, any column   *)
(* policies, and any number of requests and of changes in between.         *)
(***************************************************************************)
EXTENDS EntityModel, SequenceTheorems, TLAPS

\* A request in progress has no answer yet.
PendingInv == pc # "idle" => status = 0

\* What CompileSql has checked and compiled stays true until the statement
\* runs: it speaks of what the request read, not of the table.
CompiledInv ==
    pc = "execute" =>
        /\ Mentioned \subseteq Public
        /\ Public # {} => select_list # {}

IInv == PendingInv /\ CompiledInv /\ ServedWithinPolicy

(* Public is what ApplyColumnPolicy leaves of the properties.              *)
LEMMA PolicyIsPublic == ApplyColumnPolicy(properties, request.binding) = Public
  BY DEF ApplyColumnPolicy, Public

(* Another session's statement changes nothing of the request.             *)
LEMMA OthersKeepRequest ==
  Others => UNCHANGED <<request, pc, properties, key, select_list, answer>>
  BY DEF Others, Expose, AddColumn, DropColumn, RenameColumn, DropTable, CreateTable, Alter

(***************************************************************************)
(* It holds at first: no request is in progress.                           *)
(***************************************************************************)
LEMMA InvInit == Init => IInv
  BY DEF Init, IInv, PendingInv, CompiledInv, ServedWithinPolicy

(* Every step of a request, of another request or of another session       *)
(* preserves the invariant.                                                *)
LEMMA InvNext == IInv /\ [Next]_vars => IInv'
<1> SUFFICES ASSUME IInv, [Next]_vars PROVE IInv'
  OBVIOUS
<1> USE DEF IInv
<1>1. CASE UNCHANGED <<request, pc, properties, key, select_list, answer>>
  BY <1>1 DEF PendingInv, CompiledInv, ServedWithinPolicy, Mentioned, Conditions, Public, answer
<1>2. ASSUME NEW kind \in Kinds, NEW l \in Lookups, Ask(kind, l.select, l.names)
      PROVE  IInv'
  BY <1>2 DEF Ask, PendingInv, CompiledInv, ServedWithinPolicy
<1>3. CASE ReadColumns
  <2>1. status = 0 /\ UNCHANGED request
    BY <1>3 DEF ReadColumns, PendingInv
  <2>2. pc' \in {"idle", "policy", "constraints"}
    BY <1>3 DEF ReadColumns, NotReadable, Answer
  <2>3. pc' = "idle" => status' # 200 \/ request.kind = "metadata"
    BY <1>3 DEF ReadColumns, NotReadable, Answer
  <2>4. pc' # "idle" => status' = 0
    BY <1>3, <2>1 DEF ReadColumns, NotReadable, Answer, answer
  <2> QED
    BY <2>1, <2>2, <2>3, <2>4 DEF PendingInv, CompiledInv, ServedWithinPolicy
<1>4. CASE ReadConstraints
  BY <1>4 DEF ReadConstraints, PendingInv, CompiledInv, ServedWithinPolicy, answer
<1>5. CASE Metadata
  BY <1>5 DEF Metadata, Answer, PendingInv, CompiledInv, ServedWithinPolicy
<1>6. CASE CompileSql
  <2>1. status = 0 /\ UNCHANGED <<request, properties, key>>
    BY <1>6 DEF CompileSql, PendingInv
  <2>2. CASE pc' = "idle" /\ status' = 400
    BY <2>2 DEF PendingInv, CompiledInv, ServedWithinPolicy
  <2>3. CASE /\ pc' = "execute" /\ UNCHANGED answer
             /\ request.select \cup Conditions \subseteq Public
             /\ select_list' = IF request.select = {} THEN Public ELSE request.select
    <3>1. select_list' \subseteq Public /\ (Public # {} => select_list' # {})
      BY <2>3
    <3> QED
      BY <2>1, <2>3, <3>1
         DEF PendingInv, CompiledInv, ServedWithinPolicy, Mentioned, Conditions, Public, answer
  <2> QED
    BY <1>6, <2>2, <2>3, PolicyIsPublic DEF CompileSql, Answer
<1>7. CASE Execute
  <2>1. pc' = "idle" /\ UNCHANGED <<request, properties, key>>
    BY <1>7 DEF Execute, Answer, Fails
  <2>2. status' = 200 /\ Public # {} => served' \subseteq select_list
    BY <1>7 DEF Execute, Answer, Fails, CompiledInv
  <2>3. Mentioned \subseteq Public
    BY <1>7 DEF Execute, CompiledInv
  <2>4. Conditions' = Conditions /\ Public' = Public
    BY <2>1 DEF Conditions, Public
  <2> QED
    BY <2>1, <2>2, <2>3, <2>4 DEF PendingInv, CompiledInv, ServedWithinPolicy, Mentioned
<1> QED
  BY <1>1, <1>2, <1>3, <1>4, <1>5, <1>6, <1>7, OthersKeepRequest DEF Next, Handler, vars

(* docs/security.md: the policy "is applied to metadata, $select, $filter,  *)
(* $orderby and key lookups".  For every table and policy, and whatever    *)
(* other sessions do between the two catalog queries and the statement of  *)
(* HandleODataRequest, rows are chosen and ordered by public columns, and  *)
(* have only public columns as long as the policy left any.                *)
THEOREM ServedColumns == Spec => []ServedWithinPolicy
<1>1. IInv => ServedWithinPolicy
  BY DEF IInv
<1> QED
  BY InvInit, InvNext, <1>1, PTL DEF Spec

-----------------------------------------------------------------------------
(* What $metadata promises.                                                *)

\* BuildEntity succeeds on the table as it is now, and the key it finds.
Readable == columns # <<>> /\ binding.configured_key \in Elements(columns) \cup {NoColumn}

CurrentKey ==
    IF binding.configured_key # NoColumn THEN binding.configured_key
    ELSE IF primary_key \in Elements(columns) THEN primary_key ELSE columns[1]

CurrentPublic == Elements(columns) \cap Allowed(binding)

\* A request during which nothing changed works on the current table, though
\* it read it in two queries.
FreshInv ==
    since = alters /\ pc # "idle" =>
        /\ request.binding = binding
        /\ pc # "columns" => properties = columns /\ Readable
        /\ pc = "constraints" => binding.configured_key = NoColumn
        /\ pc \in {"policy", "execute"} => key = CurrentKey

\* An advertisement that is still good is what would be advertised now.
AdvertisedInv ==
    advertised.at = alters =>
        IF Readable
        THEN /\ advertised.columns = CurrentPublic \ Complex
             /\ advertised.key = IF CurrentKey \in CurrentPublic THEN CurrentKey ELSE NoColumn
        ELSE advertised.columns = {}

\* A read request arrived after the last $metadata was made.
OrderInv == request.kind # "metadata" => advertised.at <= since

\* The metadata document never gets to the statement.
KindInv == pc = "execute" => request.kind # "metadata"

\* ReadConstraints falls back on a first property only where there is one.
FirstPropertyInv == pc = "constraints" => properties # <<>>

AdvInv == TypeOK /\ FirstPropertyInv /\ IInv /\ FreshInv /\ AdvertisedInv /\ OrderInv /\ KindInv /\ AdvertisedIsUsable

(* ALTER TABLE ... DROP COLUMN leaves the other columns in their order.    *)
LEMMA ShorterTable ==
  ASSUME NEW cols \in Seq(Columns), NEW i \in DOMAIN cols
  PROVE  SubSeq(cols, 1, i - 1) \o SubSeq(cols, i + 1, Len(cols)) \in Seq(Columns)
<1>1. i \in 1 .. Len(cols)
  OBVIOUS
<1>2. SubSeq(cols, 1, i - 1) \in Seq(Columns) /\ SubSeq(cols, i + 1, Len(cols)) \in Seq(Columns)
  BY <1>1
<1> QED
  BY <1>2

(***************************************************************************)
(* The types hold at first.                                                *)
(***************************************************************************)
LEMMA TypeInit == Init => TypeOK
  BY EntityAssumption DEF Init, TypeOK, Kinds, NoAdvertisement

(* A statement of another session keeps the types of the catalog.          *)
LEMMA OthersType == TypeOK /\ Others => TypeOK'
<1> SUFFICES ASSUME TypeOK, Others PROVE TypeOK'
  OBVIOUS
<1>1. ASSUME NEW cols \in Seq(Columns), NEW k \in Columns \cup {NoColumn}, Alter(cols, k)
      PROVE  TypeOK'
  BY <1>1, EntityAssumption DEF Alter, TypeOK, answer
<1>2. ASSUME NEW b \in Bindings, Expose(b) PROVE TypeOK'
  BY <1>2, EntityAssumption DEF Expose, TypeOK, answer
<1>3. ASSUME NEW c \in Columns, AddColumn(c) PROVE TypeOK'
  <2>1. Append(columns, c) \in Seq(Columns) /\ primary_key \in Columns \cup {NoColumn}
    BY DEF TypeOK
  <2> QED
    BY <1>1, <1>3, <2>1 DEF AddColumn
<1>4. ASSUME NEW i \in DOMAIN columns, DropColumn(i) PROVE TypeOK'
  <2>1. columns \in Seq(Columns) /\ primary_key \in Columns \cup {NoColumn}
    BY DEF TypeOK
  <2> QED
    BY <1>1, <1>4, <2>1, ShorterTable DEF DropColumn
<1>5. ASSUME NEW c \in Columns, NEW d \in Columns, RenameColumn(c, d) PROVE TypeOK'
  <2>1. /\ [i \in DOMAIN columns |-> IF columns[i] = c THEN d ELSE columns[i]] \in Seq(Columns)
        /\ (IF primary_key = c THEN d ELSE primary_key) \in Columns \cup {NoColumn}
    BY DEF TypeOK
  <2> QED
    BY <1>1, <1>5, <2>1 DEF RenameColumn
<1>6. CASE DropTable
  <2>1. <<>> \in Seq(Columns) /\ NoColumn \in Columns \cup {NoColumn}
    OBVIOUS
  <2> QED
    BY <1>1, <1>6, <2>1 DEF DropTable
<1>7. CASE CreateTable
  BY <1>1, <1>7, EntityAssumption DEF CreateTable
<1> QED
  BY <1>2, <1>3, <1>4, <1>5, <1>6, <1>7 DEF Others

(* The handler's steps keep the types; a request always ends with a status.*)
LEMMA HandlerType == TypeOK /\ FirstPropertyInv /\ Handler => TypeOK'
<1> SUFFICES ASSUME TypeOK, FirstPropertyInv, Handler PROVE TypeOK'
  OBVIOUS
<1>0. Untorn \in -1 .. alters
  BY EntityAssumption DEF TypeOK, Untorn
<1>1. CASE ReadColumns
  <2>1. advertised' \in [columns: SUBSET Columns, key: Columns \cup {NoColumn}, at: -1 .. alters]
    BY <1>0, <1>1 DEF ReadColumns, NotReadable, NoAdvertisement, TypeOK
  <2>2. /\ pc' \in {"idle", "policy", "constraints"} /\ status' \in {0, 200, 400, 404, 413, 500}
        /\ served' \subseteq Columns /\ (pc' = "idle" => status' # 0)
        /\ error' \in {"none", "binder", "query"} /\ (error' # "none" => status' = 500)
    BY <1>1 DEF ReadColumns, NotReadable, Answer, answer, TypeOK
  <2>3. key' \in Columns \cup {NoColumn}
    BY <1>1 DEF ReadColumns, Elements, TypeOK
  <2> QED
    BY <1>1, <2>1, <2>2, <2>3 DEF ReadColumns, TypeOK, catalog
<1>2. CASE ReadConstraints
  <2>1. key' \in Columns \cup {NoColumn}
    BY <1>2 DEF ReadConstraints, FirstPropertyInv, Elements, TypeOK
  <2> QED
    BY <1>2, <2>1 DEF ReadConstraints, TypeOK, catalog, answer
<1>3. CASE Metadata
  BY <1>0, <1>3 DEF Metadata, Answer, ApplyColumnPolicy, Elements, TypeOK, catalog
<1>4. CASE CompileSql
  BY <1>4 DEF CompileSql, Answer, ApplyColumnPolicy, Elements, TypeOK, catalog, answer
<1>5. CASE Execute
  <2>1. /\ pc' = "idle" /\ status' \in {200, 404, 413, 500} /\ served' \subseteq Columns
        /\ error' \in {"none", "binder", "query"} /\ (error' # "none" => status' = 500)
    BY <1>5 DEF Execute, Answer, Fails, Elements, TypeOK
  <2> QED
    BY <1>5, <2>1 DEF Execute, TypeOK, catalog
<1> QED
  BY <1>1, <1>2, <1>3, <1>4, <1>5 DEF Handler

(* Every step keeps the types, and BuildEntity never takes the first of no *)
(* columns.                                                                *)
LEMMA TypeNext ==
  TypeOK /\ FirstPropertyInv /\ [Next]_vars => TypeOK' /\ FirstPropertyInv'
<1> SUFFICES ASSUME TypeOK, FirstPropertyInv, [Next]_vars PROVE TypeOK' /\ FirstPropertyInv'
  OBVIOUS
<1>1. ASSUME NEW kind \in Kinds, NEW l \in Lookups, Ask(kind, l.select, l.names)
      PROVE  TypeOK' /\ FirstPropertyInv'
  <2>1. l.select \subseteq Columns /\ l.names \subseteq Columns
    BY EntityAssumption
  <2>2. FirstPropertyInv'
    BY <1>1 DEF Ask, FirstPropertyInv
  <2> QED
    BY <1>1, <2>1, <2>2, EntityAssumption DEF Ask, TypeOK, catalog
<1>2. CASE Handler
  <2>1. FirstPropertyInv'
    BY <1>2 DEF Handler, ReadColumns, NotReadable, ReadConstraints, Metadata, CompileSql, Execute, Answer,
                Fails, FirstPropertyInv
  <2> QED
    BY <1>2, <2>1, HandlerType
<1>3. CASE Others
  BY <1>3, OthersType, OthersKeepRequest DEF FirstPropertyInv
<1>4. CASE UNCHANGED vars
  BY <1>4 DEF vars, catalog, answer, TypeOK, FirstPropertyInv
<1> QED
  BY <1>1, <1>2, <1>3, <1>4 DEF Next

(* GenerateEdmx and HandleODataRequest keep the model's variables in their *)
(* types for every table, binding and sequence of changes; in particular   *)
(* no handler ends without a status, and the key that BuildEntity falls    *)
(* back on exists.                                                         *)
THEOREM EntityTypes == Spec => []TypeOK
<1>1. Init => FirstPropertyInv
  BY DEF Init, FirstPropertyInv
<1> QED
  BY <1>1, TypeInit, TypeNext, PTL DEF Spec

(* The key that BuildEntity finds is one of the table's columns.           *)
LEMMA CurrentKeyIsColumn == TypeOK /\ Readable => CurrentKey \in Elements(columns) /\ CurrentKey # NoColumn
<1> SUFFICES ASSUME TypeOK, Readable PROVE CurrentKey \in Elements(columns) /\ CurrentKey # NoColumn
  OBVIOUS
<1>1. columns[1] \in Elements(columns) /\ Elements(columns) \subseteq Columns
  BY DEF TypeOK, Readable, Elements
<1> QED
  BY <1>1, EntityAssumption DEF Readable, CurrentKey

(* A change of the table or the binding outdates every advertisement and   *)
(* every request that is being answered.                                   *)
LEMMA OthersOutdate == TypeOK /\ Others => alters' = alters + 1 /\ UNCHANGED <<since, advertised>>
  BY DEF Others, Expose, AddColumn, DropColumn, RenameColumn, DropTable, CreateTable, Alter

(***************************************************************************)
(* The invariant holds at first, when nothing has been advertised.         *)
(***************************************************************************)
LEMMA AdvInit == Init => AdvInv
<1> SUFFICES ASSUME Init PROVE AdvInv
  OBVIOUS
<1>1. TypeOK /\ IInv
  BY TypeInit, InvInit
<1> QED
  BY <1>1 DEF Init, AdvInv, FirstPropertyInv, FreshInv, AdvertisedInv, OrderInv, KindInv, AdvertisedIsUsable,
              NoAdvertisement

(***************************************************************************)
(* Every step preserves it.                                                *)
(***************************************************************************)
LEMMA AdvNext == AdvInv /\ [Next]_vars => AdvInv'
<1> SUFFICES ASSUME AdvInv, [Next]_vars PROVE AdvInv'
  OBVIOUS
<1>0. TypeOK /\ FirstPropertyInv /\ IInv
  BY DEF AdvInv
<1>1. TypeOK' /\ FirstPropertyInv' /\ IInv'
  BY <1>0, TypeNext, InvNext
<1>2. alters \in Nat /\ since \in Int /\ advertised.at \in Int /\ since <= alters /\ advertised.at <= alters
  BY <1>0, EntityAssumption DEF TypeOK
<1> DEFINE Goal == FreshInv' /\ AdvertisedInv' /\ OrderInv' /\ KindInv' /\ AdvertisedIsUsable'
<1>3. CASE Others
  <2>1. UNCHANGED <<request, pc, properties, key, select_list, answer, since, advertised>> /\ alters' = alters + 1
    BY <1>0, <1>3, OthersKeepRequest, OthersOutdate
  <2>2. since' # alters' /\ advertised'.at # alters'
    BY <1>2, <2>1
  <2> QED
    BY <1>1, <2>1, <2>2 DEF AdvInv, FreshInv, AdvertisedInv, OrderInv, KindInv, AdvertisedIsUsable
<1>4. ASSUME NEW kind \in Kinds, NEW l \in Lookups, Ask(kind, l.select, l.names) PROVE Goal
  <2>1. /\ UNCHANGED <<binding, columns, primary_key, alters, advertised>> /\ since' = alters
        /\ pc' = "columns" /\ status' = 0 /\ request'.binding = binding
    BY <1>4 DEF Ask, catalog
  <2>2. FreshInv' /\ KindInv' /\ AdvertisedIsUsable'
    BY <2>1 DEF FreshInv, KindInv, AdvertisedIsUsable
  <2>3. AdvertisedInv'
    BY <2>1 DEF AdvInv, AdvertisedInv, Readable, CurrentKey, CurrentPublic
  <2>4. OrderInv'
    BY <1>2, <2>1 DEF OrderInv
  <2> QED
    BY <2>2, <2>3, <2>4
<1> DEFINE Kept == UNCHANGED <<binding, columns, primary_key, alters, request, since>>
<1>5. Kept => /\ (Readable' <=> Readable) /\ CurrentKey' = CurrentKey /\ CurrentPublic' = CurrentPublic
              /\ UNCHANGED advertised => AdvertisedInv' /\ OrderInv'
  BY DEF AdvInv, Readable, CurrentKey, CurrentPublic, AdvertisedInv, OrderInv
<1>6. request.kind # "metadata" /\ advertised.at = alters => since = alters
  BY <1>2 DEF AdvInv, OrderInv
<1>7. pc # "idle" => status = 0
  BY <1>0 DEF IInv, PendingInv
<1>8. CASE ReadColumns
  <2>1. Kept /\ pc = "columns" /\ properties' = columns
    BY <1>8 DEF ReadColumns, catalog
  <2>2. since = alters => request.binding = binding
    BY <2>1 DEF AdvInv, FreshInv
  <2>3. CASE /\ columns = <<>> \/ request.binding.configured_key \notin Elements(columns) \cup {NoColumn}
             /\ NotReadable
    <3>1. pc' = "idle"
      BY <2>3 DEF NotReadable, Answer
    <3>2. since = alters => ~Readable
      BY <2>2, <2>3 DEF Readable
    <3>3. CASE request.kind = "metadata"
      <4>1. advertised'.columns = {} /\ advertised'.at = Untorn
        BY <2>3, <3>3 DEF NotReadable, NoAdvertisement
      <4>2. AdvertisedInv'
        BY <1>2, <1>5, <2>1, <3>2, <4>1 DEF Untorn, AdvertisedInv
      <4> QED
        BY <1>1, <2>1, <3>1, <3>3, <4>2 DEF AdvInv, FreshInv, OrderInv, KindInv, AdvertisedIsUsable
    <3>4. CASE request.kind # "metadata"
      <4>1. UNCHANGED advertised
        BY <2>3, <3>4 DEF NotReadable
      <4>2. advertised.at = alters => advertised.columns = {}
        BY <1>6, <3>2, <3>4 DEF AdvInv, AdvertisedInv
      <4> QED
        BY <1>1, <1>5, <2>1, <3>1, <4>1, <4>2 DEF AdvInv, FreshInv, KindInv, AdvertisedIsUsable
    <3> QED
      BY <3>3, <3>4
  <2>4. CASE /\ columns # <<>> /\ UNCHANGED <<answer, advertised>>
             /\ \/ /\ request.binding.configured_key \in Elements(columns)
                   /\ key' = request.binding.configured_key /\ pc' = "policy"
                \/ request.binding.configured_key = NoColumn /\ pc' = "constraints"
    <3>1. since = alters /\ pc' = "policy" => Readable /\ key' = CurrentKey
      <4>1. NoColumn \notin Elements(columns)
        BY <1>0, EntityAssumption DEF TypeOK, Elements
      <4> QED
        BY <2>2, <2>4, <4>1 DEF Readable, CurrentKey
    <3>2. since = alters /\ pc' = "constraints" => Readable /\ binding.configured_key = NoColumn
      BY <2>2, <2>4 DEF Readable
    <3>3. FreshInv' /\ KindInv'
      BY <1>5, <2>1, <2>2, <2>4, <3>1, <3>2 DEF FreshInv, KindInv
    <3>4. status' = 0
      BY <1>7, <2>1, <2>4 DEF answer
    <3> QED
      BY <1>1, <1>5, <2>1, <2>4, <3>3, <3>4 DEF AdvInv, AdvertisedIsUsable
  <2> QED
    BY <1>8, <2>3, <2>4 DEF ReadColumns
<1>9. CASE ReadConstraints
  <2>1. Kept /\ pc = "constraints" /\ pc' = "policy" /\ UNCHANGED <<properties, status, advertised>>
    BY <1>9 DEF ReadConstraints, catalog, answer
  <2>2. since = alters => /\ request.binding = binding /\ properties = columns /\ Readable
                          /\ binding.configured_key = NoColumn
    BY <2>1 DEF AdvInv, FreshInv
  <2>3. since = alters => key' = CurrentKey
    BY <1>9, <2>2 DEF ReadConstraints, CurrentKey
  <2> QED
    BY <1>1, <1>5, <1>7, <2>1, <2>2, <2>3 DEF AdvInv, FreshInv, KindInv, AdvertisedIsUsable
<1>10. CASE Metadata
  <2>1. Kept /\ pc = "policy" /\ pc' = "idle" /\ request.kind = "metadata"
    BY <1>10 DEF Metadata, Answer, catalog
  <2>2. since = alters => /\ request.binding = binding /\ properties = columns /\ Readable
                          /\ key = CurrentKey
    BY <2>1 DEF AdvInv, FreshInv
  <2>3. since = alters => Public = CurrentPublic
    BY <2>2 DEF Public, CurrentPublic
  <2>4. advertised' = [columns |-> Public \ Complex,
                       key |-> IF key \in Public THEN key ELSE NoColumn, at |-> Untorn]
    BY <1>10, PolicyIsPublic DEF Metadata
  <2>5. AdvertisedInv'
    BY <1>2, <1>5, <2>1, <2>2, <2>3, <2>4 DEF Untorn, AdvertisedInv
  <2> QED
    BY <1>1, <2>1, <2>5 DEF AdvInv, FreshInv, OrderInv, KindInv, AdvertisedIsUsable
<1>11. CASE CompileSql
  <2>1. Kept /\ pc = "policy" /\ request.kind # "metadata" /\ UNCHANGED <<properties, key, advertised>>
    BY <1>11 DEF CompileSql, catalog
  <2>2. since = alters => /\ request.binding = binding /\ properties = columns /\ Readable
                          /\ key = CurrentKey
    BY <2>1 DEF AdvInv, FreshInv
  <2>3. since = alters => Public = CurrentPublic
    BY <2>2 DEF Public, CurrentPublic
  <2>4. CASE /\ pc' = "idle" /\ status' = 400
             /\ ~(request.select \cup Conditions \subseteq Public)
    <3>1. /\ advertised.at = alters /\ request.select \subseteq advertised.columns
          /\ request.kind = "collection" => request.names \subseteq advertised.columns
          => request.kind = "key" /\ advertised.key = NoColumn
      <4>. SUFFICES ASSUME advertised.at = alters, request.select \subseteq advertised.columns,
                           request.kind = "collection" => request.names \subseteq advertised.columns
                    PROVE  request.kind = "key" /\ advertised.key = NoColumn
        OBVIOUS
      <4>1. /\ advertised.columns \subseteq Public
            /\ advertised.key = IF key \in Public THEN key ELSE NoColumn
        BY <1>6, <2>1, <2>2, <2>3 DEF AdvInv, AdvertisedInv
      <4>2. request.kind = "key"
        BY <1>0, <2>1, <2>4, <4>1 DEF TypeOK, Kinds, Conditions
      <4>. QED
        BY <2>4, <4>1, <4>2 DEF Conditions
    <3> QED
      BY <1>1, <1>5, <2>1, <2>4, <3>1 DEF AdvInv, FreshInv, KindInv, AdvertisedIsUsable
  <2>5. CASE pc' = "execute" /\ UNCHANGED answer
    <3>1. FreshInv'
      BY <1>5, <2>1, <2>2, <2>5 DEF FreshInv
    <3> QED
      BY <1>1, <1>5, <1>7, <2>1, <2>5, <3>1 DEF AdvInv, KindInv, AdvertisedIsUsable, answer
  <2> QED
    BY <1>11, <2>4, <2>5, PolicyIsPublic DEF CompileSql, Answer
<1>12. CASE Execute
  <2>1. /\ Kept /\ pc = "execute" /\ pc' = "idle" /\ request.kind # "metadata"
        /\ UNCHANGED <<properties, key, advertised>>
    BY <1>12 DEF Execute, Answer, Fails, catalog, AdvInv, KindInv
  <2>2. since = alters => /\ request.binding = binding /\ properties = columns /\ Readable
                          /\ key = CurrentKey
    BY <2>1 DEF AdvInv, FreshInv
  <2>3. since = alters => Public = CurrentPublic
    BY <2>2 DEF Public, CurrentPublic
  <2>4. since = alters => columns # <<>> /\ Mentioned \subseteq Elements(columns)
    BY <1>0, <2>1, <2>2, <2>3 DEF IInv, CompiledInv, Mentioned, CurrentPublic, Readable
  <2>5. since = alters => /\ status' # 400 /\ error' # "binder"
                          /\ request.kind = "collection" => status' # 404
    BY <1>12, <2>4 DEF Execute, Answer, Fails, Bound
  <2>6. request.kind = "key" => key \in Public
    BY <1>0, <2>1 DEF IInv, CompiledInv, Mentioned, Conditions
  <2>7. request.kind = "key" /\ advertised.at = alters => advertised.key = key /\ advertised.key # NoColumn
    BY <1>0, <1>6, <2>1, <2>2, <2>3, <2>6, CurrentKeyIsColumn DEF AdvInv, AdvertisedInv
  <2>8. AdvertisedIsUsable'
    BY <1>6, <2>1, <2>5, <2>7 DEF AdvertisedIsUsable
  <2> QED
    BY <1>1, <1>5, <2>1, <2>8 DEF AdvInv, FreshInv, KindInv
<1>13. CASE UNCHANGED vars
  BY <1>1, <1>13 DEF AdvInv, vars, catalog, answer, FreshInv, AdvertisedInv, OrderInv, KindInv, AdvertisedIsUsable,
                     Readable, CurrentKey, CurrentPublic
<1> QED
  BY <1>1, <1>3, <1>4, <1>8, <1>9, <1>10, <1>11, <1>12, <1>13 DEF AdvInv, Next, Handler

(* What GenerateEdmx advertises, the SQL compiler accepts: the two apply   *)
(* the column policy and find the key separately, from separate reads of   *)
(* the catalog.  For every table and policy, as long as nothing changed    *)
(* since $metadata was answered, a request that keeps to the listed        *)
(* properties is not refused, its query knows all of its names, and a key  *)
(* lookup uses the listed key and is refused exactly when none was listed. *)
THEOREM MetadataIsUsable == Spec => []AdvertisedIsUsable
<1>1. AdvInv => AdvertisedIsUsable
  BY DEF AdvInv
<1> QED
  BY <1>1, AdvInit, AdvNext, PTL DEF Spec
=============================================================================
