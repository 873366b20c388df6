----------------------------- MODULE PagingProofs -----------------------------
(***************************************************************************)
(* Proofs about Paging, for any page size, cap, table, query options and   *)
(* any number of rows inserted and deleted during the traversal.           *)
(***************************************************************************)
EXTENDS Paging, FiniteSetTheorems, SequenceTheorems, TLAPS

-----------------------------------------------------------------------------
(* Sequences.                                                              *)

(***************************************************************************)
(* Deleting row i of the table moves every later row one place forward.    *)
(***************************************************************************)
LEMMA RemoveFacts ==
    ASSUME NEW S, NEW t \in Seq(S), NEW i \in DOMAIN t
    PROVE  /\ RemoveAt(t, i) \in Seq(S)
           /\ Len(RemoveAt(t, i)) = Len(t) - 1
           /\ DOMAIN RemoveAt(t, i) = 1 .. Len(t) - 1
           /\ \A j \in 1 .. Len(t) - 1 : RemoveAt(t, i)[j] = IF j < i THEN t[j] ELSE t[j + 1]
  <1>. DEFINE a == SubSeq(t, 1, i - 1)
              b == SubSeq(t, i + 1, Len(t))
  <1>1. i \in Nat /\ 1 <= i /\ i <= Len(t) /\ Len(t) \in Nat
    OBVIOUS
  <1>2. a \in Seq(S) /\ Len(a) = i - 1 /\ \A j \in 1 .. i - 1 : a[j] = t[j]
    BY <1>1
  <1>3. b \in Seq(S) /\ Len(b) = Len(t) - i /\ \A j \in 1 .. Len(t) - i : b[j] = t[i + j]
    BY <1>1
  <1>4. RemoveAt(t, i) = a \o b
    BY DEF RemoveAt
  <1>. HIDE DEF a, b
  <1>5. /\ a \o b \in Seq(S) /\ Len(a \o b) = Len(t) - 1
        /\ \A j \in 1 .. Len(t) - 1 :
              (a \o b)[j] = IF j <= Len(a) THEN a[j] ELSE b[j - Len(a)]
    <2>1. Len(a) + Len(b) = Len(t) - 1
      BY <1>1, <1>2, <1>3
    <2>2. a \in Seq(S) /\ b \in Seq(S)
      BY <1>2, <1>3
    <2>3. /\ a \o b \in Seq(S) /\ Len(a \o b) = Len(a) + Len(b)
          /\ \A j \in 1 .. Len(a) + Len(b) :
                (a \o b)[j] = IF j <= Len(a) THEN a[j] ELSE b[j - Len(a)]
      BY <2>2, ConcatProperties, Zenon
    <2>4. QED
      BY <2>1, <2>3, Zenon
  <1>6. ASSUME NEW j \in 1 .. Len(t) - 1
        PROVE  (a \o b)[j] = IF j < i THEN t[j] ELSE t[j + 1]
    <2>1. CASE j < i
      BY <1>1, <1>2, <1>5, <2>1
    <2>2. CASE ~(j < i)
      <3>1. j - Len(a) \in 1 .. Len(t) - i /\ i + (j - Len(a)) = j + 1
        BY <1>1, <1>2, <2>2
      <3>2. (a \o b)[j] = b[j - Len(a)]
        BY <1>1, <1>2, <1>5, <2>2
      <3>3. b[j - Len(a)] = t[i + (j - Len(a))]
        BY <1>3, <3>1
      <3>4. QED
        BY <2>2, <3>1, <3>2, <3>3
    <2>3. QED
      BY <2>1, <2>2
  <1>7. QED
    BY <1>1, <1>4, <1>5, <1>6

(***************************************************************************)
(* LIMIT and OFFSET select consecutive rows; fewer than the limit only if  *)
(* the table has no more.                                                  *)
(***************************************************************************)
LEMMA SliceFacts ==
    ASSUME NEW S, NEW rows \in Seq(S), NEW offset \in Nat, NEW limit \in Int
    PROVE  /\ Slice(rows, offset, limit) \in Seq(S)
           /\ Len(Slice(rows, offset, limit)) \in Nat
           /\ \A k \in 1 .. Len(Slice(rows, offset, limit)) :
                 /\ offset + k \in DOMAIN rows
                 /\ Slice(rows, offset, limit)[k] = rows[offset + k]
           /\ limit >= 0 /\ Len(Slice(rows, offset, limit)) < limit
                 => Len(rows) <= offset + Len(Slice(rows, offset, limit))
  <1>. DEFINE u == IF limit < 0 \/ offset + limit > Len(rows) THEN Len(rows) ELSE offset + limit
              s == SubSeq(rows, offset + 1, u)
  <1>1. /\ u \in Nat /\ u <= Len(rows) /\ Len(rows) \in Nat
        /\ u = Len(rows) \/ (limit >= 0 /\ u = offset + limit)
    OBVIOUS
  <1>2. Slice(rows, offset, limit) = s
    BY DEF Slice
  <1>. HIDE DEF u
  <1>3. CASE offset + 1 <= u
    <2>0. s \in Seq(S) /\ Len(s) = u - offset
      BY <1>1, <1>3
    <2>1. /\ s \in Seq(S) /\ Len(s) = u - offset
          /\ \A k \in 1 .. u - offset : s[k] = rows[offset + k]
      <3>1. \A k \in 1 .. u - offset : s[k] = rows[offset + k]
        BY <1>1, <1>3
      <3>2. QED
        BY <2>0, <3>1
    <2>. HIDE DEF s
    <2>2. QED
      BY <1>1, <1>2, <1>3, <2>1
  <1>4. CASE ~(offset + 1 <= u)
    <2>1. s = <<>>
      BY <1>1, <1>4
    <2>. HIDE DEF s
    <2>2. s \in Seq(S) /\ Len(s) = 0
      BY <2>1
    <2>3. QED
      BY <1>1, <1>2, <1>4, <2>2
  <1>5. QED
    BY <1>3, <1>4

(***************************************************************************)
(* No page is longer than its LIMIT.                                       *)
(***************************************************************************)
LEMMA SliceBound ==
    ASSUME NEW S, NEW rows \in Seq(S), NEW offset \in Nat, NEW limit \in Nat
    PROVE  Len(Slice(rows, offset, limit)) <= limit
  <1>. DEFINE u == IF limit < 0 \/ offset + limit > Len(rows) THEN Len(rows) ELSE offset + limit
              s == SubSeq(rows, offset + 1, u)
  <1>1. u \in Nat /\ u <= Len(rows) /\ u <= offset + limit
    OBVIOUS
  <1>2. Slice(rows, offset, limit) = s
    BY DEF Slice
  <1>. HIDE DEF u
  <1>3. CASE offset + 1 <= u
    <2>1. Len(s) = u - offset
      BY <1>1, <1>3
    <2>2. QED
      BY <1>1, <1>2, <1>3, <2>1
  <1>4. CASE ~(offset + 1 <= u)
    <2>1. s = <<>>
      BY <1>1, <1>4
    <2>. HIDE DEF s
    <2>2. Len(s) = 0
      BY <2>1
    <2>3. QED
      BY <1>2, <2>2
  <1>5. QED
    BY <1>3, <1>4

\* u has the elements of t and, as the i-th, e.
IsInsert(u, t, i, e) ==
    /\ DOMAIN u = 1 .. Len(t) + 1
    /\ \A j \in 1 .. Len(t) + 1 :
           /\ j < i => u[j] = t[j]
           /\ j = i => u[j] = e
           /\ j > i => u[j] = t[j - 1]

(***************************************************************************)
(* A row inserted as the i-th moves the rows from there on one place back. *)
(***************************************************************************)
LEMMA InsertFacts ==
    ASSUME NEW S, NEW t \in Seq(S), NEW i \in 1 .. Len(t) + 1, NEW e \in S
    PROVE  /\ InsertAt(t, i, e) \in Seq(S)
           /\ IsInsert(InsertAt(t, i, e), t, i, e)
  <1>. DEFINE a == SubSeq(t, 1, i - 1)
              b == SubSeq(t, i, Len(t))
              c == Append(a, e)
  <1>1. i \in Nat /\ 1 <= i /\ i <= Len(t) + 1 /\ Len(t) \in Nat
    OBVIOUS
  <1>2. a \in Seq(S) /\ Len(a) = i - 1 /\ \A j \in 1 .. i - 1 : a[j] = t[j]
    BY <1>1
  <1>3. b \in Seq(S) /\ Len(b) = Len(t) - i + 1 /\ \A j \in 1 .. Len(t) - i + 1 : b[j] = t[i + j - 1]
    BY <1>1
  <1>. HIDE DEF a, b
  <1>4. InsertAt(t, i, e) = (a \o <<e>>) \o b
    BY DEF InsertAt, a, b
  <1>5. a \o <<e>> = c
    BY <1>2
  <1>6. /\ c \in Seq(S) /\ Len(c) = i
        /\ \A j \in 1 .. i : c[j] = IF j = i THEN e ELSE t[j]
    BY <1>1, <1>2
  <1>. HIDE DEF c
  <1>7. /\ c \o b \in Seq(S) /\ Len(c \o b) = Len(t) + 1
        /\ \A j \in 1 .. Len(t) + 1 : (c \o b)[j] = IF j <= i THEN c[j] ELSE b[j - i]
    <2>1. Len(c) + Len(b) = Len(t) + 1
      BY <1>1, <1>3, <1>6
    <2>2. /\ c \o b \in Seq(S) /\ Len(c \o b) = Len(c) + Len(b)
          /\ \A j \in 1 .. Len(c) + Len(b) :
                (c \o b)[j] = IF j <= Len(c) THEN c[j] ELSE b[j - Len(c)]
      BY <1>3, <1>6, ConcatProperties, Zenon
    <2>3. QED
      BY <1>6, <2>1, <2>2, Zenon
  <1>8. ASSUME NEW j \in 1 .. Len(t) + 1
        PROVE  /\ j < i => (c \o b)[j] = t[j]
               /\ j = i => (c \o b)[j] = e
               /\ j > i => (c \o b)[j] = t[j - 1]
    <2>1. CASE j <= i
      BY <1>1, <1>6, <1>7, <2>1
    <2>2. CASE j > i
      <3>1. j - i \in 1 .. Len(t) - i + 1 /\ i + (j - i) - 1 = j - 1
        BY <1>1, <2>2
      <3>2. (c \o b)[j] = b[j - i]
        BY <1>1, <1>7, <2>2
      <3>3. b[j - i] = t[i + (j - i) - 1]
        BY <1>3, <3>1
      <3>4. QED
        BY <1>1, <2>2, <3>1, <3>2, <3>3
    <2>3. j <= i \/ j > i
      BY <1>1
    <2>4. QED
      BY <2>1, <2>2, <2>3, Zenon
  <1>9. DOMAIN (c \o b) = 1 .. Len(t) + 1
    BY <1>7
  <1>10. QED
    BY <1>4, <1>5, <1>7, <1>8, <1>9, Zenon DEF IsInsert

-----------------------------------------------------------------------------
(* Counting.                                                               *)

(***************************************************************************)
(* A union has at most as many elements as its parts.                      *)
(***************************************************************************)
LEMMA UnionBound ==
    ASSUME NEW A, NEW B, NEW C, IsFiniteSet(A), IsFiniteSet(B), C \subseteq A \cup B
    PROVE  IsFiniteSet(C) /\ Cardinality(C) \in Nat /\ Cardinality(C) <= Cardinality(A) + Cardinality(B)
  <1>1. /\ IsFiniteSet(A \cup B)
        /\ Cardinality(A \cup B) = Cardinality(A) + Cardinality(B) - Cardinality(A \cap B)
    BY FS_Union
  <1>2. IsFiniteSet(A \cap B)
    BY FS_Subset
  <1>3. /\ Cardinality(A) \in Nat /\ Cardinality(B) \in Nat /\ Cardinality(A \cap B) \in Nat
        /\ Cardinality(A \cup B) \in Nat
    BY <1>1, <1>2, FS_CardinalityType
  <1>4. IsFiniteSet(C) /\ Cardinality(C) <= Cardinality(A \cup B)
    BY <1>1, FS_Subset
  <1>5. Cardinality(C) \in Nat
    BY <1>4, FS_CardinalityType
  <1>6. QED
    BY <1>1, <1>3, <1>4, <1>5

(***************************************************************************)
(* Rows that are found in n consecutive places are at most n.              *)
(***************************************************************************)
LEMMA PlacesBound ==
    ASSUME NEW t, NEW a \in Int, NEW n \in Nat, NEW X,
           \A x \in X : \E i \in a + 1 .. a + n : t[i] = x
    PROVE  IsFiniteSet(X) /\ Cardinality(X) \in Nat /\ Cardinality(X) <= n
  <1>. DEFINE I == a + 1 .. a + n
              T == {t[i] : i \in I}
              f == [i \in I |-> t[i]]
  <1>1. IsFiniteSet(I) /\ Cardinality(I) = n
    <2>1. IsFiniteSet(I) /\ Cardinality(I) = IF a + 1 > a + n THEN 0 ELSE (a + n) - (a + 1) + 1
      BY FS_Interval
    <2>2. QED
      BY <2>1
  <1>. HIDE DEF I
  <1>2. f \in Surjection(I, T)
    BY DEF Surjection
  <1>3. X \subseteq T
    BY DEF I
  <1>. HIDE DEF f, T
  <1>4. IsFiniteSet(T) /\ Cardinality(T) <= Cardinality(I)
    BY <1>1, <1>2, FS_Surjection
  <1>5. IsFiniteSet(X) /\ Cardinality(X) <= Cardinality(T)
    BY <1>3, <1>4, FS_Subset
  <1>6. Cardinality(X) \in Nat /\ Cardinality(T) \in Nat
    BY <1>4, <1>5, FS_CardinalityType
  <1>7. QED
    BY <1>1, <1>4, <1>5, <1>6

(***************************************************************************)
(* The places of repeated rows can be counted.                             *)
(***************************************************************************)
LEMMA RepeatsFinite ==
    ASSUME NEW S, NEW s \in Seq(S)
    PROVE  IsFiniteSet(Repeats(s)) /\ Cardinality(Repeats(s)) \in Nat
  <1>1. IsFiniteSet(1 .. Len(s))
    BY FS_Interval
  <1>2. Repeats(s) \subseteq 1 .. Len(s)
    BY DEF Repeats
  <1>3. QED
    BY <1>1, <1>2, FS_Subset, FS_CardinalityType

-----------------------------------------------------------------------------
(* The inductive invariant.                                                *)

\* The number of rows of the result that the traversal considers done with.
ReadUpTo == IF PageRead THEN CurrentSkip + Len(page) ELSE CurrentSkip

Active == pc \in {"request", "count", "rows", "more", "reply"}

\* Rows are in order, and those there from the start are there or were deleted.
TableInv ==
    /\ \A i, j \in DOMAIN table : i < j => table[i] < table[j]
    /\ \A i \in DOMAIN table : table[i] \notin deleted
    /\ \A r \in Original : r \in deleted \/ \E i \in DOMAIN table : table[i] = r

\* Rows read for the client are in the table or were deleted.
GivenInv == \A k \in DOMAIN Given : Given[k] \in deleted \/ \E i \in DOMAIN table : table[i] = Given[k]

\* Rows come in out of turn only with $orderby or $filter, and a count is old
\* only where there is one.
CounterInv ==
    /\ ~shaped => behind = 0 /\ late = 0
    /\ ~count_option => pc # "count" /\ response_count = -1 /\ late = 0

\* Insertions that have not led to a repeated row yet.
Pending == behind - Cardinality(Repeats(Given))

\* Rows still to be read come after everything read, but for as many as
\* insertions have moved there.
RepeatInv ==
    /\ Pending >= 0
    /\ Active => \A k \in DOMAIN Given, i \in DOMAIN table : i > ReadUpTo + Pending => Given[k] < table[i]

\* Rows there from the start that have not been read, and those among them
\* that deletions have moved to the part done with.
Unread == {r \in Original : r \notin deleted /\ \A k \in DOMAIN Given : Given[k] # r}
Lost == {r \in Unread : \E i \in DOMAIN table : i <= ReadUpTo /\ table[i] = r}

LostInv == Active => Cardinality(Lost) <= Cardinality(deleted)

\* All the rows that were there at the start are among the first n.
Within(n) == \A i \in DOMAIN table : table[i] \in Original => i <= n

\* A count taken before rows were inserted and deleted covers all but as many
\* as were inserted in front.
CountInv == pc \in {"rows", "more"} /\ response_count >= 0 => Within(response_count + late)

\* A page without a next link is the last one.
LastPageInv ==
    pc \in {"reply", "done"} /\ (pc = "done" \/ ~has_more) /\ ServerPaged /\ ~CutByCap
        => Cardinality(Unread) <= Cardinality(deleted) + late

IInv ==
    /\ TypeOK
    /\ TableInv
    /\ GivenInv
    /\ CounterInv
    /\ RepeatInv
    /\ LostInv
    /\ CountInv
    /\ LastPageInv

-----------------------------------------------------------------------------
(* Type correctness.                                                       *)

(***************************************************************************)
(* The last $skip is a number, and so is the number of rows done with.     *)
(***************************************************************************)
LEMMA PositionTypes ==
    ASSUME TypeOK
    PROVE  /\ CurrentSkip \in Nat /\ Len(page) \in Nat /\ Len(table) \in Nat
           /\ Given \in Seq(Rows) /\ ReadUpTo \in Nat
           /\ page_size \in Nat /\ max_top \in Int /\ top \in Int
           /\ IsFiniteSet(deleted) /\ Cardinality(deleted) \in Nat
  <1>1. CurrentSkip \in Nat
    <2>1. CASE skips = <<>>
      BY <2>1 DEF CurrentSkip
    <2>2. CASE skips # <<>>
      <3>1. Len(skips) \in DOMAIN skips
        BY <2>2 DEF TypeOK
      <3>2. QED
        BY <2>2, <3>1 DEF CurrentSkip, Last, TypeOK
    <2>3. QED
      BY <2>1, <2>2
  <1>2. Len(page) \in Nat /\ Len(table) \in Nat /\ Given \in Seq(Rows)
    BY ConcatProperties DEF TypeOK, Given
  <1>3. ReadUpTo \in Nat
    BY <1>1, <1>2 DEF ReadUpTo
  <1>4. page_size \in Nat /\ max_top \in Int /\ top \in Int
    BY SettingsAssumption, OptionsAssumption DEF TypeOK
  <1>5. IsFiniteSet(Rows)
    BY RowsAssumption
  <1>6. IsFiniteSet(deleted) /\ Cardinality(deleted) \in Nat
    BY <1>5, FS_Subset, FS_CardinalityType DEF TypeOK
  <1>7. QED
    BY <1>1, <1>2, <1>3, <1>4, <1>6

(***************************************************************************)
(* The table when the traversal starts.                                    *)
(***************************************************************************)
LEMMA TypeInit == Init => TypeOK
  <1>. SUFFICES ASSUME Init PROVE TypeOK
    OBVIOUS
  <1>1. table \in Seq(Rows)
    BY RowsAssumption DEF Init
  <1>2. <<page_size, max_top>> \in Settings
    BY SettingsAssumption DEF Init
  <1>3. skips \in Seq(Nat) /\ skip_option \in Nat
    <2>1. PICK n \in Skips : IF n = -1 THEN skips = <<>> /\ skip_option = 0
                                       ELSE skips = <<n>> /\ skip_option = n
      BY DEF Init
    <2>2. CASE n = -1
      BY <2>1, <2>2
    <2>3. CASE n # -1
      <3>1. n \in Nat
        BY <2>3, OptionsAssumption
      <3>2. <<n>> \in Seq(Nat)
        BY <3>1
      <3>3. QED
        BY <2>1, <2>3, <3>1, <3>2
    <2>4. QED
      BY <2>2, <2>3
  <1>4. page \in Seq(Rows) /\ collected \in Seq(Rows)
    BY DEF Init
  <1>5. QED
    <2>1. /\ inserts \in 0 .. MaxInserts /\ deleted \subseteq Rows /\ pc \in Steps
          /\ response_count \in Nat \cup {-1} /\ behind \in 0 .. inserts /\ late \in 0 .. inserts
      BY BoundsAssumption DEF Init, Steps
    <2>2. top \in Tops /\ count_option \in BOOLEAN /\ shaped \in BOOLEAN /\ has_more \in BOOLEAN
      BY DEF Init
    <2>3. QED
      BY <1>1, <1>2, <1>3, <1>4, <2>1, <2>2 DEF TypeOK

(***************************************************************************)
(* Every step of the page requests and of the other sessions.              *)
(***************************************************************************)
LEMMA TypeStep == TypeOK /\ [Next]_vars => TypeOK'
  <1>. SUFFICES ASSUME TypeOK, [Next]_vars PROVE TypeOK'
    OBVIOUS
  <1>. USE DEF tableVars, settings
  <1>1. CASE UNCHANGED vars
    BY <1>1 DEF vars, TypeOK
  <1>2. CASE ParseOptions
    BY <1>2 DEF ParseOptions, TypeOK, Steps
  <1>3. CASE CountQuery
    BY <1>3 DEF CountQuery, TypeOK, Steps
  <1>4. CASE RowsQuery
    <2>1. Limit(QueryTop, max_top) \in Int
      BY PositionTypes DEF Limit, QueryTop
    <2>2. Slice(table, CurrentSkip, Limit(QueryTop, max_top)) \in Seq(Rows)
      BY <2>1, PositionTypes, SliceFacts DEF TypeOK
    <2>3. QED
      BY <1>4, <2>2 DEF RowsQuery, TypeOK, Steps
  <1>5. CASE MoreQuery
    <2>1. has_more' \in BOOLEAN
      BY <1>5 DEF MoreQuery
    <2>2. QED
      BY <1>5, <2>1 DEF MoreQuery, TypeOK, Steps
  <1>6. CASE Reply
    <2>1. CurrentSkip + Len(page) \in Nat
      BY PositionTypes
    <2>2. skips' \in Seq(Nat)
      BY <1>6, <2>1 DEF Reply, NextLink, TypeOK
    <2>3. collected' \in Seq(Rows)
      BY <1>6, ConcatProperties DEF Reply, TypeOK
    <2>4. QED
      BY <1>6, <2>2, <2>3 DEF Reply, TypeOK, Steps
  <1>7. CASE PageFails
    BY <1>7 DEF PageFails, TypeOK, Steps
  <1>8. ASSUME NEW i \in 1 .. Len(table) + 1, NEW r \in Rows, InsertRow(i, r) PROVE TypeOK'
    <2>1. table' \in Seq(Rows)
      BY <1>8, InsertFacts DEF InsertRow, TypeOK
    <2>2. /\ inserts' \in 0 .. MaxInserts /\ behind' \in 0 .. inserts' /\ late' \in 0 .. inserts'
      BY <1>8, BoundsAssumption DEF InsertRow, TypeOK
    <2>3. QED
      BY <1>8, <2>1, <2>2 DEF InsertRow, TypeOK
  <1>9. ASSUME NEW i \in DOMAIN table, DeleteRow(i) PROVE TypeOK'
    <2>1. table' \in Seq(Rows)
      BY <1>9, RemoveFacts DEF DeleteRow, TypeOK
    <2>2. table[i] \in Rows
      BY DEF TypeOK
    <2>3. QED
      BY <1>9, <2>1, <2>2 DEF DeleteRow, TypeOK
  <1>10. QED
    BY <1>1, <1>2, <1>3, <1>4, <1>5, <1>6, <1>7, <1>8, <1>9 DEF Next, PageStep

-----------------------------------------------------------------------------
(* The rows read, lost and still to be read.                               *)

(***************************************************************************)
(* A set of rows can be counted, and a smaller set is not larger.          *)
(***************************************************************************)
LEMMA RowsCounted ==
    ASSUME NEW X, NEW Y, Y \subseteq X, X \subseteq Rows
    PROVE  /\ IsFiniteSet(X) /\ Cardinality(X) \in Nat
           /\ IsFiniteSet(Y) /\ Cardinality(Y) \in Nat /\ Cardinality(Y) <= Cardinality(X)
  <1>1. IsFiniteSet(X)
    BY RowsAssumption, FS_Subset
  <1>2. IsFiniteSet(Y) /\ Cardinality(Y) <= Cardinality(X)
    BY <1>1, FS_Subset
  <1>3. QED
    BY <1>1, <1>2, FS_CardinalityType

(***************************************************************************)
(* Rows there from the start, whether unread or lost, can be counted.      *)
(***************************************************************************)
LEMMA UnreadFinite ==
    /\ Original \subseteq Rows
    /\ IsFiniteSet(Unread) /\ Cardinality(Unread) \in Nat
    /\ IsFiniteSet(Lost) /\ Cardinality(Lost) \in Nat
  <1>1. Original \subseteq Rows
    BY RowsAssumption DEF Original
  <1>2. Unread \subseteq Rows /\ Lost \subseteq Rows
    BY <1>1 DEF Unread, Lost
  <1>3. QED
    BY <1>1, <1>2, RowsAssumption, FS_Subset, FS_CardinalityType

(***************************************************************************)
(* What the counters and the rows are, once and for all.                   *)
(***************************************************************************)
LEMMA CounterTypes ==
    ASSUME TypeOK
    PROVE  /\ behind \in Nat /\ late \in Nat /\ response_count \in Int /\ inserts \in Nat
           /\ IsFiniteSet(Repeats(Given)) /\ Cardinality(Repeats(Given)) \in Nat
           /\ Pending \in Int
           /\ Len(table) \in Nat /\ DOMAIN table = 1 .. Len(table)
           /\ \A i \in DOMAIN table : table[i] \in Rows /\ table[i] \in Int
           /\ \A k \in DOMAIN Given : Given[k] \in Rows /\ Given[k] \in Int
  <1>1. behind \in Nat /\ late \in Nat /\ response_count \in Int /\ inserts \in Nat
    BY DEF TypeOK
  <1>2. IsFiniteSet(Repeats(Given)) /\ Cardinality(Repeats(Given)) \in Nat
    BY PositionTypes, RepeatsFinite
  <1>3. Pending \in Int
    BY <1>1, <1>2 DEF Pending
  <1>4. ASSUME NEW s \in Seq(Rows)
        PROVE  /\ Len(s) \in Nat /\ DOMAIN s = 1 .. Len(s)
               /\ \A k \in DOMAIN s : s[k] \in Rows /\ s[k] \in Int
    <2>1. Len(s) \in Nat /\ DOMAIN s = 1 .. Len(s) /\ \A k \in DOMAIN s : s[k] \in Rows
      OBVIOUS
    <2>2. Rows \subseteq Int
      BY RowsAssumption, Zenon
    <2>3. QED
      BY <2>1, <2>2, Zenon
  <1>5. table \in Seq(Rows) /\ Given \in Seq(Rows)
    BY PositionTypes DEF TypeOK
  <1>6. QED
    BY <1>1, <1>2, <1>3, <1>4, <1>5, Zenon

(***************************************************************************)
(* Initially nothing is read, and the rows before the client's $skip are   *)
(* not missed.                                                             *)
(***************************************************************************)
LEMMA PagingInit == Init => IInv
  <1>. SUFFICES ASSUME Init PROVE IInv
    OBVIOUS
  <1>1. TypeOK
    BY TypeInit
  <1>2. /\ table = InitialTable /\ deleted = {} /\ behind = 0 /\ late = 0
        /\ pc = "request" /\ response_count = -1
    BY DEF Init
  <1>3. TableInv
    BY <1>2, RowsAssumption DEF TableInv, Original
  <1>4. Given = <<>> /\ DOMAIN Given = {}
    BY DEF Init, Given, PageRead
  <1>5. GivenInv
    BY <1>4 DEF GivenInv
  <1>6. CounterInv
    BY <1>2 DEF CounterInv
  <1>7. RepeatInv
    <2>1. Repeats(Given) = {}
      BY <1>4 DEF Repeats
    <2>2. Pending = 0
      BY <1>2, <2>1, FS_EmptySet DEF Pending
    <2>3. QED
      BY <1>4, <2>2 DEF RepeatInv
  <1>8. ReadUpTo = skip_option
    <2>1. PICK n \in Skips : IF n = -1 THEN skips = <<>> /\ skip_option = 0
                                       ELSE skips = <<n>> /\ skip_option = n
      BY DEF Init
    <2>2. CASE n = -1
      BY <2>1, <2>2 DEF Init, ReadUpTo, PageRead, CurrentSkip
    <2>3. CASE n # -1
      <3>1. skips = <<n>> /\ skip_option = n
        BY <2>1, <2>3
      <3>2. skips # <<>> /\ Last(skips) = n
        BY <3>1 DEF Last
      <3>3. QED
        BY <3>1, <3>2 DEF Init, ReadUpTo, PageRead, CurrentSkip
    <2>4. QED
      BY <2>2, <2>3
  <1>9. LostInv
    <2>1. \A i, j \in DOMAIN table : table[i] = table[j] => i = j
      <3>1. DOMAIN table \subseteq Int /\ \A i \in DOMAIN table : table[i] \in Int
        BY <1>1, CounterTypes
      <3>2. QED
        BY <1>3, <3>1 DEF TableInv
    <2>2. skip_option \in Nat /\ DOMAIN table \subseteq Int
      BY <1>1, CounterTypes DEF TypeOK
    <2>3. Lost = {}
      <3>. SUFFICES ASSUME NEW r \in Lost PROVE FALSE
        OBVIOUS
      <3>1. PICK k \in DOMAIN InitialTable : k > skip_option /\ r = InitialTable[k]
        BY DEF Lost, Unread, Original
      <3>2. PICK i \in DOMAIN table : i <= skip_option /\ table[i] = r
        BY <1>8 DEF Lost
      <3>3. i = k
        BY <1>2, <2>1, <3>1, <3>2
      <3>4. QED
        BY <2>2, <3>1, <3>2, <3>3
    <2>4. Cardinality(Lost) = 0 /\ Cardinality(deleted) = 0
      BY <1>2, <2>3, FS_EmptySet
    <2>5. QED
      BY <2>4 DEF LostInv
  <1>10. CountInv /\ LastPageInv
    BY <1>2 DEF CountInv, LastPageInv
  <1>11. QED
    BY <1>1, <1>3, <1>5, <1>6, <1>7, <1>9, <1>10 DEF IInv

(***************************************************************************)
(* A step of a page request that reads no rows leaves them alone.          *)
(***************************************************************************)
LEMMA QuietStep ==
    ASSUME IInv, UNCHANGED <<tableVars, settings>>, Given' = Given,
           Active' => Active /\ ReadUpTo' = ReadUpTo
    PROVE  /\ TableInv' /\ GivenInv' /\ RepeatInv' /\ LostInv'
           /\ Unread' = Unread
  <1>. USE DEF tableVars, settings
  <1>0. Original' = Original
    BY DEF Original
  <1>1. TableInv'
    BY <1>0 DEF IInv, TableInv
  <1>2. GivenInv'
    BY DEF IInv, GivenInv
  <1>3. RepeatInv'
    <2>1. Pending' = Pending
      BY DEF Pending, Repeats
    <2>2. QED
      BY <2>1 DEF IInv, RepeatInv
  <1>4. Unread' = Unread
    BY <1>0 DEF Unread
  <1>5. LostInv'
    <2>. SUFFICES ASSUME Active' PROVE Cardinality(Lost)' <= Cardinality(deleted)'
      BY DEF LostInv
    <2>1. Lost' = Lost
      BY <1>4 DEF Lost
    <2>2. QED
      BY <2>1 DEF IInv, LostInv
  <1>6. QED
    BY <1>1, <1>2, <1>3, <1>4, <1>5

(***************************************************************************)
(* What the client has received comes first in what was read.              *)
(***************************************************************************)
LEMMA CollectedFirst ==
    ASSUME TypeOK
    PROVE  /\ \A k \in DOMAIN collected : k \in DOMAIN Given /\ Given[k] = collected[k]
           /\ Repeats(collected) \subseteq Repeats(Given)
           /\ Cardinality(Repeats(collected)) \in Nat
           /\ Cardinality(Repeats(collected)) <= Cardinality(Repeats(Given))
  <1>1. collected \in Seq(Rows) /\ page \in Seq(Rows)
    BY DEF TypeOK
  <1>2. \A k \in DOMAIN collected : k \in DOMAIN Given /\ Given[k] = collected[k]
    <2>1. CASE ~PageRead
      BY <2>1 DEF Given
    <2>2. CASE PageRead
      <3>1. /\ Len(collected \o page) = Len(collected) + Len(page)
            /\ \A k \in 1 .. Len(collected) + Len(page) :
                (collected \o page)[k] =
                    IF k <= Len(collected) THEN collected[k] ELSE page[k - Len(collected)]
            /\ collected \o page \in Seq(Rows)
        BY <1>1, ConcatProperties, Zenon
      <3>2. Given = collected \o page
        BY <2>2 DEF Given
      <3>3. DOMAIN Given = 1 .. Len(collected) + Len(page)
        BY <3>1, <3>2
      <3>4. \A k \in DOMAIN collected : k \in 1 .. Len(collected) + Len(page) /\ k <= Len(collected)
        BY <1>1
      <3>5. QED
        BY <3>1, <3>2, <3>3, <3>4
    <2>3. QED
      BY <2>1, <2>2
  <1>3. Repeats(collected) \subseteq Repeats(Given)
    BY <1>2 DEF Repeats
  <1>4. IsFiniteSet(Repeats(Given))
    BY CounterTypes
  <1>5. IsFiniteSet(Repeats(collected)) /\ Cardinality(Repeats(collected)) <= Cardinality(Repeats(Given))
    BY <1>3, <1>4, FS_Subset
  <1>6. Cardinality(Repeats(collected)) \in Nat
    BY <1>5, FS_CardinalityType
  <1>7. QED
    BY <1>2, <1>3, <1>5, <1>6

(***************************************************************************)
(* A rows query reads the rows that follow those done with.  Of these only *)
(* as many as there are pending insertions can have been read before, and  *)
(* each of them uses up one.                                               *)
(***************************************************************************)
LEMMA RowsStep ==
    ASSUME IInv, RowsQuery
    PROVE  IInv'
  <1>. USE DEF tableVars, settings
  <1>0. TypeOK /\ TypeOK'
    BY TypeStep DEF IInv, Next, PageStep
  <1>. DEFINE c == CurrentSkip
              n == Len(page')
              m == Len(collected)
              e == Pending
  <1>1. /\ c \in Nat /\ n \in Nat /\ Len(table) \in Nat /\ collected \in Seq(Rows)
        /\ page' \in Seq(Rows) /\ table \in Seq(Rows)
    BY <1>0, PositionTypes DEF TypeOK
  <1>2. Limit(QueryTop, max_top) \in Int
    BY <1>0, PositionTypes DEF Limit, QueryTop
  <1>3. /\ \A k \in 1 .. n : c + k \in DOMAIN table /\ page'[k] = table[c + k]
        /\ Limit(QueryTop, max_top) >= 0 /\ n < Limit(QueryTop, max_top) => Len(table) <= c + n
    BY <1>1, <1>2, SliceFacts DEF RowsQuery
  <1>4. /\ UNCHANGED <<table, inserts, deleted, behind, late, skips, response_count, collected, settings>>
        /\ pc = "rows" /\ pc' \in {"more", "reply"}
    BY DEF RowsQuery
  <1>5. /\ Given = collected /\ ReadUpTo = c /\ Active
        /\ Given' = collected \o page' /\ ReadUpTo' = c + n
        /\ Original' = Original
    BY <1>4 DEF Given, ReadUpTo, PageRead, Active, CurrentSkip, Original
  <1>6. /\ Len(Given') = m + n /\ Given' \in Seq(Rows)
        /\ \A k \in 1 .. m + n : Given'[k] = IF k <= m THEN collected[k] ELSE page'[k - m]
    BY <1>1, <1>5, ConcatProperties, Zenon
  <1>7. /\ m \in Nat /\ DOMAIN Given' = 1 .. m + n /\ DOMAIN collected = 1 .. m
        /\ DOMAIN table = 1 .. Len(table)
    BY <1>1, <1>6
  <1>8. /\ e \in Int /\ behind \in Nat /\ late \in Nat /\ e >= 0
        /\ IsFiniteSet(Repeats(collected)) /\ Cardinality(Repeats(collected)) \in Nat
        /\ e = behind - Cardinality(Repeats(collected))
    BY <1>0, <1>5, CounterTypes DEF IInv, RepeatInv, Pending
  <1>. HIDE DEF c, n, m, e
  <1>9. \A k \in DOMAIN Given' :
          \/ k <= m /\ k \in DOMAIN collected /\ Given'[k] = collected[k]
          \/ /\ k > m /\ k - m \in 1 .. n
             /\ Given'[k] = table[c + (k - m)] /\ c + (k - m) \in DOMAIN table
    <2>. SUFFICES ASSUME NEW k \in 1 .. m + n
                  PROVE  \/ k <= m /\ k \in DOMAIN collected /\ Given'[k] = collected[k]
                         \/ /\ k > m /\ k - m \in 1 .. n
                            /\ Given'[k] = table[c + (k - m)] /\ c + (k - m) \in DOMAIN table
      BY <1>7
    <2>1. CASE k <= m
      BY <1>1, <1>6, <1>7, <2>1
    <2>2. CASE k > m
      <3>1. k - m \in 1 .. n
        BY <1>1, <1>7, <2>2
      <3>2. Given'[k] = page'[k - m]
        BY <1>6, <1>7, <2>2
      <3>3. QED
        BY <1>3, <2>2, <3>1, <3>2
    <2>3. QED
      BY <1>1, <1>7, <2>1, <2>2
  <1>10. /\ \A i, j \in DOMAIN table : i < j => table[i] < table[j]
         /\ \A k \in DOMAIN collected, i \in DOMAIN table : i > c + e => collected[k] < table[i]
         /\ \A i \in DOMAIN table : table[i] \in Int
         /\ \A k \in DOMAIN Given' : Given'[k] \in Int
    <2>1. \A k \in DOMAIN Given' : Given'[k] \in Int
      <3>1. Rows \subseteq Int
        BY RowsAssumption, Zenon
      <3>2. \A k \in DOMAIN Given' : Given'[k] \in Rows
        BY <1>6
      <3>3. QED
        BY <3>1, <3>2, Zenon
    <2>2. QED
      BY <1>0, <1>5, <2>1, CounterTypes DEF IInv, TableInv, RepeatInv, e
  <1>11. TableInv'
    BY <1>4, <1>5 DEF IInv, TableInv
  <1>12. GivenInv'
    BY <1>4, <1>5, <1>9 DEF IInv, GivenInv
  <1>13. CounterInv'
    BY <1>4 DEF IInv, CounterInv
  <1>14. RepeatInv'
    <2>. DEFINE q == IF e < n THEN e ELSE n
                R == Repeats(collected)
    <2>0. q \in Nat /\ q <= e /\ q <= n /\ (q = e \/ q = n)
      BY <1>1, <1>8
    <2>. HIDE DEF q
    <2>1. ASSUME NEW k \in Repeats(Given') PROVE k \in R \/ k \in m + 1 .. m + q
      <3>1. k \in DOMAIN Given' /\ \E j \in DOMAIN Given' : j < k /\ Given'[j] = Given'[k]
        BY DEF Repeats
      <3>2. PICK j \in DOMAIN Given' : j < k /\ Given'[j] = Given'[k]
        BY <3>1
      <3>3. k \in Nat /\ j \in Nat /\ k \in 1 .. m + n
        BY <1>1, <1>7, <3>1
      <3>4. CASE k <= m
        <4>1. j <= m
          BY <1>7, <3>2, <3>3, <3>4
        <4>2. /\ k \in DOMAIN collected /\ Given'[k] = collected[k]
              /\ j \in DOMAIN collected /\ Given'[j] = collected[j]
          BY <1>7, <1>9, <3>1, <3>2, <3>3, <3>4, <4>1
        <4>3. QED
          BY <3>2, <4>2 DEF Repeats
      <3>5. CASE k > m
        <4>1. k - m \in 1 .. n /\ Given'[k] = table[c + (k - m)] /\ c + (k - m) \in DOMAIN table
          BY <1>7, <1>9, <3>1, <3>3, <3>5
        <4>2. j <= m
          <5>1. SUFFICES ASSUME j > m PROVE FALSE
            BY <1>7, <3>3
          <5>2. Given'[j] = table[c + (j - m)] /\ c + (j - m) \in DOMAIN table
            BY <1>7, <1>9, <3>2, <3>3, <5>1
          <5>3. c + (j - m) < c + (k - m)
            BY <1>1, <1>7, <3>2, <3>3
          <5>4. table[c + (j - m)] < table[c + (k - m)]
            BY <1>10, <4>1, <5>2, <5>3
          <5>5. QED
            BY <1>10, <3>2, <4>1, <5>2, <5>4
        <4>3. j \in DOMAIN collected /\ Given'[j] = collected[j]
          BY <1>7, <1>9, <3>2, <3>3, <4>2
        <4>4. ~(c + (k - m) > c + e)
          <5>1. SUFFICES ASSUME c + (k - m) > c + e PROVE FALSE
            OBVIOUS
          <5>2. collected[j] < table[c + (k - m)]
            BY <1>10, <4>1, <4>3, <5>1
          <5>3. QED
            BY <1>10, <3>2, <4>1, <4>3, <5>2
        <4>5. k - m \in Nat /\ k - m <= e /\ k - m <= n
          BY <1>1, <1>7, <1>8, <3>3, <4>1, <4>4
        <4>6. k - m <= q
          BY <2>0, <4>5, Zenon
        <4>7. k \in m + 1 .. m + q
          BY <1>7, <2>0, <3>3, <3>5, <4>6
        <4>8. QED
          BY <4>7
      <3>6. QED
        BY <1>7, <3>3, <3>4, <3>5
    <2>2. Repeats(Given') \subseteq R \cup (m + 1 .. m + q)
      BY <2>1
    <2>3. IsFiniteSet(m + 1 .. m + q) /\ Cardinality(m + 1 .. m + q) = q
      <3>1. /\ IsFiniteSet(m + 1 .. m + q)
            /\ Cardinality(m + 1 .. m + q) = IF m + 1 > m + q THEN 0 ELSE (m + q) - (m + 1) + 1
        BY <1>7, <2>0, FS_Interval
      <3>2. QED
        BY <1>7, <2>0, <3>1
    <2>4. /\ Cardinality(Repeats(Given')) \in Nat
          /\ Cardinality(Repeats(Given')) <= Cardinality(R) + Cardinality(m + 1 .. m + q)
      BY <1>8, <2>2, <2>3, UnionBound
    <2>5. Pending' = behind - Cardinality(Repeats(Given'))
      BY <1>4 DEF Pending, Repeats
    <2>6. Pending' \in Int /\ Pending' >= e - q
      BY <1>8, <2>0, <2>3, <2>4, <2>5
    <2>7. ASSUME NEW k \in DOMAIN Given', NEW i \in DOMAIN table, i > c + n + Pending'
          PROVE  Given'[k] < table[i]
      <3>1. i \in Nat /\ i > c + e /\ i > c + n
        <4>. DEFINE d == Pending'
        <4>1. i \in Nat /\ i > c + n + d /\ d \in Int /\ d >= e - q
          BY <1>1, <1>7, <2>6, <2>7
        <4>. HIDE DEF d
        <4>2. c \in Int /\ n \in Int /\ e \in Int /\ q \in Int
          BY <1>1, <1>8, <2>0
        <4>3. q <= e /\ q <= n /\ (q = e \/ q = n)
          BY <2>0
        <4>4. QED
          BY <4>1, <4>2, <4>3, SMT
      <3>2. CASE k <= m
        BY <1>7, <1>9, <1>10, <3>1, <3>2
      <3>3. CASE k > m
        <4>1. k - m \in 1 .. n /\ Given'[k] = table[c + (k - m)] /\ c + (k - m) \in DOMAIN table
          BY <1>7, <1>9, <3>3
        <4>2. c + (k - m) < i
          BY <1>1, <1>7, <3>1, <4>1
        <4>3. QED
          BY <1>10, <4>1, <4>2
      <3>4. QED
        BY <1>7, <3>2, <3>3
    <2>8. Pending' >= 0
      BY <1>8, <2>0, <2>6
    <2>9. DOMAIN table' = DOMAIN table /\ table' = table
      BY <1>4
    <2>10. QED
      BY <1>5, <2>7, <2>8, <2>9, Zenon DEF RepeatInv
  <1>15. Unread' \subseteq Unread
    BY <1>4, <1>5, <1>6, <1>7, <1>9 DEF Unread
  <1>16. /\ Lost' \subseteq Unread' /\ Unread' \subseteq Rows
         /\ Cardinality(deleted) \in Nat /\ Cardinality(Lost) <= Cardinality(deleted)
    <2>1. Unread' \subseteq Rows
      BY <1>15, UnreadFinite DEF Unread
    <2>2. QED
      BY <1>0, <1>5, <2>1, PositionTypes DEF Lost, IInv, LostInv
  <1>17. Lost' \subseteq Lost
    <2>. SUFFICES ASSUME NEW r \in Lost' PROVE r \in Lost
      OBVIOUS
    <2>1. r \in Unread /\ \A k \in DOMAIN Given' : Given'[k] # r
      BY <1>15, <1>16 DEF Unread
    <2>2. PICK i \in DOMAIN table : i <= c + n /\ table[i] = r
      BY <1>4, <1>5 DEF Lost
    <2>3. i <= c
      <3>1. SUFFICES ASSUME i > c PROVE FALSE
        BY <1>1, <1>7
      <3>2. i - c \in 1 .. n /\ c + (i - c) = i
        BY <1>1, <1>7, <2>2, <3>1
      <3>. DEFINE k == m + (i - c)
      <3>3. k \in 1 .. m + n /\ ~(k <= m) /\ k - m = i - c
        BY <1>1, <1>7, <3>2
      <3>. HIDE DEF k
      <3>4. Given'[k] = page'[i - c]
        BY <1>6, <3>3
      <3>5. page'[i - c] = r
        BY <1>3, <2>2, <3>2
      <3>6. QED
        BY <1>7, <2>1, <3>3, <3>4, <3>5
    <2>4. QED
      BY <1>5, <2>1, <2>2, <2>3 DEF Lost
  <1>18. Cardinality(Lost') \in Nat /\ Cardinality(Lost') <= Cardinality(deleted)
    <2>1. Cardinality(Lost') \in Nat /\ Cardinality(Lost) \in Nat /\ Cardinality(Lost') <= Cardinality(Lost)
      <3>1. Lost \subseteq Rows
        BY UnreadFinite DEF Lost, Unread
      <3>2. QED
        BY <1>17, <3>1, RowsCounted
    <2>2. QED
      BY <1>16, <2>1
  <1>19. LostInv'
    BY <1>4, <1>18 DEF LostInv
  <1>20. CountInv'
    BY <1>4, <1>5 DEF IInv, CountInv, Within
  <1>21. LastPageInv'
    <2>. SUFFICES ASSUME pc' = "reply", ServerPaged', ~CutByCap'
                  PROVE  Cardinality(Unread') <= Cardinality(deleted) + late
      BY <1>4 DEF LastPageInv
    <2>1. ServerPaged /\ ~CutByCap
      BY <1>4 DEF ServerPaged, CutByCap
    <2>2. Limit(QueryTop, max_top) = page_size /\ QueryTop = page_size /\ page_size \in Nat
      BY <1>0, <2>1, PositionTypes DEF Limit, QueryTop, CutByCap, ServerPaged
    <2>3. n # page_size
      BY <2>1, <2>2 DEF RowsQuery, n
    <2>4. n <= page_size
      <3>1. Len(Slice(table, c, page_size)) <= page_size
        BY <1>1, <2>2, SliceBound
      <3>2. QED
        BY <2>2, <3>1 DEF RowsQuery, c, n
    <2>5. Len(table) <= c + n
      BY <1>1, <1>3, <2>2, <2>3, <2>4
    <2>6. Unread' \subseteq Lost'
      <3>. SUFFICES ASSUME NEW r \in Unread' PROVE r \in Lost'
        OBVIOUS
      <3>1. PICK i \in DOMAIN table : table[i] = r
        BY <1>4, <1>5 DEF Unread, IInv, TableInv
      <3>2. i <= c + n
        BY <1>1, <1>7, <2>5
      <3>3. QED
        BY <1>4, <1>5, <3>1, <3>2 DEF Lost
    <2>7. Unread' = Lost'
      BY <1>16, <2>6
    <2>8. QED
      BY <1>8, <1>16, <1>18, <2>7
  <1>22. QED
    BY <1>0, <1>11, <1>12, <1>13, <1>14, <1>19, <1>20, <1>21 DEF IInv

(***************************************************************************)
(* The client follows the link to the rows not done with, or is done.      *)
(***************************************************************************)
LEMMA ReplyStep ==
    ASSUME IInv, Reply
    PROVE  IInv'
  <1>. USE DEF tableVars, settings
  <1>0. TypeOK /\ TypeOK'
    BY TypeStep DEF IInv, Next, PageStep
  <1>1. /\ UNCHANGED <<tableVars, settings, response_count, page, has_more, late>>
        /\ pc = "reply" /\ collected' = collected \o page
        /\ pc' = IF has_more THEN "request" ELSE "done"
    BY DEF Reply
  <1>2. Given' = Given
    BY <1>1 DEF Given, PageRead
  <1>3. has_more => ReadUpTo' = ReadUpTo
    <2>. SUFFICES ASSUME has_more PROVE ReadUpTo' = ReadUpTo
      OBVIOUS
    <2>. DEFINE n == CurrentSkip + Len(page)
    <2>1. skips' = Append(skips, n) /\ n \in Nat /\ skips \in Seq(Nat)
      BY <1>0, PositionTypes DEF Reply, NextLink, TypeOK
    <2>. HIDE DEF n
    <2>2. skips' # <<>> /\ Last(skips') = n
      BY <2>1 DEF Last
    <2>3. CurrentSkip' = n
      BY <2>2 DEF CurrentSkip
    <2>4. QED
      BY <1>1, <2>3 DEF ReadUpTo, PageRead, n
  <1>4. Active' => Active /\ ReadUpTo' = ReadUpTo
    BY <1>1, <1>3 DEF Active
  <1>5. TableInv' /\ GivenInv' /\ RepeatInv' /\ LostInv' /\ Unread' = Unread
    BY <1>1, <1>2, <1>4, QuietStep
  <1>6. CounterInv' /\ CountInv'
    BY <1>1 DEF IInv, CounterInv, CountInv
  <1>7. LastPageInv'
    BY <1>1, <1>5 DEF IInv, LastPageInv, ServerPaged, CutByCap
  <1>8. QED
    BY <1>0, <1>5, <1>6, <1>7 DEF IInv

(***************************************************************************)
(* No next link: the rows not read are lost ones, or lie between the count *)
(* and where insertions have moved the last row.                           *)
(***************************************************************************)
LEMMA MoreStep ==
    ASSUME IInv, MoreQuery
    PROVE  IInv'
  <1>. USE DEF tableVars, settings
  <1>0. TypeOK /\ TypeOK'
    BY TypeStep DEF IInv, Next, PageStep
  <1>1. /\ UNCHANGED <<tableVars, settings, skips, response_count, page, collected, late>>
        /\ pc = "more" /\ pc' = "reply"
    BY DEF MoreQuery
  <1>2. Given' = Given /\ ReadUpTo' = ReadUpTo /\ Active
    BY <1>1 DEF Given, ReadUpTo, PageRead, Active, CurrentSkip
  <1>3. TableInv' /\ GivenInv' /\ RepeatInv' /\ LostInv' /\ Unread' = Unread
    BY <1>1, <1>2, QuietStep
  <1>4. CounterInv' /\ CountInv'
    BY <1>1 DEF IInv, CounterInv, CountInv
  <1>5. ASSUME ~has_more' PROVE Cardinality(Unread) <= Cardinality(deleted) + late
    <2>. DEFINE count == IF response_count >= 0 THEN response_count ELSE Len(table)
                u == ReadUpTo
                Ahead == {r \in Unread : \E i \in u + 1 .. u + late : table[i] = r}
    <2>1. /\ count \in Int /\ u \in Nat /\ late \in Nat /\ Len(table) \in Nat
          /\ DOMAIN table = 1 .. Len(table)
      BY <1>0, CounterTypes, PositionTypes
    <2>2. Within(count + late)
      <3>1. CASE response_count >= 0
        BY <1>1, <3>1 DEF IInv, CountInv
      <3>2. CASE ~(response_count >= 0)
        BY <2>1, <3>2 DEF Within
      <3>3. QED
        BY <3>1, <3>2
    <2>3. ~(count > u)
      BY <1>1, <1>5, Zenon DEF MoreQuery, ReadUpTo, PageRead
    <2>. HIDE DEF count, u
    <2>4. Unread \subseteq Lost \cup Ahead
      <3>. SUFFICES ASSUME NEW r \in Unread PROVE r \in Lost \/ r \in Ahead
        OBVIOUS
      <3>1. r \in Original /\ r \notin deleted
        BY DEF Unread
      <3>2. PICK i \in DOMAIN table : table[i] = r
        BY <3>1 DEF IInv, TableInv
      <3>3. i <= count + late
        BY <2>2, <3>1, <3>2 DEF Within
      <3>4. i <= u \/ i \in u + 1 .. u + late
        BY <2>1, <2>3, <3>3
      <3>5. QED
        BY <3>2, <3>4 DEF Lost, u
    <2>5. IsFiniteSet(Ahead) /\ Cardinality(Ahead) \in Nat /\ Cardinality(Ahead) <= late
      <3>1. \A x \in Ahead : \E i \in u + 1 .. u + late : table[i] = x
        BY Zenon
      <3>. HIDE DEF Ahead
      <3>2. u \in Int
        BY <2>1
      <3>3. QED
        BY <2>1, <3>1, <3>2, PlacesBound, Zenon
    <2>. HIDE DEF Ahead
    <2>6. IsFiniteSet(Lost) /\ Cardinality(Lost) \in Nat /\ Cardinality(Lost) <= Cardinality(deleted)
      BY <1>2, UnreadFinite DEF IInv, LostInv
    <2>7. Cardinality(Unread) \in Nat /\ Cardinality(Unread) <= Cardinality(Lost) + Cardinality(Ahead)
      BY <2>4, <2>5, <2>6, UnionBound
    <2>8. Cardinality(deleted) \in Nat
      BY <1>0, PositionTypes
    <2>9. QED
      BY <2>1, <2>5, <2>6, <2>7, <2>8
  <1>6. LastPageInv'
    BY <1>1, <1>3, <1>5 DEF LastPageInv
  <1>7. QED
    BY <1>0, <1>3, <1>4, <1>6 DEF IInv

(***************************************************************************)
(* The other steps of a page request read nothing, count, or fail.         *)
(***************************************************************************)
LEMMA PageStepInv ==
    ASSUME IInv, ParseOptions \/ CountQuery \/ PageFails
    PROVE  IInv'
  <1>. USE DEF tableVars, settings
  <1>0. TypeOK /\ TypeOK'
    BY TypeStep DEF IInv, Next, PageStep
  <1>1. /\ UNCHANGED <<tableVars, settings, skips, page, collected>>
        /\ CurrentSkip' = CurrentSkip /\ Original' = Original
        /\ pc' \notin {"reply", "done"}
    BY DEF ParseOptions, CountQuery, PageFails, CurrentSkip, Original
  <1>2. LastPageInv'
    BY <1>1 DEF LastPageInv
  <1>3. CASE ParseOptions \/ CountQuery
    <2>1. Given' = Given /\ ReadUpTo' = ReadUpTo /\ Active
      BY <1>1, <1>3 DEF ParseOptions, CountQuery, Given, ReadUpTo, PageRead, Active
    <2>2. TableInv' /\ GivenInv' /\ RepeatInv' /\ LostInv'
      BY <1>1, <2>1, QuietStep
    <2>3. CASE ParseOptions
      <3>1. CounterInv' /\ CountInv'
        BY <1>1, <2>3 DEF ParseOptions, CountInv, IInv, CounterInv
      <3>2. QED
        BY <1>0, <1>2, <2>2, <3>1 DEF IInv
    <2>4. CASE CountQuery
      <3>1. CounterInv'
        BY <1>1, <2>4 DEF CountQuery, IInv, CounterInv
      <3>2. Len(table) \in Nat /\ late \in Nat /\ DOMAIN table = 1 .. Len(table)
        BY <1>0, CounterTypes
      <3>3. table' = table /\ response_count' = Len(table) /\ late' = late
        BY <2>4 DEF CountQuery
      <3>4. CountInv'
        BY <3>2, <3>3 DEF CountInv, Within
      <3>5. QED
        BY <1>0, <1>2, <2>2, <3>1, <3>4 DEF IInv
    <2>5. QED
      BY <1>3, <2>3, <2>4
  <1>4. CASE PageFails
    <2>1. /\ pc' = "failed" /\ Given' = collected /\ ~Active'
          /\ UNCHANGED <<response_count, late, has_more>>
      BY <1>1, <1>4 DEF PageFails, Given, PageRead, Active
    <2>2. TableInv'
      BY <1>1 DEF IInv, TableInv
    <2>3. GivenInv'
      <3>1. \A k \in DOMAIN collected :
                collected[k] \in deleted \/ \E i \in DOMAIN table : table[i] = collected[k]
        BY <1>0, CollectedFirst, Zenon DEF IInv, GivenInv
      <3>2. QED
        BY <1>1, <2>1, <3>1, Zenon DEF GivenInv
    <2>4. RepeatInv'
      <3>1. Pending' = behind - Cardinality(Repeats(collected))
        BY <1>1, <2>1 DEF Pending, Repeats
      <3>2. Pending = behind - Cardinality(Repeats(Given)) /\ Pending >= 0
        BY DEF IInv, RepeatInv, Pending
      <3>3. /\ behind \in Nat /\ Cardinality(Repeats(Given)) \in Nat
            /\ Cardinality(Repeats(collected)) \in Nat
            /\ Cardinality(Repeats(collected)) <= Cardinality(Repeats(Given))
        BY <1>0, CounterTypes, CollectedFirst
      <3>4. Pending' >= 0
        BY <3>1, <3>2, <3>3
      <3>5. QED
        BY <2>1, <3>4 DEF RepeatInv
    <2>5. LostInv' /\ CountInv'
      BY <2>1 DEF LostInv, CountInv
    <2>6. CounterInv'
      BY <1>1, <2>1 DEF IInv, CounterInv
    <2>7. QED
      BY <1>0, <1>2, <2>2, <2>3, <2>4, <2>5, <2>6 DEF IInv
  <1>5. QED
    BY <1>3, <1>4

(***************************************************************************)
(* An inserted row moves the rows behind it one place back.  If it comes   *)
(* before a row already read, one more row may be read again.  If it comes *)
(* before a row that was there from the start, a count taken before may    *)
(* fall one row short.                                                     *)
(***************************************************************************)
LEMMA InsertStep ==
    ASSUME IInv, NEW p \in 1 .. Len(table) + 1, NEW r \in Rows, InsertRow(p, r)
    PROVE  IInv'
  <1>. USE DEF settings
  <1>0. TypeOK /\ TypeOK'
    BY TypeStep DEF IInv, Next
  <1>. DEFINE early == \E k \in DOMAIN Given : r < Given[k]
              inFront == /\ pc \in {"rows", "more"} /\ response_count >= 0
                         /\ \E j \in DOMAIN table : table[j] \in Original /\ r < table[j]
              b == IF early THEN 1 ELSE 0
              a == IF inFront THEN 1 ELSE 0
  <1>1. /\ UNCHANGED <<deleted, settings, skips, pc, response_count, page, has_more, collected>>
        /\ behind' = behind + b /\ late' = late + a
        /\ r \notin deleted
        /\ ~shaped => p = Len(table) + 1 /\ \A d \in deleted : d < r
    BY DEF InsertRow
  <1>2. /\ b \in {0, 1} /\ (b = 1 <=> early)
        /\ a \in {0, 1} /\ (a = 1 <=> inFront)
    OBVIOUS
  <1>. HIDE DEF a, b, early, inFront
  <1>3. /\ Given' = Given /\ ReadUpTo' = ReadUpTo /\ Original' = Original
        /\ Active' = Active
    BY <1>1 DEF Given, ReadUpTo, PageRead, CurrentSkip, Original, Active
  <1>4. /\ Len(table) \in Nat /\ DOMAIN table = 1 .. Len(table) /\ p \in Nat /\ r \in Int
        /\ behind \in Nat /\ late \in Nat /\ response_count \in Int /\ ReadUpTo \in Nat
        /\ Pending \in Int /\ Pending >= 0
        /\ \A i \in DOMAIN table : table[i] \in Int
        /\ \A k \in DOMAIN Given : Given[k] \in Int
    <2>1. p \in Nat /\ r \in Int
      BY <1>0, RowsAssumption, CounterTypes
    <2>2. QED
      BY <1>0, <2>1, CounterTypes, PositionTypes, Zenon DEF IInv, RepeatInv
  <1>5. /\ DOMAIN table' = 1 .. Len(table) + 1
        /\ \A j \in 1 .. Len(table) + 1 : /\ j < p => table'[j] = table[j]
                                          /\ j = p => table'[j] = r
                                          /\ j > p => table'[j] = table[j - 1]
    <2>1. table \in Seq(Rows) /\ table' = InsertAt(table, p, r)
      BY <1>0 DEF InsertRow, TypeOK
    <2>2. IsInsert(InsertAt(table, p, r), table, p, r)
      BY <2>1, InsertFacts
    <2>3. IsInsert(table', table, p, r)
      BY <2>1, <2>2, Zenon
    <2>4. QED
      BY <2>3 DEF IsInsert
  <1>6. \A i \in DOMAIN table : /\ i < p => table[i] < r
                                /\ i >= p => r < table[i]
    BY <1>4 DEF InsertRow
  <1>7. \A i \in DOMAIN table : table[i] # r
    BY <1>4, <1>6
  <1>8. r \notin Original
    BY <1>1, <1>7 DEF IInv, TableInv
  <1>9. ASSUME NEW j \in DOMAIN table'
        PROVE  \/ j = p /\ table'[j] = r
               \/ j < p /\ j \in DOMAIN table /\ table'[j] = table[j]
               \/ j > p /\ j - 1 \in DOMAIN table /\ j - 1 >= p /\ table'[j] = table[j - 1]
    <2>1. j \in 1 .. Len(table) + 1 /\ j \in Nat
      BY <1>4, <1>5
    <2>2. CASE j = p
      BY <1>5, <2>1, <2>2
    <2>3. CASE j < p
      BY <1>4, <1>5, <2>1, <2>3
    <2>4. CASE j > p
      <3>1. j - 1 \in 1 .. Len(table) /\ j - 1 >= p
        BY <1>4, <2>1, <2>4
      <3>2. table'[j] = table[j - 1]
        BY <1>4, <1>5, <2>1, <2>4
      <3>3. QED
        BY <1>4, <2>4, <3>1, <3>2
    <2>5. QED
      BY <1>4, <2>1, <2>2, <2>3, <2>4
  <1>10. ASSUME NEW i \in DOMAIN table
         PROVE  \E j \in DOMAIN table' : table'[j] = table[i]
    <2>1. CASE i < p
      <3>1. i \in 1 .. Len(table) + 1 /\ table'[i] = table[i]
        BY <1>4, <1>5, <2>1
      <3>2. QED
        BY <1>5, <3>1
    <2>2. CASE i >= p
      <3>1. i + 1 \in 1 .. Len(table) + 1 /\ i + 1 > p /\ (i + 1) - 1 = i
        BY <1>4, <2>2
      <3>2. table'[i + 1] = table[i]
        BY <1>5, <3>1
      <3>3. QED
        BY <1>5, <3>1, <3>2
    <2>3. QED
      BY <1>4, <2>1, <2>2
  <1>11. TableInv'
    <2>1. ASSUME NEW i \in DOMAIN table', NEW j \in DOMAIN table', i < j
          PROVE  table'[i] < table'[j]
      <3>0. i \in Nat /\ j \in Nat /\ \A x, y \in DOMAIN table : x < y => table[x] < table[y]
        BY <1>4, <1>5 DEF IInv, TableInv
      <3>1. CASE j < p
        BY <1>4, <1>9, <2>1, <3>0, <3>1
      <3>2. CASE j = p
        BY <1>4, <1>6, <1>9, <2>1, <3>0, <3>2
      <3>3. CASE j > p
        <4>1. j - 1 \in DOMAIN table /\ j - 1 >= p /\ table'[j] = table[j - 1]
          BY <1>4, <1>9, <3>0, <3>3
        <4>2. CASE i < p
          <5>1. i \in DOMAIN table /\ table'[i] = table[i] /\ i < j - 1
            BY <1>4, <1>9, <3>0, <4>1, <4>2
          <5>2. QED
            BY <3>0, <4>1, <5>1
        <4>3. CASE i = p
          <5>1. table'[i] = r
            BY <1>4, <1>9, <3>0, <4>3
          <5>2. QED
            BY <1>6, <4>1, <5>1
        <4>4. CASE i > p
          <5>1. i - 1 \in DOMAIN table /\ table'[i] = table[i - 1] /\ i - 1 < j - 1
            BY <1>4, <1>9, <2>1, <3>0, <4>4
          <5>2. QED
            BY <3>0, <4>1, <5>1
        <4>5. QED
          BY <1>4, <3>0, <4>2, <4>3, <4>4
      <3>4. QED
        BY <1>4, <3>0, <3>1, <3>2, <3>3
    <2>2. \A j \in DOMAIN table' : table'[j] \notin deleted
      BY <1>1, <1>9 DEF IInv, TableInv
    <2>3. \A x \in Original : x \in deleted \/ \E j \in DOMAIN table' : table'[j] = x
      BY <1>10 DEF IInv, TableInv
    <2>4. QED
      BY <1>1, <1>3, <2>1, <2>2, <2>3 DEF TableInv
  <1>12. GivenInv'
    BY <1>1, <1>3, <1>10 DEF IInv, GivenInv
  <1>13. \A k \in DOMAIN Given : Given[k] # r
    BY <1>1, <1>7 DEF IInv, GivenInv
  <1>14. ~early => \A k \in DOMAIN Given : Given[k] < r
    BY <1>4, <1>13 DEF early
  <1>15. CounterInv'
    <2>1. ASSUME ~shaped PROVE b = 0 /\ a = 0
      <3>1. \A i \in DOMAIN table : table[i] < r
        BY <1>1, <1>4, <1>6, <2>1
      <3>2. ~inFront
        BY <1>4, <3>1 DEF inFront
      <3>3. ASSUME NEW k \in DOMAIN Given PROVE ~(r < Given[k])
        BY <1>1, <1>4, <2>1, <3>1 DEF IInv, GivenInv
      <3>4. ~early
        BY <3>3 DEF early
      <3>5. QED
        BY <1>2, <3>2, <3>4
    <2>2. ASSUME ~count_option PROVE a = 0
      <3>1. ~inFront
        BY <2>2 DEF IInv, CounterInv, inFront
      <3>2. QED
        BY <1>2, <3>1
    <2>3. QED
      BY <1>1, <2>1, <2>2 DEF IInv, CounterInv
  <1>16. RepeatInv'
    <2>. DEFINE q == ReadUpTo + Pending
    <2>1. Pending' = Pending + b
      <3>1. Cardinality(Repeats(Given)) \in Nat
        BY <1>0, CounterTypes
      <3>2. Pending' = (behind + b) - Cardinality(Repeats(Given))
        BY <1>1, <1>3 DEF Pending, Repeats
      <3>3. QED
        BY <1>2, <1>4, <3>1, <3>2 DEF Pending
    <2>2. Pending' >= 0
      BY <1>2, <1>4, <2>1
    <2>3. /\ q \in Nat
          /\ Active => \A k \in DOMAIN Given, i \in DOMAIN table : i > q => Given[k] < table[i]
      BY <1>4 DEF IInv, RepeatInv
    <2>. HIDE DEF q
    <2>4. ASSUME Active, NEW k \in DOMAIN Given, NEW j \in DOMAIN table', j > q + b
          PROVE  Given[k] < table'[j]
      <3>0. j \in Nat /\ j > q
        BY <1>2, <1>4, <1>5, <2>3, <2>4
      <3>1. CASE early
        <4>1. b = 1
          BY <1>2, <3>1
        <4>2. CASE j < p
          BY <1>4, <1>9, <2>3, <2>4, <3>0, <4>2
        <4>3. CASE j >= p
          <5>1. j - 1 \in DOMAIN table /\ j - 1 > q
            BY <1>4, <1>5, <2>3, <2>4, <3>0, <4>1
          <5>2. Given[k] < table[j - 1]
            BY <2>3, <2>4, <5>1
          <5>3. CASE j = p
            <6>1. table[j - 1] < r /\ table'[j] = r
              BY <1>4, <1>6, <1>9, <3>0, <5>1, <5>3
            <6>2. QED
              BY <1>4, <5>1, <5>2, <6>1
          <5>4. CASE j > p
            BY <1>4, <1>9, <3>0, <5>2, <5>4
          <5>5. QED
            BY <1>4, <3>0, <4>3, <5>3, <5>4
        <4>4. QED
          BY <1>4, <3>0, <4>2, <4>3
      <3>2. CASE ~early
        <4>1. Given[k] < r
          BY <1>14, <3>2
        <4>2. CASE j < p
          BY <1>4, <1>9, <2>3, <2>4, <3>0, <4>2
        <4>3. CASE j = p
          BY <1>4, <1>9, <3>0, <4>1, <4>3
        <4>4. CASE j > p
          <5>1. j - 1 \in DOMAIN table /\ table'[j] = table[j - 1] /\ r < table[j - 1]
            BY <1>4, <1>6, <1>9, <3>0, <4>4
          <5>2. QED
            BY <1>4, <4>1, <5>1
        <4>5. QED
          BY <1>4, <3>0, <4>2, <4>3, <4>4
      <3>3. QED
        BY <3>1, <3>2
    <2>5. ReadUpTo' + Pending' = q + b
      BY <1>2, <1>3, <1>4, <2>1 DEF q
    <2>6. QED
      BY <1>3, <2>2, <2>4, <2>5 DEF RepeatInv
  <1>17. Unread' = Unread
    BY <1>1, <1>3 DEF Unread
  <1>18. LostInv'
    <2>1. Lost' \subseteq Lost
      <3>. SUFFICES ASSUME NEW x \in Lost' PROVE x \in Lost
        OBVIOUS
      <3>1. x \in Unread /\ x # r
        BY <1>8, <1>17 DEF Lost, Unread
      <3>2. PICK j \in DOMAIN table' : j <= ReadUpTo /\ table'[j] = x
        BY <1>3 DEF Lost
      <3>3. \E i \in DOMAIN table : i <= ReadUpTo /\ table[i] = x
        <4>1. j \in Nat
          BY <1>4, <1>5
        <4>2. CASE j < p
          BY <1>4, <1>9, <3>2, <4>1, <4>2
        <4>3. CASE j > p
          <5>1. j - 1 \in DOMAIN table /\ table'[j] = table[j - 1] /\ j - 1 <= ReadUpTo
            BY <1>4, <1>9, <3>2, <4>1, <4>3
          <5>2. QED
            BY <3>2, <5>1
        <4>4. j # p
          BY <1>4, <1>9, <3>1, <3>2, <4>1
        <4>5. QED
          BY <1>4, <4>1, <4>2, <4>3, <4>4
      <3>4. QED
        BY <3>1, <3>3 DEF Lost
    <2>2. Lost \subseteq Rows
      BY UnreadFinite DEF Lost, Unread
    <2>3. /\ Cardinality(Lost') \in Nat /\ Cardinality(Lost) \in Nat
          /\ Cardinality(Lost') <= Cardinality(Lost)
      BY <2>1, <2>2, RowsCounted
    <2>4. Cardinality(deleted) \in Nat /\ deleted' = deleted
      BY <1>0, <1>1, PositionTypes
    <2>5. Active => Cardinality(Lost) <= Cardinality(deleted)
      BY DEF IInv, LostInv
    <2>6. QED
      BY <1>3, <2>3, <2>4, <2>5 DEF LostInv
  <1>19. CountInv'
    <2>. SUFFICES ASSUME pc \in {"rows", "more"}, response_count >= 0,
                         NEW j \in DOMAIN table', table'[j] \in Original
                  PROVE  j <= response_count + (late + a)
      BY <1>1, <1>3 DEF CountInv, Within
    <2>0. j \in Nat
      BY <1>4, <1>5
    <2>1. \A i \in DOMAIN table : table[i] \in Original => i <= response_count + late
      BY DEF IInv, CountInv, Within
    <2>2. j # p
      BY <1>4, <1>8, <1>9, <2>0
    <2>3. CASE j < p
      <3>1. j <= response_count + late
        BY <1>4, <1>9, <2>0, <2>1, <2>3
      <3>2. QED
        BY <1>2, <1>4, <2>0, <3>1
    <2>4. CASE j > p
      <3>1. j - 1 \in DOMAIN table /\ j - 1 >= p /\ table'[j] = table[j - 1]
        BY <1>4, <1>9, <2>0, <2>4
      <3>2. j - 1 <= response_count + late
        BY <2>1, <3>1
      <3>3. inFront
        BY <1>6, <3>1 DEF inFront
      <3>4. a = 1
        BY <1>2, <3>3
      <3>5. QED
        BY <1>4, <2>0, <3>2, <3>4
    <2>5. QED
      BY <1>4, <2>0, <2>2, <2>3, <2>4
  <1>20. LastPageInv'
    <2>1. /\ Cardinality(Unread) \in Nat /\ Cardinality(deleted) \in Nat /\ late \in Nat
      BY <1>0, <1>4, UnreadFinite, PositionTypes
    <2>2. ServerPaged' = ServerPaged /\ CutByCap' = CutByCap
      BY <1>1 DEF ServerPaged, CutByCap
    <2>3. ASSUME Cardinality(Unread) <= Cardinality(deleted) + late
          PROVE  Cardinality(Unread) <= Cardinality(deleted) + (late + a)
      BY <1>2, <2>1, <2>3
    <2>4. QED
      BY <1>1, <1>17, <2>2, <2>3 DEF IInv, LastPageInv
  <1>21. QED
    BY <1>0, <1>11, <1>12, <1>15, <1>16, <1>18, <1>19, <1>20 DEF IInv

(***************************************************************************)
(* A deleted row lets at most one row that was still to be read slip into  *)
(* the part done with.                                                     *)
(***************************************************************************)
LEMMA DeleteStep ==
    ASSUME IInv, NEW d \in DOMAIN table, DeleteRow(d)
    PROVE  IInv'
  <1>. USE DEF settings
  <1>0. TypeOK /\ TypeOK'
    BY TypeStep DEF IInv, Next
  <1>1. /\ UNCHANGED <<inserts, behind, settings, skips, pc, response_count, page, has_more, collected, late>>
        /\ deleted' = deleted \cup {table[d]}
    BY DEF DeleteRow
  <1>2. /\ table \in Seq(Rows) /\ Len(table) \in Nat /\ DOMAIN table = 1 .. Len(table)
        /\ DOMAIN table' = 1 .. Len(table) - 1
        /\ \A j \in 1 .. Len(table) - 1 : table'[j] = IF j < d THEN table[j] ELSE table[j + 1]
    <2>1. table \in Seq(Rows) /\ table' = RemoveAt(table, d)
      BY <1>0 DEF DeleteRow, TypeOK
    <2>2. /\ DOMAIN RemoveAt(table, d) = 1 .. Len(table) - 1
          /\ \A j \in 1 .. Len(table) - 1 :
                RemoveAt(table, d)[j] = IF j < d THEN table[j] ELSE table[j + 1]
      BY <2>1, RemoveFacts
    <2>3. Len(table) \in Nat /\ DOMAIN table = 1 .. Len(table)
      BY <2>1
    <2>4. QED
      BY <2>1, <2>2, <2>3, Zenon
  <1>3. /\ Given' = Given /\ ReadUpTo' = ReadUpTo /\ ReadUpTo \in Nat
        /\ Original' = Original /\ Active' = Active
    BY <1>0, <1>1, PositionTypes DEF Given, ReadUpTo, PageRead, CurrentSkip, Original, Active
  <1>4. /\ \A i \in DOMAIN table : table[i] \in Int
        /\ Pending \in Int /\ late \in Nat /\ response_count \in Int
        /\ Cardinality(deleted) \in Nat /\ IsFiniteSet(deleted)
    BY <1>0, CounterTypes, PositionTypes
  <1>5. \A j \in DOMAIN table' :
          \E i \in DOMAIN table : /\ table'[j] = table[i] /\ i # d
                                  /\ (j < d /\ i = j) \/ (j >= d /\ i = j + 1)
    <2>. SUFFICES ASSUME NEW j \in DOMAIN table'
                  PROVE  \E i \in DOMAIN table :
                            /\ table'[j] = table[i] /\ i # d
                            /\ (j < d /\ i = j) \/ (j >= d /\ i = j + 1)
      OBVIOUS
    <2>1. CASE j < d
      BY <1>2, <2>1
    <2>2. CASE j >= d
      BY <1>2, <2>2
    <2>3. QED
      BY <1>2, <2>1, <2>2
  <1>6. \A i \in DOMAIN table : i # d => \E j \in DOMAIN table' : table'[j] = table[i]
    <2>. SUFFICES ASSUME NEW i \in DOMAIN table, i # d
                  PROVE  \E j \in DOMAIN table' : table'[j] = table[i]
      OBVIOUS
    <2>1. CASE i < d
      <3>1. i \in 1 .. Len(table) - 1
        BY <1>2, <2>1
      <3>2. QED
        BY <1>2, <2>1, <3>1
    <2>2. CASE i > d
      <3>1. i - 1 \in 1 .. Len(table) - 1 /\ ~(i - 1 < d) /\ (i - 1) + 1 = i
        BY <1>2, <2>2
      <3>2. QED
        BY <1>2, <3>1
    <2>3. QED
      BY <1>2, <2>1, <2>2
  <1>7. \A i, j \in DOMAIN table : table[i] = table[j] => i = j
    BY <1>2, <1>4 DEF IInv, TableInv
  <1>8. TableInv'
    <2>1. \A i, j \in DOMAIN table' : i < j => table'[i] < table'[j]
      <3>. SUFFICES ASSUME NEW i \in DOMAIN table', NEW j \in DOMAIN table', i < j
                    PROVE  table'[i] < table'[j]
        OBVIOUS
      <3>1. PICK m \in DOMAIN table : /\ table'[i] = table[m] /\ m # d
                                      /\ (i < d /\ m = i) \/ (i >= d /\ m = i + 1)
        BY <1>5
      <3>2. PICK n \in DOMAIN table : /\ table'[j] = table[n] /\ n # d
                                      /\ (j < d /\ n = j) \/ (j >= d /\ n = j + 1)
        BY <1>5
      <3>3. m < n
        BY <1>2, <3>1, <3>2
      <3>4. QED
        BY <3>1, <3>2, <3>3 DEF IInv, TableInv
    <2>2. \A i \in DOMAIN table' : table'[i] \notin deleted'
      <3>. SUFFICES ASSUME NEW i \in DOMAIN table' PROVE table'[i] \notin deleted'
        OBVIOUS
      <3>1. PICK m \in DOMAIN table : table'[i] = table[m] /\ m # d
        BY <1>5
      <3>2. table[m] # table[d]
        BY <1>7, <3>1
      <3>3. QED
        BY <1>1, <3>1, <3>2 DEF IInv, TableInv
    <2>3. \A x \in Original : x \in deleted' \/ \E j \in DOMAIN table' : table'[j] = x
      <3>. SUFFICES ASSUME NEW x \in Original, x \notin deleted'
                    PROVE  \E j \in DOMAIN table' : table'[j] = x
        OBVIOUS
      <3>1. PICK i \in DOMAIN table : table[i] = x
        BY <1>1 DEF IInv, TableInv
      <3>2. i # d
        BY <1>1, <3>1
      <3>3. QED
        BY <1>6, <3>1, <3>2
    <2>4. QED
      BY <1>3, <2>1, <2>2, <2>3 DEF TableInv
  <1>9. GivenInv'
    <2>. SUFFICES ASSUME NEW k \in DOMAIN Given
                  PROVE  Given[k] \in deleted' \/ \E j \in DOMAIN table' : table'[j] = Given[k]
      BY <1>3 DEF GivenInv
    <2>1. CASE Given[k] \in deleted
      BY <1>1, <2>1
    <2>2. CASE \E i \in DOMAIN table : table[i] = Given[k]
      <3>1. PICK i \in DOMAIN table : table[i] = Given[k]
        BY <2>2
      <3>2. CASE i = d
        BY <1>1, <3>1, <3>2
      <3>3. CASE i # d
        BY <1>6, <3>1, <3>3
      <3>4. QED
        BY <3>2, <3>3
    <2>3. QED
      BY <2>1, <2>2 DEF IInv, GivenInv
  <1>10. CounterInv'
    BY <1>1 DEF IInv, CounterInv
  <1>11. RepeatInv'
    <2>1. Pending' = Pending
      BY <1>1, <1>3 DEF Pending, Repeats
    <2>2. ASSUME Active, NEW k \in DOMAIN Given, NEW j \in DOMAIN table', j > ReadUpTo + Pending
          PROVE  Given[k] < table'[j]
      <3>1. PICK i \in DOMAIN table : table'[j] = table[i] /\ i \in {j, j + 1}
        BY <1>5
      <3>2. i > ReadUpTo + Pending
        BY <1>2, <1>3, <1>4, <2>2, <3>1
      <3>3. QED
        BY <2>2, <3>1, <3>2 DEF IInv, RepeatInv
    <2>3. Pending >= 0
      BY DEF IInv, RepeatInv
    <2>4. QED
      BY <1>3, <2>1, <2>2, <2>3, Zenon DEF RepeatInv
  <1>12. Cardinality(deleted') = Cardinality(deleted) + 1
    <2>1. table[d] \notin deleted
      BY DEF IInv, TableInv
    <2>2. QED
      BY <1>1, <1>4, <2>1, FS_AddElement
  <1>13. Unread' \subseteq Unread
    BY <1>1, <1>3 DEF Unread
  <1>14. LostInv'
    <2>. SUFFICES ASSUME Active PROVE Cardinality(Lost') <= Cardinality(deleted')
      BY <1>3 DEF LostInv
    <2>. DEFINE x == table[ReadUpTo + 1]
    <2>1. Lost' \subseteq Lost \cup {x}
      <3>. SUFFICES ASSUME NEW y \in Lost', y # x PROVE y \in Lost
        OBVIOUS
      <3>1. y \in Unread
        BY <1>13 DEF Lost
      <3>2. PICK j \in DOMAIN table' : j <= ReadUpTo /\ table'[j] = y
        BY <1>3 DEF Lost
      <3>3. PICK i \in DOMAIN table : table'[j] = table[i] /\ i \in {j, j + 1}
        BY <1>5
      <3>4. i <= ReadUpTo
        BY <1>2, <1>3, <3>2, <3>3
      <3>5. QED
        BY <3>1, <3>2, <3>3, <3>4 DEF Lost
    <2>. HIDE DEF x
    <2>2. IsFiniteSet({x}) /\ Cardinality({x}) = 1
      BY FS_Singleton
    <2>3. Cardinality(Lost') \in Nat /\ Cardinality(Lost') <= Cardinality(Lost) + Cardinality({x})
      BY <2>1, <2>2, UnreadFinite, UnionBound
    <2>4. Cardinality(Lost) <= Cardinality(deleted)
      BY DEF IInv, LostInv
    <2>5. QED
      BY <1>4, <1>12, <2>2, <2>3, <2>4, UnreadFinite
  <1>15. CountInv'
    <2>. SUFFICES ASSUME pc \in {"rows", "more"}, response_count >= 0,
                         NEW j \in DOMAIN table', table'[j] \in Original
                  PROVE  j <= response_count + late
      BY <1>1, <1>3 DEF CountInv, Within
    <2>1. PICK i \in DOMAIN table : table'[j] = table[i] /\ i \in {j, j + 1}
      BY <1>5
    <2>2. i <= response_count + late
      BY <2>1 DEF IInv, CountInv, Within
    <2>3. QED
      BY <1>2, <1>4, <2>1, <2>2
  <1>16. LastPageInv'
    <2>1. /\ Cardinality(Unread) \in Nat /\ Cardinality(Unread') \in Nat
          /\ Cardinality(Unread') <= Cardinality(Unread)
      <3>1. Unread \subseteq Rows
        BY UnreadFinite DEF Unread
      <3>2. QED
        BY <1>13, <3>1, RowsCounted
    <2>2. ServerPaged' = ServerPaged /\ CutByCap' = CutByCap
      BY <1>1 DEF ServerPaged, CutByCap
    <2>3. ASSUME Cardinality(Unread) <= Cardinality(deleted) + late
          PROVE  Cardinality(Unread') <= Cardinality(deleted') + late
      BY <1>4, <1>12, <2>1, <2>3
    <2>4. QED
      BY <1>1, <2>2, <2>3 DEF IInv, LastPageInv
  <1>17. QED
    BY <1>0, <1>8, <1>9, <1>10, <1>11, <1>14, <1>15, <1>16 DEF IInv

-----------------------------------------------------------------------------
(* The theorems.                                                           *)

(***************************************************************************)
(* The invariant of a traversal.                                           *)
(***************************************************************************)
LEMMA PagingInvariant == Spec => []IInv
  <1>1. ASSUME IInv, [Next]_vars PROVE IInv'
    <2>1. CASE UNCHANGED vars
      <3>1. IInv' <=> IInv
        BY <2>1 DEF vars, tableVars, settings, IInv, TypeOK, TableInv, GivenInv, CounterInv,
          RepeatInv, Pending, Repeats, Original, Unread, LostInv, Lost, CountInv, LastPageInv, Within,
          Given, ReadUpTo, PageRead, Active, CurrentSkip, ServerPaged, CutByCap
      <3>2. QED
        BY <1>1, <3>1
    <2>2. CASE Next
      BY <1>1, <2>2, RowsStep, ReplyStep, MoreStep, PageStepInv, InsertStep, DeleteStep DEF Next, PageStep
    <2>3. QED
      BY <1>1, <2>1, <2>2
  <1>2. QED
    BY <1>1, PagingInit, PTL DEF Spec

(***************************************************************************)
(* TypeOK: the links HandleODataRequest hands out carry numbers only.      *)
(***************************************************************************)
THEOREM PagingTypes == Spec => []TypeOK
  BY TypeInit, TypeStep, PTL DEF Spec

(***************************************************************************)
(* RepeatedOnlyByInserts: whatever is inserted and deleted between two     *)
(* pages, and between the queries of one page, a client that follows the   *)
(* next links receives a row again at most once for each row that was      *)
(* inserted before one it already had, and never without $orderby and      *)
(* $filter.                                                                *)
(***************************************************************************)
THEOREM PagesDoNotOverlap == Spec => []RepeatedOnlyByInserts
  <1>1. ASSUME IInv PROVE RepeatedOnlyByInserts
    <2>1. TypeOK
      BY <1>1 DEF IInv
    <2>2. /\ Cardinality(Repeats(collected)) \in Nat /\ behind \in Nat
          /\ Cardinality(Repeats(Given)) \in Nat
          /\ Cardinality(Repeats(collected)) <= Cardinality(Repeats(Given))
      BY <2>1, CollectedFirst, CounterTypes
    <2>3. behind - Cardinality(Repeats(Given)) >= 0 /\ (~shaped => behind = 0)
      BY <1>1 DEF IInv, RepeatInv, Pending, CounterInv
    <2>4. QED
      BY <2>2, <2>3 DEF RepeatedOnlyByInserts
  <1>2. QED
    BY <1>1, PagingInvariant, PTL

(***************************************************************************)
(* SkippedOnlyByChanges: a traversal that ends misses at most one row for  *)
(* each row deleted during it and, with $count and $orderby or $filter,    *)
(* for each row inserted in front after the last page's count; nothing     *)
(* else is lost, although that count may be older than the page.           *)
(***************************************************************************)
THEOREM PagesCoverTable == Spec => []SkippedOnlyByChanges
  <1>1. ASSUME IInv PROVE SkippedOnlyByChanges
    <2>. SUFFICES ASSUME ~CutByCap, pc = "done", ServerPaged
                  PROVE  Cardinality(Missed) <=
                             Cardinality(deleted) + IF shaped /\ count_option THEN late ELSE 0
      BY DEF SkippedOnlyByChanges, PagesReachEveryRow
    <2>1. Given = collected
      BY DEF Given, PageRead
    <2>2. Missed = Unread
      BY <2>1 DEF Missed, Unread, ToSet
    <2>3. Cardinality(Unread) <= Cardinality(deleted) + late
      BY <1>1 DEF IInv, LastPageInv
    <2>4. ~(shaped /\ count_option) => late = 0
      BY <1>1 DEF IInv, CounterInv
    <2>5. QED
      BY <2>2, <2>3, <2>4
  <1>2. QED
    BY <1>1, PagingInvariant, PTL
=============================================================================
