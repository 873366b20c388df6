-------------------------- MODULE WriteExecutorProofs --------------------------
(***************************************************************************)
(* Proofs about WriteExecutor, for any number of connections, rows, keys   *)
(* and requests: the state is well typed, and ExecuteWrite implements      *)
(* AtomicWrites.                                                           *)
(***************************************************************************)
EXTENDS WriteExecutor, FiniteSetTheorems, TLAPS

-----------------------------------------------------------------------------
(* The inductive invariant.                                                *)

\* w's transaction has begun; its statement has run.
Begun(w)   == pc[w] \in {"execute", "fetch", "commit"}
Written(w) == pc[w] \in {"fetch", "commit"}

\* No row has ever been stored at, or is being inserted into, a later slot.
UnusedSlots ==
    \A i \in RowIds : i >= nextRow =>
        /\ db[i] = NoRow
        /\ \A w \in Writers : i \notin changes[w] \cup stale[w]

\* Slots are counted from 1.
NextRowPositive == nextRow >= 1

\* Two open transactions never have changed the same row.
NoWriteConflict == \A v, w \in Writers : v # w => changes[v] \cap changes[w] = {}

\* A request gets past Validate only when it is valid, and its transaction has
\* changed nothing before its statement.
BeforeStatement ==
    \A w \in Writers :
        /\ pc[w] \in {"begin", "execute", "fetch", "commit"} => req[w].valid
        /\ ~Written(w) => changes[w] = {}

\* What w saw of a row that no other connection has committed since is still
\* what the table holds.
SnapshotCurrent ==
    \A w \in Writers : Begun(w) => \A i \in RowIds \ stale[w] : snapshot[w][i] = db[i]

\* An INSERT has taken a slot that is free until it commits.
InsertPending ==
    \A w \in Writers : Written(w) /\ req[w].method = "POST" =>
        /\ \E i \in RowIds : changes[w] = {i} /\ db[i] = NoRow
        /\ row[w] = [key |-> req[w].key, val |-> req[w].val]

\* An UPDATE or DELETE has changed the rows with the key that w saw, and no
\* other connection has committed any of them since.
ChangePending ==
    \A w \in Writers : Written(w) /\ req[w].method # "POST" =>
        /\ changes[w] = Matching(snapshot[w], req[w].key)
        /\ changes[w] \cap stale[w] = {}
        /\ row[w] = IF req[w].method = "DELETE" THEN NoRow
                    ELSE [key |-> req[w].key, val |-> req[w].val]

\* Only a change of one row, with a key, gets as far as COMMIT.
OneRowToCommit ==
    \A w \in Writers : pc[w] = "commit" =>
        /\ \E i \in RowIds : changes[w] = {i}
        /\ req[w].method = "POST" => req[w].key # NullKey

IInv ==
    /\ TypeOK
    /\ NextRowPositive
    /\ UnusedSlots
    /\ NoWriteConflict
    /\ BeforeStatement
    /\ SnapshotCurrent
    /\ InsertPending
    /\ ChangePending
    /\ OneRowToCommit

-----------------------------------------------------------------------------
(* The invariant holds initially and every step preserves it.              *)

(***************************************************************************)
(* The server starts with no request and the table's rows in the first     *)
(* slots.                                                                  *)
(***************************************************************************)
LEMMA InitInv == Init => IInv
  <1>. SUFFICES ASSUME Init PROVE IInv
    OBVIOUS
  <1>1. (CHOOSE r \in Requests : TRUE) \in WriteRequests
    BY RequestsAssumption
  <1>2. NoTable \in Tables
    BY DEF NoTable, Tables
  <1>3. TypeOK
    <2>1. db \in Tables /\ nextRow \in Nat /\ sent \in 0 .. MaxRequests
      BY BoundsAssumption, InitialDbsAssumption DEF Init
    <2>2. req \in [Writers -> WriteRequests]
      BY <1>1 DEF Init
    <2>3. pc \in [Writers -> Steps] /\ status \in [Writers -> Statuses]
      BY DEF Init, Steps, Statuses
    <2>4. QED
      BY <1>2, <2>1, <2>2, <2>3 DEF Init, TypeOK
  <1>4. UnusedSlots /\ NextRowPositive
    BY BoundsAssumption DEF Init, UnusedSlots, NextRowPositive, RowIds
  <1>5. QED
    BY <1>3, <1>4 DEF Init, IInv, NoWriteConflict, BeforeStatement, SnapshotCurrent,
        InsertPending, ChangePending, OneRowToCommit, Begun, Written

(***************************************************************************)
(* Leaving ExecuteWrite without a COMMIT, by any of its error returns or   *)
(* an exception, only forgets what the transaction had changed.            *)
(***************************************************************************)
LEMMA AbortKeepsInv ==
    ASSUME IInv, NEW w \in Writers, NEW code \in Statuses, Return(w, code),
           UNCHANGED <<primaryKey, db, nextRow, sent, req, stale>>
    PROVE  IInv'
  <1>1. NoTable \in Tables
    BY DEF NoTable, Tables
  <1>2. TypeOK'
    BY <1>1 DEF IInv, TypeOK, Return, Steps
  <1>3. /\ pc'[w] = "idle" /\ changes'[w] = {}
        /\ \A v \in Writers \ {w} : /\ pc'[v] = pc[v] /\ changes'[v] = changes[v]
                                    /\ row'[v] = row[v] /\ snapshot'[v] = snapshot[v]
    BY DEF IInv, TypeOK, Return
  <1>4. UnusedSlots' /\ NoWriteConflict'
    BY <1>3 DEF IInv, UnusedSlots, NoWriteConflict
  <1>5. /\ BeforeStatement' /\ SnapshotCurrent' /\ InsertPending' /\ ChangePending'
        /\ OneRowToCommit' /\ NextRowPositive'
    BY <1>3 DEF IInv, NextRowPositive, BeforeStatement, SnapshotCurrent, InsertPending, ChangePending,
        OneRowToCommit, Begun, Written
  <1>6. QED
    BY <1>2, <1>4, <1>5 DEF IInv

(***************************************************************************)
(* A new request reaches an idle connection.                               *)
(***************************************************************************)
LEMMA ReceiveKeepsInv ==
    ASSUME IInv, NEW w \in Writers, NEW r \in Requests, Receive(w, r)
    PROVE  IInv'
  <1>1. TypeOK'
    BY RequestsAssumption, BoundsAssumption DEF IInv, TypeOK, Receive, Steps, Statuses
  <1>2. /\ pc'[w] = "validate"
        /\ \A v \in Writers \ {w} : pc'[v] = pc[v] /\ req'[v] = req[v]
        /\ UNCHANGED <<db, nextRow, snapshot, changes, row, stale>>
        /\ pc[w] = "idle"
    BY DEF IInv, TypeOK, Receive
  <1>3. QED
    BY <1>1, <1>2 DEF IInv, NextRowPositive, UnusedSlots, NoWriteConflict, BeforeStatement, SnapshotCurrent,
        InsertPending, ChangePending, OneRowToCommit, Begun, Written

(***************************************************************************)
(* Passing validation, or being refused.                                   *)
(***************************************************************************)
LEMMA ValidateKeepsInv ==
    ASSUME IInv, NEW w \in Writers, Validate(w)
    PROVE  IInv'
  <1>1. CASE Return(w, 400) \/ Return(w, 415)
    BY <1>1, AbortKeepsInv DEF Validate, Statuses
  <1>2. CASE ~(Return(w, 400) \/ Return(w, 415))
    <2>1. /\ req[w].valid /\ pc[w] = "validate"
          /\ pc' = [pc EXCEPT ![w] = "begin"]
          /\ UNCHANGED <<primaryKey, db, nextRow, sent, req, stale, snapshot, changes, row, status>>
      BY <1>2 DEF Validate
    <2>2. TypeOK'
      BY <2>1 DEF IInv, TypeOK, Steps
    <2>3. pc'[w] = "begin" /\ \A v \in Writers \ {w} : pc'[v] = pc[v]
      BY <2>1 DEF IInv, TypeOK
    <2>4. QED
      BY <2>1, <2>2, <2>3 DEF IInv, NextRowPositive, UnusedSlots, NoWriteConflict,
        BeforeStatement, SnapshotCurrent, InsertPending, ChangePending, OneRowToCommit, Begun, Written
  <1>3. QED
    BY <1>1, <1>2

(***************************************************************************)
(* BEGIN TRANSACTION takes a snapshot of what is committed.                *)
(***************************************************************************)
LEMMA BeginKeepsInv ==
    ASSUME IInv, NEW w \in Writers, Begin(w)
    PROVE  IInv'
  <1>1. CASE Return(w, 500) /\ UNCHANGED stale
    BY <1>1, AbortKeepsInv DEF Begin, Statuses
  <1>2. CASE ~(Return(w, 500) /\ UNCHANGED stale)
    <2>1. /\ pc[w] = "begin"
          /\ pc' = [pc EXCEPT ![w] = "execute"]
          /\ snapshot' = [snapshot EXCEPT ![w] = db]
          /\ stale' = [stale EXCEPT ![w] = {}]
          /\ UNCHANGED <<primaryKey, db, nextRow, sent, req, changes, row, status>>
      BY <1>2 DEF Begin
    <2>2. TypeOK'
      BY <2>1 DEF IInv, TypeOK, Steps
    <2>3. /\ pc'[w] = "execute" /\ snapshot'[w] = db /\ stale'[w] = {}
          /\ \A v \in Writers \ {w} : /\ pc'[v] = pc[v] /\ snapshot'[v] = snapshot[v]
                                      /\ stale'[v] = stale[v]
      BY <2>1 DEF IInv, TypeOK
    <2>4. NextRowPositive' /\ UnusedSlots' /\ NoWriteConflict' /\ BeforeStatement'
      BY <2>1, <2>3 DEF IInv, NextRowPositive, UnusedSlots, NoWriteConflict, BeforeStatement, Written
    <2>5. SnapshotCurrent' /\ InsertPending' /\ ChangePending' /\ OneRowToCommit'
      BY <2>1, <2>3 DEF IInv, SnapshotCurrent, InsertPending, ChangePending, OneRowToCommit,
        Begun, Written
    <2>6. QED
      BY <2>2, <2>4, <2>5 DEF IInv
  <1>3. QED
    BY <1>1, <1>2

(***************************************************************************)
(* The INSERT takes the next slot, which no one has used.                  *)
(***************************************************************************)
LEMMA InsertKeepsInv ==
    ASSUME IInv, NEW w \in Writers, ExecuteInsert(w)
    PROVE  IInv'
  <1>1. nextRow \in RowIds
    <2>1. nextRow >= 1
      BY DEF IInv, NextRowPositive
    <2>2. QED
      BY <2>1, BoundsAssumption DEF IInv, TypeOK, ExecuteInsert, RowIds
  <1>2. /\ pc'[w] = "fetch" /\ changes'[w] = {nextRow} /\ pc[w] = "execute"
        /\ row'[w] = [key |-> req[w].key, val |-> req[w].val]
        /\ \A v \in Writers \ {w} : /\ pc'[v] = pc[v] /\ changes'[v] = changes[v]
                                    /\ row'[v] = row[v]
        /\ UNCHANGED <<db, req, snapshot, stale>>
        /\ nextRow' = nextRow + 1 /\ nextRow \in Nat /\ req[w].method = "POST"
    BY DEF IInv, TypeOK, ExecuteInsert
  <1>3. TypeOK'
    <2>1. [key |-> req[w].key, val |-> req[w].val] \in Rows
      BY DEF IInv, TypeOK, WriteRequests, Rows
    <2>2. QED
      BY <1>1, <2>1 DEF IInv, TypeOK, ExecuteInsert, Steps
  <1>4. /\ db[nextRow] = NoRow
        /\ \A v \in Writers : nextRow \notin changes[v] \cup stale[v]
    BY <1>1, <1>2 DEF IInv, UnusedSlots
  <1>5. UnusedSlots' /\ NextRowPositive'
    <2>1. ASSUME NEW i \in RowIds, i >= nextRow' PROVE i >= nextRow /\ i # nextRow
      BY <1>2, <2>1 DEF RowIds
    <2>2. QED
      BY <1>2, <2>1 DEF IInv, UnusedSlots, NextRowPositive
  <1>6. NoWriteConflict'
    BY <1>2, <1>4 DEF IInv, NoWriteConflict
  <1>7. BeforeStatement' /\ SnapshotCurrent' /\ OneRowToCommit'
    BY <1>2 DEF IInv, BeforeStatement, SnapshotCurrent, OneRowToCommit, Begun, Written
  <1>8. InsertPending' /\ ChangePending'
    BY <1>1, <1>2, <1>4 DEF IInv, InsertPending, ChangePending, Written
  <1>9. QED
    BY <1>3, <1>5, <1>6, <1>7, <1>8 DEF IInv

(***************************************************************************)
(* The UPDATE or DELETE changes rows that no open transaction has changed  *)
(* and that nobody has committed since the snapshot.                       *)
(***************************************************************************)
LEMMA ChangeKeepsInv ==
    ASSUME IInv, NEW w \in Writers, ExecuteChange(w)
    PROVE  IInv'
  <1>. DEFINE M == Matching(snapshot[w], req[w].key)
              new == IF req[w].method = "DELETE" THEN NoRow
                     ELSE [key |-> req[w].key, val |-> req[w].val]
  <1>1. M \subseteq RowIds /\ \A i \in M : snapshot[w][i] # NoRow
    BY DEF Matching
  <1>2. M \cap stale[w] = {} /\ \A v \in Writers \ {w} : M \cap changes[v] = {}
    BY DEF ExecuteChange, Blocked
  <1>3. /\ pc'[w] = "fetch" /\ changes'[w] = M /\ row'[w] = new /\ pc[w] = "execute"
        /\ \A v \in Writers \ {w} : /\ pc'[v] = pc[v] /\ changes'[v] = changes[v]
                                    /\ row'[v] = row[v]
        /\ UNCHANGED <<db, nextRow, req, snapshot, stale>>
        /\ req[w].method # "POST"
    BY DEF IInv, TypeOK, ExecuteChange
  <1>4. TypeOK'
    <2>1. new \in Rows \cup {NoRow}
      BY DEF IInv, TypeOK, WriteRequests, Rows
    <2>. HIDE DEF new, M
    <2>2. QED
      <3>1. changes' = [changes EXCEPT ![w] = M] /\ row' = [row EXCEPT ![w] = new]
        BY DEF ExecuteChange, M, new
      <3>2. QED
        BY <1>1, <2>1, <3>1 DEF IInv, TypeOK, ExecuteChange, Steps
  <1>. HIDE DEF M
  <1>5. \A i \in M : i < nextRow
    <2>1. SUFFICES ASSUME NEW i \in M, i >= nextRow PROVE FALSE
      BY <1>1 DEF IInv, TypeOK, RowIds
    <2>2. i \in RowIds /\ i \notin stale[w] /\ db[i] = NoRow
      BY <1>1, <2>1 DEF IInv, UnusedSlots
    <2>3. snapshot[w][i] = db[i]
      BY <1>3, <2>2 DEF IInv, SnapshotCurrent, Begun
    <2>4. QED
      BY <1>1, <2>2, <2>3
  <1>6. UnusedSlots' /\ NextRowPositive'
    BY <1>3, <1>5 DEF IInv, TypeOK, UnusedSlots, NextRowPositive, RowIds
  <1>7. NoWriteConflict'
    BY <1>2, <1>3 DEF IInv, NoWriteConflict
  <1>8. BeforeStatement' /\ SnapshotCurrent' /\ OneRowToCommit'
    BY <1>3 DEF IInv, BeforeStatement, SnapshotCurrent, OneRowToCommit, Begun, Written
  <1>9. InsertPending' /\ ChangePending'
    BY <1>2, <1>3 DEF IInv, InsertPending, ChangePending, Written, M
  <1>10. QED
    BY <1>4, <1>6, <1>7, <1>8, <1>9 DEF IInv

(***************************************************************************)
(* The RETURNING rows are counted: only one row, with a key, goes on.      *)
(***************************************************************************)
LEMMA FetchKeepsInv ==
    ASSUME IInv, NEW w \in Writers, Fetch(w)
    PROVE  IInv'
  <1>1. CASE \E code \in {404, 409} : Return(w, code)
    BY <1>1, AbortKeepsInv DEF Fetch, Statuses
  <1>2. CASE ~\E code \in {404, 409} : Return(w, code)
    <2>1. /\ pc[w] = "fetch"
          /\ Cardinality(changes[w]) = 1
          /\ ~(req[w].method = "POST" /\ row[w].key = NullKey)
          /\ pc' = [pc EXCEPT ![w] = "commit"]
          /\ UNCHANGED <<primaryKey, db, nextRow, sent, req, stale, snapshot, changes, row, status>>
      BY <1>2 DEF Fetch
    <2>2. \E i \in RowIds : changes[w] = {i}
      <3>1. changes[w] \subseteq RowIds /\ IsFiniteSet(changes[w])
        <4>1. IsFiniteSet(RowIds)
          BY BoundsAssumption, FS_Interval DEF RowIds
        <4>2. QED
          BY <4>1, FS_Subset DEF IInv, TypeOK
      <3>2. QED
        BY <2>1, <3>1, FS_Singleton
    <2>3. req[w].method = "POST" => req[w].key # NullKey
      <3>1. SUFFICES ASSUME req[w].method = "POST" PROVE row[w].key = req[w].key
        BY <2>1
      <3>2. row[w] = [key |-> req[w].key, val |-> req[w].val]
        BY <2>1, <3>1 DEF IInv, InsertPending, Written
      <3>3. QED
        BY <3>2
    <2>4. TypeOK'
      BY <2>1 DEF IInv, TypeOK, Steps
    <2>5. pc'[w] = "commit" /\ \A v \in Writers \ {w} : pc'[v] = pc[v]
      BY <2>1 DEF IInv, TypeOK
    <2>6. UnusedSlots' /\ NoWriteConflict' /\ BeforeStatement' /\ NextRowPositive'
      BY <2>1, <2>5 DEF IInv, UnusedSlots, NoWriteConflict, BeforeStatement, Written,
        NextRowPositive
    <2>7. SnapshotCurrent' /\ InsertPending' /\ ChangePending' /\ OneRowToCommit'
      BY <2>1, <2>2, <2>3, <2>5 DEF IInv, SnapshotCurrent, InsertPending, ChangePending,
        OneRowToCommit, Begun, Written
    <2>8. QED
      BY <2>4, <2>6, <2>7 DEF IInv
  <1>3. QED
    BY <1>1, <1>2

(***************************************************************************)
(* A COMMIT stores the changed row; every other open transaction now       *)
(* counts it among the rows it may not change.                             *)
(***************************************************************************)
LEMMA CommitKeepsInv ==
    ASSUME IInv, NEW w \in Writers, Commit(w)
    PROVE  IInv'
  <1>. DEFINE code == IF req[w].method = "POST" THEN 201 ELSE 204
  <1>1. /\ pc'[w] = "idle" /\ changes'[w] = {}
        /\ \A v \in Writers \ {w} : /\ pc'[v] = pc[v] /\ changes'[v] = changes[v]
                                    /\ row'[v] = row[v] /\ snapshot'[v] = snapshot[v]
                                    /\ stale'[v] = stale[v] \cup changes[w]
        /\ stale'[w] = stale[w]
        /\ UNCHANGED <<nextRow, req>>
        /\ \A i \in RowIds : db'[i] = IF i \in changes[w] THEN row[w] ELSE db[i]
    BY DEF IInv, TypeOK, Commit, Return
  <1>2. TypeOK'
    <2>1. NoTable \in Tables /\ code \in Statuses
      BY DEF NoTable, Tables, Statuses
    <2>2. db' \in Tables /\ stale' \in [Writers -> SUBSET RowIds]
      BY DEF IInv, TypeOK, Commit, Tables
    <2>3. Return(w, code) /\ UNCHANGED <<primaryKey, nextRow, sent, req>>
      BY DEF Commit
    <2>. HIDE DEF code
    <2>4. QED
      BY <2>1, <2>2, <2>3 DEF IInv, TypeOK, Return, Steps
  <1>3. changes[w] \subseteq RowIds /\ \A i \in changes[w] : ~(i >= nextRow)
    BY DEF IInv, TypeOK, UnusedSlots
  <1>4. \A v \in Writers \ {w} : changes[v] \cap changes[w] = {}
    BY DEF IInv, NoWriteConflict
  <1>5. UnusedSlots' /\ NextRowPositive'
    BY <1>1, <1>3 DEF IInv, UnusedSlots, NextRowPositive
  <1>6. NoWriteConflict' /\ BeforeStatement' /\ OneRowToCommit'
    BY <1>1 DEF IInv, NoWriteConflict, BeforeStatement, OneRowToCommit, Written
  <1>7. SnapshotCurrent'
    BY <1>1 DEF IInv, SnapshotCurrent, Begun
  <1>8. InsertPending'
    BY <1>1, <1>4 DEF IInv, InsertPending, Written
  <1>9. ChangePending'
    BY <1>1, <1>4 DEF IInv, ChangePending, Written
  <1>10. QED
    BY <1>2, <1>5, <1>6, <1>7, <1>8, <1>9 DEF IInv

(***************************************************************************)
(* Every step of a connection, and every request it receives, preserves    *)
(* the invariant.                                                          *)
(***************************************************************************)
LEMMA NextInv == IInv /\ [Next]_vars => IInv'
  <1>. SUFFICES ASSUME IInv, [Next]_vars PROVE IInv'
    OBVIOUS
  <1>1. CASE UNCHANGED vars
    BY <1>1 DEF vars, IInv, TypeOK, UnusedSlots, NextRowPositive, NoWriteConflict,
        BeforeStatement, SnapshotCurrent, InsertPending, ChangePending, OneRowToCommit,
        Begun, Written
  <1>2. ASSUME NEW w \in Writers, NEW r \in Requests, Receive(w, r) PROVE IInv'
    BY <1>2, ReceiveKeepsInv
  <1>3. ASSUME NEW w \in Writers, WriteStep(w) PROVE IInv'
    <2>1. CASE Validate(w)
      BY <2>1, ValidateKeepsInv
    <2>2. CASE Begin(w)
      BY <2>2, BeginKeepsInv
    <2>3. CASE ExecuteInsert(w)
      BY <2>3, InsertKeepsInv
    <2>4. CASE ExecuteChange(w)
      BY <2>4, ChangeKeepsInv
    <2>5. CASE Fetch(w)
      BY <2>5, FetchKeepsInv
    <2>6. CASE Commit(w)
      BY <2>6, CommitKeepsInv
    <2>7. CASE ExecuteFails(w) \/ CommitFails(w) \/ Throws(w)
      BY <2>7, AbortKeepsInv DEF ExecuteFails, CommitFails, Throws, Statuses
    <2>8. QED
      BY <1>3, <2>1, <2>2, <2>3, <2>4, <2>5, <2>6, <2>7 DEF WriteStep
  <1>4. QED
    BY <1>1, <1>2, <1>3 DEF Next

-----------------------------------------------------------------------------
(* The theorems.                                                           *)

(***************************************************************************)
(* TypeOK holds throughout: every connection is at a step of ExecuteWrite  *)
(* and answers a status that it can answer.                                *)
(***************************************************************************)
THEOREM WriteTypeCorrect == Spec => []TypeOK
  <1>1. IInv => TypeOK
    BY DEF IInv
  <1>2. QED
    BY <1>1, InitInv, NextInv, PTL DEF Spec

(***************************************************************************)
(* At COMMIT, an UPDATE or DELETE replaces the one row with the request's  *)
(* key and an INSERT fills a free slot: the effect that AtomicWrites       *)
(* allows.                                                                 *)
(***************************************************************************)
LEMMA CommitHasEffect ==
    ASSUME IInv, NEW w \in Writers, Commit(w)
    PROVE  Abstract!Effect(db, db', req[w])
  <1>1. PICK i \in RowIds : changes[w] = {i}
    BY DEF IInv, OneRowToCommit, Commit
  <1>2. db' = [db EXCEPT ![i] = row[w]]
    BY <1>1 DEF IInv, TypeOK, Tables, Commit
  <1>3. Written(w) /\ Begun(w)
    BY DEF Commit, Written, Begun
  <1>4. CASE req[w].method = "POST"
    <2>1. db[i] = NoRow /\ row[w] = [key |-> req[w].key, val |-> req[w].val]
      BY <1>1, <1>3, <1>4 DEF IInv, InsertPending
    <2>2. req[w].key # NullKey
      BY <1>4 DEF IInv, OneRowToCommit, Commit
    <2>3. primaryKey => Abstract!Matching(db, req[w].key) = {}
      BY <1>4 DEF Commit, Matching, Abstract!Matching, RowIds, Abstract!RowIds
    <2>4. QED
      BY <1>2, <1>4, <2>1, <2>2, <2>3
        DEF Abstract!Effect, Abstract!Replaced, RowIds, Abstract!RowIds
  <1>5. CASE req[w].method # "POST"
    <2>1. /\ i \in Matching(snapshot[w], req[w].key) /\ i \notin stale[w]
          /\ row[w] = IF req[w].method = "DELETE" THEN NoRow
                      ELSE [key |-> req[w].key, val |-> req[w].val]
      BY <1>1, <1>3, <1>5 DEF IInv, ChangePending
    <2>2. snapshot[w][i] = db[i]
      BY <1>3, <2>1 DEF IInv, SnapshotCurrent
    <2>3. i \in Abstract!Matching(db, req[w].key)
      BY <2>1, <2>2 DEF Matching, Abstract!Matching, RowIds, Abstract!RowIds
    <2>4. req[w].method \in {"PATCH", "DELETE"}
      BY <1>5 DEF IInv, TypeOK, WriteRequests
    <2>5. QED
      BY <1>2, <2>1, <2>3, <2>4 DEF Abstract!Effect, Abstract!Replaced
  <1>6. QED
    BY <1>4, <1>5

(***************************************************************************)
(* A step of ExecuteWrite that does not return is invisible to the client, *)
(* an error return is a Fail, and COMMIT is a Succeed of AtomicWrites.     *)
(***************************************************************************)
LEMMA StepRefines == IInv /\ [Next]_vars => [Abstract!Next]_(Abstract!vars)
  <1>. DEFINE ans == [w \in Writers |-> Answered(w)]
  <1>. SUFFICES ASSUME IInv, [Next]_vars
                PROVE  Abstract!Next \/ UNCHANGED <<primaryKey, db, req, ans>>
    BY DEF Abstract!vars
  <1>0. TypeOK /\ TypeOK'
    BY NextInv DEF IInv
  <1>1. \A w \in Writers : /\ Answered(w) = ans[w] /\ Answered(w)' = ans'[w]
                           /\ pc[w] # "idle" => ans[w] = "pending"
                           /\ pc[w] = "idle" => ans[w] # "pending"
                           /\ pc'[w] # "idle" => ans'[w] = "pending"
                           /\ pc'[w] = "idle" /\ status'[w] \in {201, 204} => ans'[w] = "success"
                           /\ pc'[w] = "idle" /\ status'[w] \notin {0, 201, 204} => ans'[w] = "error"
                           /\ pc'[w] = pc[w] /\ status'[w] = status[w] => ans'[w] = ans[w]
    BY DEF Answered
  <1>2. /\ ans = [w \in Writers |-> ans[w]] /\ ans' = [w \in Writers |-> ans'[w]]
    OBVIOUS
  <1>. HIDE DEF ans
  <1>3. ASSUME NEW w \in Writers, NEW a, ans'[w] = a,
               \A v \in Writers \ {w} : pc'[v] = pc[v] /\ status'[v] = status[v]
        PROVE  ans' = [ans EXCEPT ![w] = a]
    <2>1. \A v \in Writers \ {w} : ans'[v] = ans[v]
      BY <1>1, <1>3
    <2>2. QED
      BY <1>2, <1>3, <2>1
  <1>4. CASE UNCHANGED vars
    <2>1. \A w \in Writers : ans'[w] = ans[w]
      BY <1>1, <1>4 DEF vars
    <2>2. QED
      BY <1>2, <1>4, <2>1 DEF vars
  <1>5. ASSUME NEW w \in Writers, NEW r \in Requests, Receive(w, r)
        PROVE  Abstract!Next
    <2>1. r \in Abstract!WriteRequests
      BY RequestsAssumption DEF WriteRequests, Abstract!WriteRequests
    <2>2. /\ ans[w] # "pending" /\ ans'[w] = "pending"
          /\ \A v \in Writers \ {w} : pc'[v] = pc[v] /\ status'[v] = status[v]
      BY <1>0, <1>1, <1>5 DEF Receive, TypeOK
    <2>3. ans' = [ans EXCEPT ![w] = "pending"]
      BY <1>3, <2>2
    <2>4. Abstract!Submit(w, r)
      BY <1>5, <2>2, <2>3 DEF Abstract!Submit, Receive, ans
    <2>5. QED
      BY <2>1, <2>4 DEF Abstract!Next
  <1>6. ASSUME NEW w \in Writers, WriteStep(w)
        PROVE  Abstract!Next \/ UNCHANGED <<primaryKey, db, req, ans>>
    <2>0. pc[w] # "idle" /\ ans[w] = "pending"
      BY <1>1, <1>6 DEF WriteStep, Validate, Begin, ExecuteInsert, ExecuteChange, ExecuteFails,
        Fetch, Commit, CommitFails, Throws
    <2>1. ASSUME NEW code \in {400, 404, 409, 415, 500}, Return(w, code),
                 UNCHANGED <<primaryKey, db, req>>
          PROVE  Abstract!Next
      <3>1. /\ ans'[w] = "error"
            /\ \A v \in Writers \ {w} : pc'[v] = pc[v] /\ status'[v] = status[v]
        BY <1>0, <1>1, <2>1 DEF Return, TypeOK
      <3>2. ans' = [ans EXCEPT ![w] = "error"]
        BY <1>3, <3>1
      <3>3. Abstract!Fail(w)
        BY <2>0, <2>1, <3>2 DEF Abstract!Fail, ans
      <3>4. QED
        BY <3>3 DEF Abstract!Next
    <2>2. ASSUME UNCHANGED <<primaryKey, db, req>>, UNCHANGED status,
                 NEW step \in Steps, step # "idle", pc' = [pc EXCEPT ![w] = step]
          PROVE  UNCHANGED <<primaryKey, db, req, ans>>
      <3>1. /\ ans'[w] = ans[w]
            /\ \A v \in Writers \ {w} : ans'[v] = ans[v]
        BY <1>0, <1>1, <2>0, <2>2 DEF TypeOK
      <3>2. QED
        BY <1>2, <2>2, <3>1
    <2>3. CASE Validate(w)
      BY <2>1, <2>2, <2>3 DEF Validate, Steps
    <2>4. CASE Begin(w)
      BY <2>1, <2>2, <2>4 DEF Begin, Steps
    <2>5. CASE ExecuteInsert(w)
      BY <2>2, <2>5 DEF ExecuteInsert, Steps
    <2>6. CASE ExecuteChange(w)
      BY <2>2, <2>6 DEF ExecuteChange, Steps
    <2>7. CASE Fetch(w)
      BY <2>1, <2>2, <2>7 DEF Fetch, Steps
    <2>8. CASE ExecuteFails(w) \/ CommitFails(w) \/ Throws(w)
      BY <2>1, <2>8 DEF ExecuteFails, CommitFails, Throws
    <2>9. CASE Commit(w)
      <3>1. Abstract!Effect(db, db', req[w])
        BY <2>9, CommitHasEffect
      <3>2. req[w].valid
        BY <2>9 DEF IInv, BeforeStatement, Commit
      <3>3. /\ ans'[w] = "success"
            /\ \A v \in Writers \ {w} : pc'[v] = pc[v] /\ status'[v] = status[v]
        BY <1>0, <1>1, <2>9 DEF Commit, Return, TypeOK
      <3>4. ans' = [ans EXCEPT ![w] = "success"]
        BY <1>3, <3>3
      <3>5. Abstract!Succeed(w)
        BY <2>0, <2>9, <3>1, <3>2, <3>4 DEF Abstract!Succeed, Commit, ans
      <3>6. QED
        BY <3>5 DEF Abstract!Next
    <2>10. QED
      BY <1>6, <2>3, <2>4, <2>5, <2>6, <2>7, <2>8, <2>9 DEF WriteStep
  <1>7. QED
    BY <1>4, <1>5, <1>6 DEF Next

(***************************************************************************)
(* ExecuteWrite implements AtomicWrites, whatever the number of            *)
(* connections, rows and requests: a write takes effect entirely, once and *)
(* on the one row its key names, at its COMMIT, or not at all, and its     *)
(* status tells which.                                                     *)
(***************************************************************************)
THEOREM WritesAreAtomic == Spec => ImplementsAtomicWrites
  <1>1. Init => Abstract!Init
    <2>. SUFFICES ASSUME Init PROVE Abstract!Init
      OBVIOUS
    <2>1. TypeOK
      BY InitInv DEF IInv
    <2>2. [w \in Writers |-> Answered(w)] = [w \in Writers |-> "none"]
      BY DEF Init, Answered
    <2>3. QED
      BY <2>1, <2>2 DEF Abstract!Init, TypeOK, Tables, Rows, RowIds, WriteRequests,
        Abstract!Rows, Abstract!RowIds, Abstract!WriteRequests
  <1>2. QED
    BY <1>1, InitInv, NextInv, StepRefines, PTL DEF Spec, ImplementsAtomicWrites, Abstract!Spec
=============================================================================
