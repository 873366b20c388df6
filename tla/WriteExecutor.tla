----------------------------- MODULE WriteExecutor -----------------------------
(***************************************************************************)
(* ExecuteWrite: one POST, PATCH or DELETE per connection, each in a       *)
(* transaction of its own, while other connections write the same table.   *)
(*                                                                         *)
(* DuckDB is modelled by what ExecuteWrite relies on: a transaction works  *)
(* on a snapshot and on its own changes; changing a row that another       *)
(* transaction has changed meanwhile fails; a primary key is checked when  *)
(* a row is inserted and again when the insertion is committed; a failed   *)
(* COMMIT and a ROLLBACK leave nothing behind.                             *)
(***************************************************************************)
EXTENDS Naturals, FiniteSets

CONSTANTS
    Writers, Keys, Vals, NullKey, NoRow, MaxRows,
    Requests,     \* the write requests clients may send
    InitialDbs,   \* tables to start from
    MaxRequests   \* bound on the number of requests

RowIds == 1 .. MaxRows
Rows   == [key: Keys \cup {NullKey}, val: Vals]

WriteRequests == [method: {"POST", "PATCH", "DELETE"}, key: Keys \cup {NullKey},
                  val: Vals, valid: BOOLEAN]

Tables == [RowIds -> Rows \cup {NoRow}]

Matching(t, k) == {i \in RowIds : t[i] # NoRow /\ t[i].key = k}

ASSUME RequestsAssumption   == Requests \subseteq WriteRequests /\ Requests # {}
ASSUME BoundsAssumption     == MaxRows \in Nat /\ MaxRequests \in Nat
ASSUME NullsAssumption      == NullKey \notin Keys /\ NoRow \notin Rows
ASSUME InitialDbsAssumption == InitialDbs \subseteq Tables

\* A table that a primary key allows: every row has a key of its own.
UniqueKeys(t) ==
    \A i, j \in RowIds :
        t[i] # NoRow /\ t[j] # NoRow => t[i].key # NullKey /\ (t[i].key = t[j].key => i = j)

VARIABLES
    primaryKey, \* whether the key column is a PRIMARY KEY (else chosen by odata_entity)
    db,         \* the committed table
    nextRow,    \* the next row slot to be used by an insertion
    sent,       \* requests sent so far
    pc,         \* pc[w]: where ExecuteWrite is
    req,        \* req[w]: the request
    snapshot,   \* snapshot[w]: the table as w's transaction first saw it
    changes,    \* changes[w]: the rows w's transaction has changed
    row,        \* row[w]: what it has changed them to
    stale,      \* stale[w]: rows committed by others since w's snapshot
    status      \* status[w]: the HTTP status answered

vars == <<primaryKey, db, nextRow, sent, pc, req, snapshot, changes, row, stale, status>>

Steps == {"idle", "validate", "begin", "execute", "fetch", "commit"}
Statuses == {0, 201, 204, 400, 404, 409, 415, 500}

TypeOK ==
    /\ primaryKey \in BOOLEAN
    /\ db \in Tables
    /\ nextRow \in Nat
    /\ sent \in 0 .. MaxRequests
    /\ pc \in [Writers -> Steps]
    /\ req \in [Writers -> WriteRequests]
    /\ snapshot \in [Writers -> Tables]
    /\ changes \in [Writers -> SUBSET RowIds]
    /\ row \in [Writers -> Rows \cup {NoRow}]
    /\ stale \in [Writers -> SUBSET RowIds]
    /\ status \in [Writers -> Statuses]

NoTable == [i \in RowIds |-> NoRow]

Init ==
    /\ primaryKey \in BOOLEAN
    /\ db \in InitialDbs
    /\ primaryKey => UniqueKeys(db)
    /\ nextRow \in 1 .. MaxRows + 1
    /\ {i \in RowIds : db[i] # NoRow} = 1 .. nextRow - 1
    /\ sent = 0
    /\ pc = [w \in Writers |-> "idle"]
    /\ req \in [Writers -> {CHOOSE r \in Requests : TRUE}]
    /\ snapshot = [w \in Writers |-> NoTable]
    /\ changes = [w \in Writers |-> {}]
    /\ row = [w \in Writers |-> NoRow]
    /\ stale = [w \in Writers |-> {}]
    /\ status = [w \in Writers |-> 0]

-----------------------------------------------------------------------------

\* The request returns an HTTP status; ~Transaction has rolled back whatever
\* is not committed.
Return(w, code) ==
    /\ pc' = [pc EXCEPT ![w] = "idle"]
    /\ status' = [status EXCEPT ![w] = code]
    /\ snapshot' = [snapshot EXCEPT ![w] = NoTable]
    /\ changes' = [changes EXCEPT ![w] = {}]
    /\ row' = [row EXCEPT ![w] = NoRow]

\* Rows that a transaction other than w's has changed and w cannot change.
Blocked(w) == stale[w] \cup UNION {changes[v] : v \in Writers \ {w}}

\* A write request reaches ExecuteWrite (possibly a client's retry).
Receive(w, r) ==
    /\ pc[w] = "idle"
    /\ sent < MaxRequests
    /\ sent' = sent + 1
    /\ req' = [req EXCEPT ![w] = r]
    /\ status' = [status EXCEPT ![w] = 0]
    /\ pc' = [pc EXCEPT ![w] = "validate"]
    /\ UNCHANGED <<primaryKey, db, nextRow, snapshot, changes, row, stale>>

\* Options, key, content type and body are checked before any SQL runs; only
\* POST and PATCH have a body, and 415 if it is not announced as JSON.
Validate(w) ==
    /\ pc[w] = "validate"
    /\ \/ /\ ~req[w].valid
          /\ \/ Return(w, 400)
             \/ req[w].method \in {"POST", "PATCH"} /\ Return(w, 415)
       \/ /\ req[w].valid
          /\ pc' = [pc EXCEPT ![w] = "begin"]
          /\ UNCHANGED <<snapshot, changes, row, status>>
    /\ UNCHANGED <<primaryKey, db, nextRow, sent, req, stale>>

\* BEGIN TRANSACTION, or its failure.
Begin(w) ==
    /\ pc[w] = "begin"
    /\ \/ /\ pc' = [pc EXCEPT ![w] = "execute"]
          /\ snapshot' = [snapshot EXCEPT ![w] = db]
          /\ stale' = [stale EXCEPT ![w] = {}]
          /\ UNCHANGED <<changes, row, status>>
       \/ /\ Return(w, 500)
          /\ UNCHANGED stale
    /\ UNCHANGED <<primaryKey, db, nextRow, sent, req>>

\* The statement runs: an INSERT adds a row, an UPDATE or DELETE changes every
\* row of the snapshot with the key.
ExecuteInsert(w) ==
    /\ pc[w] = "execute"
    /\ req[w].method = "POST"
    /\ primaryKey => /\ req[w].key # NullKey
                     /\ Matching(db, req[w].key) = {}
    /\ nextRow <= MaxRows
    /\ nextRow' = nextRow + 1
    /\ changes' = [changes EXCEPT ![w] = {nextRow}]
    /\ row' = [row EXCEPT ![w] = [key |-> req[w].key, val |-> req[w].val]]
    /\ pc' = [pc EXCEPT ![w] = "fetch"]
    /\ UNCHANGED <<primaryKey, db, sent, req, snapshot, stale, status>>

ExecuteChange(w) ==
    /\ pc[w] = "execute"
    /\ req[w].method \in {"PATCH", "DELETE"}
    /\ Matching(snapshot[w], req[w].key) \cap Blocked(w) = {}
    /\ changes' = [changes EXCEPT ![w] = Matching(snapshot[w], req[w].key)]
    /\ row' = [row EXCEPT ![w] = IF req[w].method = "DELETE" THEN NoRow
                                 ELSE [key |-> req[w].key, val |-> req[w].val]]
    /\ pc' = [pc EXCEPT ![w] = "fetch"]
    /\ UNCHANGED <<primaryKey, db, nextRow, sent, req, snapshot, stale, status>>

\* Preparing or executing fails: a constraint or a conflicting transaction
\* (409), a value that cannot be cast or a table that is gone (400).
ExecuteFails(w) ==
    /\ pc[w] = "execute"
    /\ \E code \in {400, 409} : Return(w, code)
    /\ UNCHANGED <<primaryKey, db, nextRow, sent, req, stale>>

\* The RETURNING rows decide: none (404), several (409, rolled back), or an
\* inserted row without a key (409, rolled back).
Fetch(w) ==
    /\ pc[w] = "fetch"
    /\ \/ /\ changes[w] = {}
          /\ Return(w, 404)
       \/ /\ Cardinality(changes[w]) > 1
          /\ Return(w, 409)
       \/ /\ Cardinality(changes[w]) = 1
          /\ req[w].method = "POST" /\ row[w].key = NullKey
          /\ Return(w, 409)
       \/ /\ Cardinality(changes[w]) = 1
          /\ ~(req[w].method = "POST" /\ row[w].key = NullKey)
          /\ pc' = [pc EXCEPT ![w] = "commit"]
          /\ UNCHANGED <<snapshot, changes, row, status>>
    /\ UNCHANGED <<primaryKey, db, nextRow, sent, req, stale>>

\* Mutant of Commit: a wrong status code.
CommitAnswers200(w) ==
    /\ pc[w] = "commit"
    /\ db' = [i \in RowIds |-> IF i \in changes[w] THEN row[w] ELSE db[i]]
    /\ Return(w, 200)
    /\ UNCHANGED <<primaryKey, nextRow, sent, req, stale>>

\* COMMIT succeeds, and with it the request.
Commit(w) ==
    /\ pc[w] = "commit"
    /\ primaryKey /\ req[w].method = "POST" => Matching(db, req[w].key) = {}
    /\ db' = [i \in RowIds |-> IF i \in changes[w] THEN row[w] ELSE db[i]]
    /\ stale' = [v \in Writers |-> IF v = w THEN stale[v] ELSE stale[v] \cup changes[w]]
    /\ Return(w, IF req[w].method = "POST" THEN 201 ELSE 204)
    /\ UNCHANGED <<primaryKey, nextRow, sent, req>>

\* Mutant of CommitFails: the error of COMMIT is not looked at.
CommitErrorIgnored(w) ==
    /\ pc[w] = "commit"
    /\ Return(w, IF req[w].method = "POST" THEN 201 ELSE 204)
    /\ UNCHANGED <<primaryKey, db, nextRow, sent, req, stale>>

\* COMMIT fails.
CommitFails(w) ==
    /\ pc[w] = "commit"
    /\ Return(w, 409)
    /\ UNCHANGED <<primaryKey, db, nextRow, sent, req, stale>>

\* Some call into DuckDB throws: HandleConnection answers 500.
Throws(w) ==
    /\ pc[w] \in {"begin", "execute", "fetch", "commit"}
    /\ Return(w, 500)
    /\ UNCHANGED <<primaryKey, db, nextRow, sent, req, stale>>

WriteStep(w) ==
    \/ Validate(w) \/ Begin(w) \/ ExecuteInsert(w) \/ ExecuteChange(w) \/ ExecuteFails(w)
    \/ Fetch(w) \/ Commit(w) \/ CommitFails(w) \/ Throws(w)

Next == \E w \in Writers : WriteStep(w) \/ \E r \in Requests : Receive(w, r)

Spec == Init /\ [][Next]_vars

-----------------------------------------------------------------------------
(* Properties.                                                             *)

\* The HTTP status as the client of AtomicWrites sees it.
Answered(w) ==
    CASE pc[w] # "idle" -> "pending"
      [] pc[w] = "idle" /\ status[w] = 0 -> "none"
      [] pc[w] = "idle" /\ status[w] \in {201, 204} -> "success"
      [] OTHER -> "error"

Abstract == INSTANCE AtomicWrites
    WITH answer <- [w \in Writers |-> Answered(w)], request <- req

(***************************************************************************)
(* ExecuteWrite implements AtomicWrites: every request takes effect at its *)
(* COMMIT, entirely and once, on the one row its key names, or not at all, *)
(* and the status it is answered with tells which - whatever step fails    *)
(* and whatever other connections write, with or without a primary key.    *)
(***************************************************************************)
ImplementsAtomicWrites == Abstract!Spec
=============================================================================
