----------------------------- MODULE AtomicWrites -----------------------------
(***************************************************************************)
(* What a client of the write interface is promised: a POST, PATCH or      *)
(* DELETE either takes effect once, in one indivisible step, and is        *)
(* answered with success, or has no effect and is answered with an error.  *)
(* It adds, changes or removes exactly one row with the request's key;     *)
(* when the key is a primary key, there is never a second such row.        *)
(***************************************************************************)
EXTENDS Naturals, FiniteSets

CONSTANTS
    Writers,   \* connections that send write requests
    Keys,      \* key values
    Vals,      \* values of the other column
    NullKey,   \* the NULL of a key column
    NoRow,     \* an unused row slot
    MaxRows    \* bound on the rows ever stored

RowIds == 1 .. MaxRows
Rows   == [key: Keys \cup {NullKey}, val: Vals]

\* "valid" stands for everything the request body and options are checked for.
WriteRequests == [method: {"POST", "PATCH", "DELETE"}, key: Keys \cup {NullKey},
                  val: Vals, valid: BOOLEAN]

VARIABLES
    primaryKey,  \* whether the key column is a PRIMARY KEY
    db,       \* the committed table
    request,  \* request[w]: the last request of w
    answer    \* answer[w]: "none", "pending", "success" or "error"

vars == <<primaryKey, db, request, answer>>

\* The rows of table t with key k.
Matching(t, k) == {i \in RowIds : t[i] # NoRow /\ t[i].key = k}

\* t2 is t1 with row i replaced by row.
Replaced(t1, t2, i, row) == t2 = [t1 EXCEPT ![i] = row]

\* The effect of request r on the table, when it succeeds.
Effect(t1, t2, r) ==
    \/ /\ r.method = "POST" /\ r.key # NullKey
       /\ primaryKey => Matching(t1, r.key) = {}
       /\ \E i \in RowIds : /\ t1[i] = NoRow
                            /\ Replaced(t1, t2, i, [key |-> r.key, val |-> r.val])
    \/ /\ r.method = "PATCH"
       /\ \E i \in Matching(t1, r.key) : Replaced(t1, t2, i, [key |-> r.key, val |-> r.val])
    \/ /\ r.method = "DELETE"
       /\ \E i \in Matching(t1, r.key) : Replaced(t1, t2, i, NoRow)

Init ==
    /\ primaryKey \in BOOLEAN
    /\ db \in [RowIds -> Rows \cup {NoRow}]
    /\ request \in [Writers -> WriteRequests]
    /\ answer = [w \in Writers |-> "none"]

Submit(w, r) ==
    /\ answer[w] # "pending"
    /\ request' = [request EXCEPT ![w] = r]
    /\ answer' = [answer EXCEPT ![w] = "pending"]
    /\ UNCHANGED <<primaryKey, db>>

Succeed(w) ==
    /\ answer[w] = "pending"
    /\ request[w].valid
    /\ Effect(db, db', request[w])
    /\ answer' = [answer EXCEPT ![w] = "success"]
    /\ UNCHANGED <<primaryKey, request>>

Fail(w) ==
    /\ answer[w] = "pending"
    /\ answer' = [answer EXCEPT ![w] = "error"]
    /\ UNCHANGED <<primaryKey, db, request>>

Next == \E w \in Writers : (\E r \in WriteRequests : Submit(w, r)) \/ Succeed(w) \/ Fail(w)

Spec == Init /\ [][Next]_vars
=============================================================================
