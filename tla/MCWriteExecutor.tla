---- MODULE MCWriteExecutor ----
(* Small instances of WriteExecutor for TLC: two connections, two keys.     *)
EXTENDS WriteExecutor

CONSTANTS w1, w2, k1, k2, v1, v2

\* A table without rows, one row with key k1, and (when the key column is not
\* a primary key) two rows with that key.
MCDbs ==
    {NoTable,
     [NoTable EXCEPT ![1] = [key |-> k1, val |-> v1]],
     [NoTable EXCEPT ![1] = [key |-> k1, val |-> v1], ![2] = [key |-> k1, val |-> v2]]}

MCRequests ==
    {[method |-> m, key |-> k, val |-> v2, valid |-> TRUE] :
        m \in {"POST", "PATCH", "DELETE"}, k \in {k1, k2}}
    \cup {[method |-> "POST", key |-> NullKey, val |-> v2, valid |-> TRUE],
          [method |-> "PATCH", key |-> k1, val |-> v1, valid |-> TRUE],
          [method |-> "PATCH", key |-> k1, val |-> v2, valid |-> FALSE]}
====
