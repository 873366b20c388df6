---- MODULE MCODataServer ----
(* Small instances of ODataServer for TLC. *)
EXTENDS ODataServer, TLC

CONSTANTS c1, c2, c3, s1, s2, tokA, tokB, e1

\* A writable server limited to one query, then a read-only one with another
\* token; a restart may also keep the configuration.
MCConfigs ==
    {[token |-> tokA, read_only |-> FALSE, max_concurrent_queries |-> 1],
     [token |-> tokB, read_only |-> TRUE,  max_concurrent_queries |-> 1]}

\* A write that the first configuration admits, one that no route takes, an
\* answer that needs no entity, and with the second token a read of a document
\* and a write that this configuration refuses.
MCRequests ==
    {[token |-> tokA, method |-> "WRITE", target |-> e1],
     [token |-> tokA, method |-> "WRITE", target |-> "health"],
     [token |-> tokA, method |-> "GET",   target |-> "health"],
     [token |-> tokB, method |-> "GET",   target |-> "document"],
     [token |-> tokB, method |-> "WRITE", target |-> e1]}

\* One unauthenticated configuration, one limit of one: the gate alone.
MCGateConfigs ==
    {[token |-> EmptyToken, read_only |-> TRUE, max_concurrent_queries |-> n] : n \in {1, 2}}

MCGateRequests == {[token |-> EmptyToken, method |-> "GET", target |-> e1]}

ConnSymmetry == Permutations(Conns)
Symmetry == Permutations(Conns) \cup Permutations(Sessions)
====
