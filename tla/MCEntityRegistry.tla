---- MODULE MCEntityRegistry ----
(* A small instance of EntityRegistry: schema s1 exists in two catalogs, a   *)
(* table of the current schema is named like a table of s1 with its prefix,  *)
(* and there is a view.                                                      *)
EXTENDS EntityRegistry, TLC

CONSTANTS a1, a2

MCView == [catalog |-> <<"db">>, schema |-> <<"main">>, table |-> <<"v">>]

MCUniverse ==
    {MCView,
     [catalog |-> <<"db">>,  schema |-> <<"main">>, table |-> <<"s1", "x">>],
     [catalog |-> <<"db">>,  schema |-> <<"s1">>,   table |-> <<"x">>],
     [catalog |-> <<"db2">>, schema |-> <<"s1">>,   table |-> <<"x">>]}

MCNotBase        == {MCView}
MCCurrentCatalog == <<"db">>
MCCurrentSchema  == <<"main">>

SessionSymmetry == Permutations(Sessions)
====
