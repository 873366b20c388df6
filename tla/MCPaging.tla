---- MODULE MCPaging ----
(* Instances of Paging for TLC: two-row and three-row pages over a table of *)
(* five rows give a full, a middle and a last partial page, with the number *)
(* of rows a multiple of the page size or not.                              *)
EXTENDS Paging

\* Page sizes within the cap (or no cap) and above it, and paging switched off.
MCSettings == {<<2, 4>>, <<2, 2>>, <<3, -1>>, <<3, 2>>, <<0, 2>>}

\* Five rows, with room for one in front, between any two, and behind.
MCRows == 1 .. 11
MCInitialTable == <<2, 4, 6, 8, 10>>

MCTops == {-1, 0, 3}
MCSkips == {-1, 1}
====
