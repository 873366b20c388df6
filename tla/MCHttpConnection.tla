---- MODULE MCHttpConnection ----
(* A scaled-down HttpConnection for TLC: heads below, at and above a limit  *)
(* of three bytes, bodies below, at and above a limit of twelve, reads of   *)
(* up to five bytes, so that a blank line and a body can share a read.      *)
EXTENDS HttpConnection

\* Content-Length values around the limit, with more digits than the limit
\* has, with leading zeros, empty, and with a character that is no digit.
MCLengths ==
    {<<>>, <<0>>, <<2>>, <<0, 7>>, <<1, 2>>, <<1, 3>>, <<9, 9>>, <<1, 2, 9>>,
     <<1, 2, 8, 1>>, <<2, NonDigit>>, <<NonDigit, 2>>, <<9, 9, NonDigit>>}

\* The client sends more or fewer bytes than it announces.
MCRequests ==
    [head: {2}, total: {5, 10, 18}, wellFormed: {TRUE}, chunked: {FALSE},
     hasLength: {TRUE}, rawLength: MCLengths]
    \cup [head: {2, 3, 4, 12}, total: {1, 9}, wellFormed: BOOLEAN, chunked: BOOLEAN,
          hasLength: {FALSE}, rawLength: {<<>>}]
====
