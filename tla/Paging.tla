-------------------------------- MODULE Paging --------------------------------
(***************************************************************************)
(* A client reads an entity set page by page: it requests the collection   *)
(* and follows @odata.nextLink until a page has none, while other sessions *)
(* insert, update and delete rows.  Each page is one HandleODataRequest    *)
(* collection query; its count and its rows are read in transactions of    *)
(* their own.  The WHERE clause and the ORDER BY are the same on every     *)
(* page, so that the result is the same sequence of rows but for what the  *)
(* other sessions do to it.  A row is a number that says where it sorts: a *)
(* new row goes where the ORDER BY puts it, without one behind all others. *)
(* An update that moves a row, or has the WHERE clause take it or drop it, *)
(* deletes the row and inserts another.                                    *)
(***************************************************************************)
EXTENDS Integers, Sequences, FiniteSets, SequencesExt

CONSTANTS
    Settings,      \* pairs <<odata_page_size, odata_max_top>> the server is started with
    Tops,          \* values of $top the client may send, -1 for none
    Skips,         \* values of $skip the client may send, -1 for none
    Rows,          \* the rows there can be; their order is that of the result
    InitialTable,  \* the result's rows when the traversal starts
    MaxInserts,    \* bound on the rows inserted meanwhile
    MaxDeletes,    \* bound on the rows deleted meanwhile
    MaxPages       \* bound on the links a client follows; TraversalEnds shows it is never met

ASSUME SettingsAssumption ==
    Settings \subseteq Nat \X Int
ASSUME OptionsAssumption ==
    Tops \subseteq Nat \cup {-1} /\ Skips \subseteq Nat \cup {-1}
ASSUME RowsAssumption ==
    /\ Rows \subseteq Int /\ IsFiniteSet(Rows)
    /\ InitialTable \in Seq(Rows)
    /\ \A i, j \in DOMAIN InitialTable : i < j => InitialTable[i] < InitialTable[j]
ASSUME BoundsAssumption ==
    MaxInserts \in Nat /\ MaxDeletes \in Nat /\ MaxPages \in Nat

VARIABLES
    table,                \* the rows of the result, in its order
    inserts, deleted,     \* how many were inserted, and which were deleted
    page_size, max_top,   \* ODataServerState, fixed while the server runs
    top, count_option,    \* $top and $count of the client's request
    shaped,               \* whether it has a $filter or a $orderby
    skip_option,          \* its $skip, 0 for none
    skips,                \* the $skip options of raw_query, in order
    pc,                   \* the step of the page request in progress
    response_count, page, has_more,  \* locals of HandleODataRequest
    collected,            \* history: the rows the client has received
    behind, late          \* history: rows inserted before a row already read, and
                          \* rows inserted between a count and the rows it is for

settings == <<page_size, max_top, top, count_option, shaped, skip_option>>
tableVars == <<table, inserts, deleted, behind>>
vars == <<tableVars, settings, skips, pc, response_count, page, has_more, collected, late>>

Steps == {"request", "count", "rows", "more", "reply", "done", "failed"}

TypeOK ==
    /\ table \in Seq(Rows)
    /\ inserts \in 0 .. MaxInserts
    /\ deleted \subseteq Rows
    /\ <<page_size, max_top>> \in Settings
    /\ top \in Tops
    /\ count_option \in BOOLEAN
    /\ shaped \in BOOLEAN
    /\ skip_option \in Nat
    /\ skips \in Seq(Nat)
    /\ pc \in Steps
    /\ response_count \in Nat \cup {-1}
    /\ page \in Seq(Rows)
    /\ has_more \in BOOLEAN
    /\ collected \in Seq(Rows)
    /\ behind \in 0 .. inserts
    /\ late \in 0 .. inserts

Init ==
    /\ table = InitialTable
    /\ inserts = 0
    /\ deleted = {}
    /\ \E p \in Settings : page_size = p[1] /\ max_top = p[2]
    /\ top \in Tops
    /\ count_option \in BOOLEAN
    /\ shaped \in BOOLEAN
    /\ \E n \in Skips : IF n = -1 THEN skips = <<>> /\ skip_option = 0
                                   ELSE skips = <<n>> /\ skip_option = n
    /\ pc = "request"
    /\ response_count = -1
    /\ page = <<>>
    /\ has_more = FALSE
    /\ collected = <<>>
    /\ behind = 0
    /\ late = 0

-----------------------------------------------------------------------------
(* What the handler computes from the request.                             *)

\* Mutant of CurrentSkip: the first $skip wins.
FirstSkip == IF skips = <<>> THEN 0 ELSE Head(skips)

\* The options are read in order, so the last $skip wins; none means 0.
CurrentSkip == IF skips = <<>> THEN 0 ELSE Last(skips)

\* Without $top and with a page size set, the server pages.
ServerPaged == page_size > 0 /\ top < 0
QueryTop    == IF ServerPaged THEN page_size ELSE top

\* The LIMIT of CompileCollection: a $top is capped by odata_max_top.
Limit(t, cap) == IF cap >= 0 /\ t > cap THEN cap ELSE t

\* LIMIT / OFFSET on a sequence of rows; a negative limit means no LIMIT.
Slice(rows, offset, limit) ==
    SubSeq(rows, offset + 1,
           IF limit < 0 \/ offset + limit > Len(rows) THEN Len(rows) ELSE offset + limit)

\* Mutants of NextLink: a wrong sign; the last row of a page is read again.
NextLinkBackwards(options, n) == Append(options, -n)
NextLinkOverlaps(options, n) == Append(options, n - 1)

\* The next link repeats the query string and adds one more $skip.
NextLink(options, n) == Append(options, n)

-----------------------------------------------------------------------------
(* One page request.                                                       *)

\* Options parsed, SQL compiled.
ParseOptions ==
    /\ pc = "request"
    /\ Len(skips) < MaxPages
    /\ response_count' = -1
    /\ late' = 0
    /\ pc' = IF count_option THEN "count" ELSE "rows"
    /\ UNCHANGED <<tableVars, settings, skips, page, has_more, collected>>

\* The count query, whatever $skip and $top are.
CountQuery ==
    /\ pc = "count"
    /\ response_count' = Len(table)
    /\ pc' = "rows"
    /\ UNCHANGED <<tableVars, settings, skips, page, has_more, collected, late>>

\* SELECT ... LIMIT ... OFFSET; a full server page asks whether there is more.
RowsQuery ==
    /\ pc = "rows"
    /\ page' = Slice(table, CurrentSkip, Limit(QueryTop, max_top))
    /\ has_more' = FALSE
    /\ pc' = IF ServerPaged /\ Len(page') = QueryTop THEN "more" ELSE "reply"
    /\ UNCHANGED <<tableVars, settings, skips, response_count, collected, late>>

\* Mutant of MoreQuery: a single remaining row is taken for none.
MoreThanOne ==
    /\ pc = "more"
    /\ LET count == IF response_count >= 0 THEN response_count ELSE Len(table)
       IN  has_more' = (count > CurrentSkip + Len(page) + 1)
    /\ pc' = "reply"
    /\ UNCHANGED <<tableVars, settings, skips, response_count, page, collected, late>>

\* The count of this request, or a new count query, decides on the next link.
MoreQuery ==
    /\ pc = "more"
    /\ LET count == IF response_count >= 0 THEN response_count ELSE Len(table)
       IN  has_more' = (count > CurrentSkip + Len(page))
    /\ pc' = "reply"
    /\ UNCHANGED <<tableVars, settings, skips, response_count, page, collected, late>>

\* The client takes the page and follows the link, if there is one.
Reply ==
    /\ pc = "reply"
    /\ collected' = collected \o page
    /\ skips' = IF has_more THEN NextLink(skips, CurrentSkip + Len(page)) ELSE skips
    /\ pc' = IF has_more THEN "request" ELSE "done"
    /\ UNCHANGED <<tableVars, settings, response_count, page, has_more, late>>

\* A query fails or times out (500), or the page is too large (413).
PageFails ==
    /\ pc \in {"count", "rows", "more"}
    /\ pc' = "failed"
    /\ UNCHANGED <<tableVars, settings, skips, response_count, page, has_more, collected, late>>

-----------------------------------------------------------------------------
(* Other sessions.                                                         *)

\* The rows read for the client so far, the page in progress included.
PageRead == pc \in {"more", "reply"}
Given == IF PageRead THEN collected \o page ELSE collected

\* The rows that were there from the start and that the client's $skip leaves it.
Original == {InitialTable[i] : i \in {k \in DOMAIN InitialTable : k > skip_option}}

\* A new row becomes the i-th: where it sorts, or behind all rows there ever were.
InsertRow(i, r) ==
    /\ inserts < MaxInserts
    /\ r \notin deleted
    /\ \A j \in DOMAIN table : IF j < i THEN table[j] < r ELSE r < table[j]
    /\ ~shaped => i = Len(table) + 1 /\ \A d \in deleted : d < r
    /\ table' = InsertAt(table, i, r)
    /\ inserts' = inserts + 1
    /\ behind' = behind + IF \E k \in DOMAIN Given : r < Given[k] THEN 1 ELSE 0
    /\ late' = late + IF /\ pc \in {"rows", "more"} /\ response_count >= 0
                         /\ \E j \in DOMAIN table : table[j] \in Original /\ r < table[j]
                      THEN 1 ELSE 0
    /\ UNCHANGED <<deleted, settings, skips, pc, response_count, page, has_more, collected>>

DeleteRow(i) ==
    /\ Cardinality(deleted) < MaxDeletes
    /\ table' = RemoveAt(table, i)
    /\ deleted' = deleted \cup {table[i]}
    /\ UNCHANGED <<inserts, behind, settings, skips, pc, response_count, page, has_more, collected, late>>

-----------------------------------------------------------------------------

PageStep == ParseOptions \/ CountQuery \/ RowsQuery \/ MoreQuery \/ Reply

Next ==
    \/ PageStep
    \/ PageFails
    \/ \E i \in 1 .. Len(table) + 1, r \in Rows : InsertRow(i, r)
    \/ \E i \in DOMAIN table : DeleteRow(i)

\* The server answers every page request and the client follows every link.
Fairness == WF_vars(PageStep)

Spec == Init /\ [][Next]_vars /\ Fairness

-----------------------------------------------------------------------------
(* Properties.                                                             *)

\* The places in what the client received where a row comes that it had before.
Repeats(rows) == {k \in DOMAIN rows : \E j \in DOMAIN rows : j < k /\ rows[j] = rows[k]}

(***************************************************************************)
(* Offset paging with HandleODataRequest's next links hands out a row      *)
(* again only because a row was inserted that sorts before one the client  *)
(* already has, and at most one row for each such insertion.  Without      *)
(* $orderby and $filter new rows come at the end, and no row comes twice,  *)
(* whatever is inserted and deleted between the pages and their queries.   *)
(***************************************************************************)
RepeatedOnlyByInserts ==
    Cardinality(Repeats(collected)) <= IF shaped THEN behind ELSE 0

\* Rows that were there all along but that the client did not receive.
Missed == Original \ (deleted \cup ToSet(collected))

\* A page size above odata_max_top: the page is cut to the cap, but compared
\* with the uncut size, so that it never counts as full.
CutByCap == max_top >= 0 /\ page_size > max_top

\* A traversal of server-driven pages that ended normally has missed at most
\* one row for each row deleted during it and for each one that the last
\* page's count is too old to include.
PagesReachEveryRow ==
    pc = "done" /\ ServerPaged =>
        Cardinality(Missed) <= Cardinality(deleted) + IF shaped /\ count_option THEN late ELSE 0

(***************************************************************************)
(* docs/security.md lists odata_page_size as giving "server-driven pages   *)
(* and `@odata.nextLink`".  When odata_max_top does not cut the pages of   *)
(* HandleODataRequest, only deletions and, with $count=true, rows inserted *)
(* in front between the count and the rows keep rows from the client.  The *)
(* count of a $count request, older than the page, other insertions and    *)
(* the last, partial page lose nothing.                                    *)
(***************************************************************************)
SkippedOnlyByChanges == ~CutByCap => PagesReachEveryRow

(***************************************************************************)
(* Following next links ends: every link moves the $skip that counts (the  *)
(* last one of the query string) forward.                                  *)
(***************************************************************************)
TraversalEnds == <>(pc \in {"done", "failed"})
=============================================================================
