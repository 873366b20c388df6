# Verification of the DuckDB OData extension

TLA+ models of the extension under `src/`, checked with TLC on small instances
and, where marked, proved with TLAPS for every value of the constants. Paths
below are relative to the repository (`src/server/...` etc.); `PROJECT.json`
gives them with the `src/` prefix of the checkout and lists, for every
definition, the lines it models.

## 1. The system

The extension serves DuckDB tables over HTTP as OData entity sets.

| Component | State | Operations | Used by |
| --- | --- | --- | --- |
| Server state and life cycle (`odata_extension.cpp`, `server/odata_server.cpp`) | one `ODataServerState` per database: mutex `mu`, configuration (token, `read_only`, limits, base path), `running`, `server`, atomic `active_queries`, `bindings` | `odata_serve`, `odata_stop`, `odata_status` | SQL sessions, several at a time |
| Entity registry (`odata_extension.cpp`, `metadata/metadata_generator.cpp`) | `bindings`, guarded by `mu` | `odata_expose`, `odata_expose_schema`, `odata_entity` | SQL sessions; copied by every request |
| Socket server (`server/http_server.cpp`) | listener, `stop_requested`, accept thread, one detached thread per connection | `Start`, `AcceptLoop`, `Stop`, `HandleConnection` | `StartODataServer`, `StopODataServer` |
| Request handling (`HandleODataRequest`) | thread-local, plus a slot of `active_queries` | auth, routing, snapshot of the bindings, concurrency gate, dispatch | connection threads |
| Query executor (`execution/query_executor.cpp`) | a connection, a watchdog thread with mutex, flag and condition variable | `Execute` | request handling |
| Collection queries and paging (`odata_server.cpp`, `compiler/sql_compiler.cpp`) | none of its own: the query string carries the position | page, count, next link | request handling |
| Write executor (`execution/write_executor.cpp`) | one transaction | POST, PATCH, DELETE | request handling |
| Connection framing (`http_server.cpp`, `http_request.cpp`, `http_response.cpp`) | socket buffer | read head and body within limits, answer once | connection threads |
| Entity model (`metadata/metadata_generator.cpp`, `metadata/edm_model.cpp`, `ApplyColumnPolicy`, `CompileSelectList`, `CompileByKey`) | none: columns and key are read from the catalog for every request, in two queries | build the entity, apply the column policy, `$metadata`, select list, key lookup | request handling |
| `$filter`: depth guard (`odata_server.cpp`), lexer and parser (`parser/`), expression compiler (`compiler/expression_compiler.cpp`) | none (pure) | limit, parse, compile to SQL | request handling |
| Routing and keys (`ParseRoute`, `UrlDecode`, `EncodePath`, `KeyLiteralSql`) | none (pure) | path to entity set and key, key to `Location` and back | request handling, writes |
| Result serializer and EDM types (`execution/result_serializer.cpp`, `metadata/edm_model.cpp`) | document written so far | rows and values to JSON, DuckDB types to EDM types | request handling, writes |
| Auth and string helpers | none (pure) | compare, generate, quote, escape | request handling |

How they interact: sessions and connection threads share `ODataServerState`.
`StartODataServer` and `StopODataServer` hold `mu` throughout; a request takes
`mu` twice, briefly (auth; copy of the bindings), and reads `base_path` and
`max_concurrent_queries` without it. `Stop` joins the accept thread while `mu`
is held; connection threads are never joined and outlive their server.

What is hard here: two or more sessions and many connection threads around a
restart; a counter reset while it is in use; data read under a lock and used
after it; a watchdog whose deadline races with the end of the query and with
the next query on the connection; a traversal of many requests over a table
that changes; a transaction any step of which can fail; calls that update the
same list by different rules; a byte stream that can be cut, stall or end
anywhere; a catalog that changes between the queries of one request; a text
that four functions read with rules of their own. `PROJECT.json` lists these hazards one by one.

What makes each part correct:

* life cycle: a stopped server accepts nothing; `odata_stop` returns; a request
  is judged by the configuration of its own or a later server, never by an
  older or the default one;
* gate: no slot is leaked or returned twice; the limit holds;
* registry: names mean one table; policies change only when that name is exposed;
* `odata_serve`: the row it returns is about the server it started;
* executor: only a late query is interrupted, and it is; `Execute` returns;
* paging: on a table that stays as it is no row comes twice and none is lost, each
  change costs at most one row, and the traversal ends;
* writes: all or nothing, one row, and the status says which;
* connection: the handler gets the announced body or is not called; limits hold;
  a rejection reaches the client; the thread ends;
* entity model: only public columns are served; `$metadata` and the other
  requests agree;
* `$filter`: the grammar and nothing else; the SQL means what the filter means;
* keys: a `Location` leads to its entity;
* serializer: a JSON reader gets the rows back, in the announced form.

## 2. Modules

| Module | Models | Main correspondence |
| --- | --- | --- |
| `ODataServer` | sessions, accept threads, connection threads on one `ODataServerState` | a server started by `odata_serve` is a *generation* `1..MaxServes`. `cfgGen` says whose arguments the configuration fields hold; `args[g]` are those arguments. `spc`, `loop`, `cpc` are the program counters of sessions, accept threads and connection threads. `report[s]` is the row `odata_serve` has read so far, one unlocked read per column (`ServeReport`, three times, then `ServeReturn`); a column is the generation it is about |
| `ODataServerProofs` | – | proofs about `ODataServer` |
| `EntityRegistry` | the three exposing calls and the list of bindings | identifiers are sequences of underscore-separated parts, so concatenating names is `\o` and the collision of `s1_x` with `s1.x` is real; `binding[s]` is what a call has resolved before it takes `mu` |
| `EntityRegistryProofs` | – | proofs about `EntityRegistry` |
| `QueryExecutor` | `LocalDuckDBExecutor::Execute`, handler and watchdog, several calls on one connection | `wait_for` with a predicate is spelled out: test, wait, wake (notified, timed out or spuriously), lock, test again |
| `QueryExecutorProofs` | – | proofs about `QueryExecutor` |
| `Paging` | one client following next links, sessions that insert and delete rows | `skips` is the list of `$skip` options of the query string, to which `NextLink` appends. A row is a number that says where the `ORDER BY` puts it; `shaped` says that the request has a `$orderby` or a `$filter`, and only then can a row come in front of others. An update that moves a row is a deletion and an insertion |
| `PagingProofs` | – | proofs about `Paging` |
| `WriteExecutor` | `ExecuteWrite` by concurrent connections | `snapshot`, `changes`, `stale` stand for DuckDB's transaction |
| `WriteExecutorProofs` | – | proofs about `WriteExecutor`, the refinement of `AtomicWrites` included |
| `AtomicWrites` | abstract: what a client of the write interface is promised | one step per request: success with its effect, or failure without |
| `HttpConnection` | one connection thread and its client | bytes of the stream are numbered; `taken` counts those read, `calls` records the range handed to the handler; the head's grammar is the bit `wellFormed`, a Content-Length a sequence of digits |
| `HttpConnectionProofs` | – | proofs about `HttpConnection` |
| `StringUtil` | the functions of `common/string_util.cpp`: SQL quoting, `JsonEscape`, `UrlDecode`, `Trim` | a text is a sequence of characters; a loop over a text is a step function on the loop's state, run once per character (`Iterate`) |
| `FilterParser` | `FilterWithinDepth`, `Tokenize`, the recursive-descent parser; and, as reference, the grammar of the parser's comment as sets of trees | a text is a sequence of symbols: quotes, parentheses and commas are characters, words and numbers one symbol each, blanks are left out |
| `ExpressionCompiler` | `ExpressionCompiler::Compile` | SQL is a sequence of symbols too, with quotes as symbols |
| `FilterMeaning` | reference: the value of a tree on a row, and of a SQL text read with DuckDB's precedences (external) | three-valued; casts, functions and string order stay terms |
| `KeyRoute` | `EncodePath`, `Location`, `ParseRoute`, `KeyLiteralSql` | texts are sequences of characters, percent codes included |
| `EntityModel` | one binding, requests answered from it, sessions that alter the table or expose it again | `properties`, `key`, `select_list` are the handler's; `advertised` is what the last `$metadata` said; `error` tells a query that failed for an unknown name from one that failed for another reason (a literal that cannot be cast, an interrupt), which any query can |
| `EntityModelProofs` | – | proofs about `EntityModel` |
| `ResultSerializer` | `SerializeRows` chunk by chunk, `SerializeFirstRowMembers`, `ValueToJson`, `DuckDBTypeToEdm`; and, as reference, a JSON reader | a document is a sequence of symbols; `rows` is what was fetched, `body` what was written; a type is its base name with or without parameters and `[]` |
| `TextProofs` | – | proofs about `StringUtil`, `KeyRoute` and `ResultSerializer` |
| `ReadRequest` | composes `FilterParser`, `ExpressionCompiler`, `FilterMeaning`, `KeyRoute` and `EntityModel`: a client writes a filter or a key, sends it, and the handler goes through guard, parser, entity model, compiler and query | `draft` is the text being written |
| `MC*` | – | small instances for TLC |

One action is one critical section, one atomic operation or one unlocked access
to shared state. Local work between two of these is part of the step before.
Operators named as a mutant in a comment are variants of the following
definition with a plausible bug; the specifications never use them. They record
what each property rules out (`PROJECT.json`, "mutants").

Two unlocked accesses are data races in C++: reading the strings `base_path`,
`listen_url` and `token` while `StartODataServer` assigns them, and calling the
`std::function` of a destroyed `SocketHttpServer`. They are modelled as a choice
among the old value, the new value, an exception where one can occur, and the
end of the process (`crashed`).

External code is modelled by what the repository relies on, and marked so in
the map: DuckDB clears a connection's interrupt flag when a query starts and a
running query notices the flag; transactions work on a snapshot, fail on
write-write conflicts, and check a primary key at insertion and commit; without an
`ORDER BY` rows come in the order of their insertion (DuckDB's
`preserve_insertion_order`, which is on by default); `GetValue<std::string>` of a
BLOB is its printed form, in which every byte that is not printable ASCII, and
quotes and backslashes, is `\xHH` (`BlobToString`).

## 3. Runs

Passing runs:

| Run | Instance | Shows |
| --- | --- | --- |
| `server_auth` | 2 sessions, 1 connection, 2 servers with different tokens, one of them read-only; writes that are admitted, refused by `read_only` or take no route, a read of a document and of the health resource; fairness | `AdmittedByOwnOrLaterConfig`: although the accept thread starts before token and `read_only` are stored, no request gets past auth, or an answer about the database, by an older configuration. `StoppedServerIsQuiet`: after `odata_stop` no listener and no accept thread is left. `ReportsOwnOrLaterServer`: no column of the row `odata_serve` returns, each read without the mutex, is about an earlier server. `StopReturns`: joining with `mu` held is no deadlock. `EveryRequestAnswered`: every accepted connection is answered and closed |
| `server_gate` | 1 session, 3 connections (symmetric), limits 1 and 2, 2 servers | `SlotAccounting`: the counter is the number of held slots minus those held at its last reset. `LimitUpToCarried`: exactly that difference bounds how far the limit is exceeded. `FirstServerKeepsLimit`: without a restart it is never exceeded |
| `watchdog` | 3 calls on a connection, each with or without a timeout, fairness | `InterruptIsForOwnCall`, `OnlyLateQueriesInterrupted`: no interrupt reaches another call. `ExecuteReturns`: no lost wake-up. `RunningQueryMeetsDeadline`: a query running when the wait starts ends |
| `paging` | 5 rows with gaps between them, 2 insertions, 1 deletion between any two queries, with and without `$orderby` or `$filter`; page sizes 2 and 3 below, at and above a cap and without one, and paging off; `$top` 0, 3 or none, `$skip` 1 or none, `$count` | `RepeatedOnlyByInserts`: a row comes again only because one was inserted that sorts before a row the client has, at most one for each; without `$orderby` and `$filter` never. `SkippedOnlyByChanges`: a complete traversal misses at most one row for each deletion and, with `$count`, for each row inserted in front between the count and the rows, unless the cap cuts its pages. `TraversalEnds` |
| `write` | 2 connections, 3 requests, 2 keys, with and without primary key, tables with 0, 1 and 2 rows | `ImplementsAtomicWrites`: refinement of `AtomicWrites` |
| `registry` | 2 sessions (symmetric), 3 calls, 1 `CREATE` or `DROP`; 2 catalogs, 2 schemas, 3 tables and a view, of which one is named like another's prefixed name | `UnambiguousNamesServed`, `OnlyExposureChangesPolicy` |
| `connection` | limits scaled to a head of 3, a body of 12, reads of 5 and a drain of 8; requests below, at and above each limit, with lengths that are missing, empty, not numbers or of two and three digits; fairness of the server only | `FramedBody`: the handler gets exactly the announced bytes, at most once, however the stream is cut. `OversizeIs413`: numbers above the limit, and no others, are answered 413, although the loop stops before it has read them. `BufferBounded`. `RejectionNotMasked`: a 413 is lost to a reset only when a time or size limit ended the drain. `ConnectionCloses`: also for a client that stalls or never reads |
| `read_request` | every filter up to 3 of 18 symbols, and those up to 7 core symbols that can still become acceptable; every key up to 4 of 9 characters; 12 combinations of `$select` and named columns, 3 kinds of request, 2 requests, 2 changes of the table or the binding at any point; 9 rows | `ParserFollowsGrammar`: accepted is what the grammar derives, with its only tree. `GuardBoundsNesting`: guard and parser agree on how deep the parentheses nest, for filters without doubled quotes and double-quoted strings. `RowsMatchFilter`: the SQL has the filter's value on every row, and is refused exactly for unknown names. `LocationFindsEntity`: the key survives quoting, encoding, decoding and routing. `ServedWithinPolicy`: the columns that choose and order rows are public ones, and those of the rows too if there is any. `AdvertisedIsUsable`: what `$metadata` lists is not refused and not unknown to the query while nothing changes, and the key it lists is the one used |
| `serializer` | every modelled type alone, nullable or not, and two columns with names that need escapes; texts of up to two of eight awkward characters, blobs of 0 to 4 bytes with printable ones, escaped ones and ones that look like an escape, numbers that round down, up and to zero; two rows, in one chunk or two | `ChunksDoNotShow`: the document and the row count are those of one chunk with all the rows. `DocumentTellsRows`: what is written is JSON from which a reader gets the rows back, binary data as DuckDB prints it, and as many as were counted. `ValuesAsAnnounced`: the two tables of types agree, except for `BIT` and lists of types with parameters |

Runs that show a statement of the documentation or of a comment violated by
the code:

| Run | Statement | What happens |
| --- | --- | --- |
| `restart_limit` | security.md: excess requests over `odata_max_concurrent_queries` get 503 | `StartODataServer` resets the counter while a handler of the stopped server holds a slot; its release makes the counter negative and the new server admits one more query than allowed, for good |
| `restart_crash` | http_server.cpp: nothing in a connection thread may take the process down | a connection thread still reading its request calls the handler of a destroyed server |
| `policy_emptied` | security.md: an entity exposes "only named columns" | when the last column of the policy is dropped or renamed, no property is left, the empty select list is compiled to `*`, and hidden columns are served |

Observed while modelling, without a run of their own (a property that is named says
what holds instead):

* security.md lists `odata_page_size` as giving "server-driven pages and
  `@odata.nextLink`", and architecture.md says that "each full page" has a next link.
  With `odata_page_size` above `odata_max_top` a page is cut to the cap, compared with
  the uncut size, and gets no link: the rest of the table is out of reach. The
  setting is part of the `paging` run; `SkippedOnlyByChanges` excludes it (`CutByCap`).
* odata-support.md lists BLOB as "Edm.Binary (base64)". `ValueToJson` encodes the
  printed form of the value, so that a client that decodes the text of a byte that is
  not printable, a quote or a backslash gets the four characters of its escape
  (`BlobToString`). `DocumentTellsRows` says that no two blobs are written alike, since
  the escapes can be undone.
* The comment in `ServeExecute` says that `odata_serve` "reports the auto-generated
  token back to the caller". When another session restarts the server after
  `StartODataServer` has released `mu`, the token column, or the whole row, is that
  session's, and a row can mix the two servers (`ServeReport`).
  `ReportsOwnOrLaterServer` states what holds.
* odata-support.md says that complex types are skipped. The type name
  `DECIMAL(18,3)[]` is cut at its parenthesis, so that list is announced as
  `Edm.Decimal` and served as a string; `ValuesAsAnnounced` excludes it (`Alike`).
* A write admitted by a writable server may execute after the endpoint was
  restarted read-only: `read_only` is tested once. `AdmittedByOwnOrLaterConfig`
  states what is guaranteed.
* An exception out of `con.Query` while a watchdog exists unwinds over a
  joinable `std::thread`, which terminates the process (`QueryThrows`).
* `odata_entity` for a table that is not exposed exposes it, with all columns.
* Exposing a name again drops its column policy and its configured key; an
  explicit empty list of columns is no policy.
* security.md says that the timeout "interrupts the query at deadline". The
  watchdog interrupts once; if that comes before DuckDB has started the query it
  is lost and the query has no deadline. `RunningQueryMeetsDeadline` has the
  condition that the query runs.
* README.md says that names "stay collision-free across sources". After
  `odata_expose('s1_x')` and `odata_expose_schema('s1')` two bindings are named
  `s1_x`, the second reported and never served. `UnambiguousNamesServed` is about names
  that only one table can claim.
* Only a 413 is followed by a drain: a 400 for bad framing is sent and the socket
  closed with bytes unread, so a reset can destroy that answer.
* security.md says of `odata_max_filter_depth` that the "parser uses recursion
  limits". The parser has none; the guard before it does not see a doubled quote as
  the lexer does (after an empty string it takes the rest of the filter for quoted and
  counts no parenthesis), does not know strings in double quotes, and does not count
  `not`, on which the parser recurses as well. `GuardBoundsNesting` excludes the quotes
  and is about parentheses only.
* odata-support.md lists strings in single quotes only; the lexer also accepts
  double quotes, which the HTTP test relies on.
* With `$orderby` an insertion in front of rows already read repeats a row, and one
  between the count of a `$count` request and its rows can lose one: offset paging
  over a changing table. `RepeatedOnlyByInserts` and `SkippedOnlyByChanges` state how
  much is lost at most.
* A lookup by key ignores `$filter` and `$orderby`, also ones that name hidden or
  unknown columns; its answer does not depend on them.
* A comparison is compiled without parentheses. As an operand of a comparison it
  loses its grouping (`true eq (b eq null)` becomes `TRUE = "b" IS NULL`) or is a
  syntax error. `null eq null` becomes `NULL = NULL`, which is not true.
  `RowsMatchFilter` excludes both (`Plain`).
* A number too large for `std::stoll` or `std::stod` in a filter is a 500, not a
  400: the exception is not an `ODataParseException`. `std::to_string` keeps six
  decimals of a floating-point literal.
* A primary key renamed between the two catalog queries of `BuildEntity` is not
  found among the columns read before, and the first column becomes the key of
  that one request.
* Columns without an EDM type are missing from `$metadata` but are selected,
  served and, as a first column, named in `<Key>`; the documentation says "not
  projected".
* `BIT` is announced as `Edm.Binary` and served as a text of binary digits. A
  number that is not finite is `null`, also in a column announced as not nullable.
* The context URI of an answer contains the entity's name without JSON escapes: a
  table whose name has a double quote gives an invalid document.
* `odata_max_response_bytes` is compared before the next link is added, and not
  for single entities, inserted entities and `$metadata`.
* An entity set whose name contains `(` or `/` cannot be addressed, although
  `Location` encodes the name: the path is decoded before it is split.

Bounds. Two servers give every order of stop, start and leftover threads; a
third repeats the second, which the proofs confirm. Three connections are what
it takes to have one slot carried over a restart, one admitted and one beyond
the limit. Three calls give `Execute` a predecessor and a successor. Five rows
are a full, a middle and a partial page for two- and three-row pages, and two
insertions and a deletion can each fall before, within and behind the page being
read; `MaxPages` is never met, which `TraversalEnds` would show. Three requests by two writers
give two overlapping transactions and a later one that sees the outcome. Three
calls are the shortest sequences that expose, re-expose and set a key. The
connection's limits keep the order of the real ones (a read is larger than a
head and smaller than a body, and a three-digit number passes the body limit
before its last digit). Seven symbols hold two operators of different
precedence with one pair of parentheses, and a comparison with a string; three
arbitrary symbols meet every pair of neighbours in the lexer. Four characters
hold a quote beside each of the other special characters on both sides. Two
changes can drop a public column and give its name to another, or drop and
create the table, and two requests are `$metadata` and one that uses it. A
filter or key is written only before the first change and the first other
request, which keeps texts and catalog changes from multiplying; texts up to
three symbols and keys up to two characters are also sent.

A chunk boundary needs two rows, and two left-over bytes, one and none need
blobs of 2, 1 and 3 bytes.

Deadlock checking is off in all runs: sessions, clients and writers may stop
calling, and a crashed process takes no step.

Fairness. `server_auth`: calls in progress and connection threads go on,
since every socket read and write has a time limit of 10 s
(`http_server.cpp`) and queries are taken to end here; the accept thread goes
on unless `accept()` blocks on an open listener. The number of restarts is
bounded, so nothing is claimed about a mutex that sessions take for ever.
`watchdog`: threads run and time passes, an interrupted query stops; a query is
*not* assumed to end by itself. `paging`: the server answers and the client
follows links; insertions and deletions are bounded. `connection`: the server's
thread goes on, since each read, send and poll has a time limit; nothing is
assumed of the client.

## 4. Proofs

No assumption beyond the named `ASSUME`s of the modules, all evaluated by TLC in
the runs. They give the constants their types and say that there are finitely
many connections and rows, at least one request to send, that the first table of a
traversal is in order, that the blank line after a head
and a read have at least one byte, that page sizes are not negative, and that a
result has at least one column. The characters of texts are a constant of which
only those are named that the code treats specially: everything proved about texts
holds whatever other characters there are.

Every theorem is about the specification itself, for every value of its
constants: any number of sessions, connections, calls, rows, digits, and any
order of their steps. The properties are seldom inductive; each proof module
states the invariant that is (`IInv`, `AdvInv` in `EntityModelProofs`,
`SerializerInv` in `TextProofs`), which TLC has also checked on a small instance.

**`ODataServerProofs`**, for any number of sessions, connections, configurations
and restarts. The invariant is
`TypeOK /\ MutexInv /\ AdmitInv /\ QuietInv /\ GateInv`:

* `MutexInv`: who is inside `StartODataServer` or `StopODataServer` holds `mu`,
  and the configuration fields belong to the newest server except while it is
  being configured. It is what makes the auth block, which needs `mu`, read no
  older configuration.
* `AdmitInv`: a connection's server has been started, and while a server is being
  configured no request has been judged by it yet.
* `QuietInv`: only the newest server can have a running accept thread, and
  `server`, `running`, `destroyed` agree with the sessions' steps.
* `GateInv`: `SlotAccounting` together with a bound on the connections whose
  ticket is below the limit. The bound on admitted queries alone is not
  inductive, since a connection between `fetch_add` and the comparison already
  has its ticket.

Theorems: `TypeCorrect`, `Admission`, `StoppedServersAreQuiet`, `SlotsAccounted`,
`LimitBound`, `FirstServerLimit`, and `ServeRow`: since the configuration fields belong to
the newest server whenever `mu` is free, each of the three reads finds the session's
own server or a later one.

**`QueryExecutorProofs`**, for any number of calls: `ExecutorTypes`,
`InterruptOwnCall`, `LateQueriesOnly`. The invariant says that a watchdog that has
not exited belongs to the call in progress (`JoinInv`), that mutex and `done`
exclude an interrupt after completion (`DoneInv`), and that the interrupt flag of
a running query is only set after its own deadline (`FlagInv`).

**`EntityRegistryProofs`**, for any catalog: `RegistryTypes`, `RegistryNames` and the
action property `RegistryPolicies`. The invariant adds that every stored, resolved
or reported binding carries one of the three names its table can have
(`OwnNames`): if only one table can claim a name, all bindings of that name agree
in schema and catalog, so the different matching rules of the three calls
coincide. `RegistryPolicies` needs that storing a binding leaves the first
binding of every other name in place (`StoreKeepsOthers`) and that `odata_entity`
keeps target and columns (`EntityKeepsPolicy`).

**`WriteExecutorProofs`**, for any number of connections, rows, keys and requests:
`WriteTypeCorrect`, and `WritesAreAtomic`, the refinement of `AtomicWrites`. A
write takes effect at its `COMMIT`, steps after the statement ran; the refinement
needs to know that the transaction then still does what the abstract step does
with the *current* table. That is the invariant: what a transaction saw of a row
nobody else has committed since is what the table holds (`SnapshotCurrent`); the
rows it has changed are those with the key in its snapshot, none of them stale
(`ChangePending`), or a slot that is free (`InsertPending`, `UnusedSlots`,
`NextRowPositive`); two transactions never hold changes of one row
(`NoWriteConflict`); nothing is changed before the statement (`BeforeStatement`);
and only a change of exactly one row reaches `COMMIT` (`OneRowToCommit`), which is
what the comparison of the affected rows with 1 is for.

**`HttpConnectionProofs`**, for any limits, requests and sizes of reads:
`ConnectionTypes`, `BodiesAreFramed`, `OversizeRejected`, `BuffersAreBounded`,
`RejectionsArrive`. The invariant says for each step of `HandleConnection` how
much has been read and what is already decided (`InHead`, `InBody`, `Answering`),
and that a drain that was not cut short has taken all the client sends
(`AfterDrain`). The `Content-Length` loop stops as soon as the number is too
large; that its result is over the limit exactly when the number of all digits is
(`LengthLoopValue`) is an induction over the header's characters. The provers
cannot instantiate an induction rule, so it is carried out as an argument about the
first position at which the claim fails (`LeastNumber`, from the library's theorem
on minimal elements).

**`PagingProofs`**, for any page size, cap, options, order, table and number of rows
inserted and deleted: `PagingTypes`, `PagesDoNotOverlap`, `PagesCoverTable`. The
invariant: the table is in order, and the rows there from the start, like those read
for the client, are in it or were deleted (`TableInv`, `GivenInv`); rows come in out
of turn only with `$orderby` or `$filter` (`CounterInv`); the rows still to be read
come after everything read, but for as many as insertions have moved there and have
not yet shown as a repeated row (`RepeatInv`, which is what makes the bound on
repeated rows inductive); the unread rows that slipped into the part done with are at
most as many as were deleted (`LostInv`); a count that has gone stale covers every
original row but for as many as were inserted in front since (`CountInv`); and a page
without a next link is the last one, up to these (`LastPageInv`).
`PagesCoverTable` has the exception that the run has, pages cut by the cap.

**`EntityModelProofs`**, for any table, any policies, and any number of requests and
changes: `EntityTypes`, `ServedColumns`, `MetadataIsUsable`. For `ServedColumns` the
invariant adds that a request in progress has no answer yet (`PendingInv`) and
that the compiled statement names only public columns, and at least one if there
is any (`CompiledInv`). These speak of what the request read from the catalog, so
no step of another session can disturb them. For `MetadataIsUsable` it relates that
reading to the catalog: a request during which nothing changed has the current
binding, columns and key (`FreshInv`), an advertisement that is still good is what
would be advertised now (`AdvertisedInv`), and a read request arrived after the
`$metadata` it is compared with (`OrderInv`).

**`TextProofs`**, for texts of any length and characters, and for any results:

* `LocationLeadsBack`: the `Location` of an inserted entity leads back to the entity
  set and the key's value. The value goes through five loops in four files:
  quoting, percent-encoding, decoding, the search for the closing parenthesis,
  undoing the quotes. A text under a string key may hold anything; a value of
  another type has no quote and no closing parenthesis and no blank around it
  (`Bare`), which is what DuckDB prints for numbers, dates and identifiers. The
  entity name has neither parenthesis nor slash.
* `JsonStringReadsBack`: a JSON reader that comes upon a string of the document, at
  any place, reads the text that `JsonEscape` was given and goes on behind the
  closing quote.
* `SerializerTypeCorrect` and `ChunksNeverShow`: `TypeOK` and `ChunksDoNotShow` for any
  columns, values, number of rows and ways to cut them into chunks. The invariant
  adds to the two that nothing has been fetched of a single entity before its row
  is written (`SerializerInv`). The step of a chunk is `ChunksJoin`: its rows, counted
  on from those before, are written as they would be in one chunk with them.

Every loop is treated the same way. What is written is a list of words, one for
each character, and `WordsAt` says where each of them stands in the concatenation.
A reader's round at the beginning of a word ends at its end with the word's
character (`DecodePlain`, `DecodeCode`, `CloseReads`, `UndoubleReads`, `StringReads`), so
the states after the words are a chain, and the loop follows it to the end
(`LoopFollows`); since no word is empty, the rounds suffice (`WordsFit`). The
induction over the words is once more the argument about the first failure
(`UpTo`). That every value is written as a text at all (`ValueText`) uses `IterateIn`:
a loop stays in a set that its step does not leave.

Only model-checked:

* liveness (`StopReturns`, `EveryRequestAnswered`, `ExecuteReturns`,
  `RunningQueryMeetsDeadline`, `TraversalEnds`, `ConnectionCloses`), which is outside
  the prover;
* filters: `ParserFollowsGrammar`, `GuardBoundsNesting`, `RowsMatchFilter`. The parser,
  the compiler and their references work on trees and are recursive operators,
  for which tlapm has no SMT backend. For the same reason there is no theorem
  about `ReadRequest`, its type invariant included; it composes `EntityModel`, whose
  part of the type invariant is `EntityTypes`. Of `LocationFindsEntity`, the part
  about the route (`LeadsBack`) is `LocationLeadsBack`; that DuckDB reads the key in
  the SQL text as one literal is checked by TLC;
* `DocumentTellsRows` and `ValuesAsAnnounced` for whole documents. Proved of them are the
  strings and that chunks do not matter; what a reader makes of the nesting of
  objects, of numbers and of Base64 is checked by TLC.

## 5. What is left out

* Tokens, addresses and paths are values, not strings; the base path is the same
  in every `odata_serve`. Identifiers are compared as if in lower case.
* Reading a request is one step with two outcomes in `ODataServer`; the steps are
  in `HttpConnection`. The grammar of the request line and the headers, and the
  base path, are not modelled: they decide one bit or a fixed target.
* Letter case, blanks between words, the spelling of numbers and the colon token
  (always an error) in filters; the meaning of functions and casts.
* `$format`. The `ORDER BY` of a collection is the columns it names (`EntityModel`) and
  an order of the rows (`Paging`), in which ties are taken to be resolved the same
  way for every page; nothing in the code sees to that. Views, whose rows may come in
  any order, are not covered by what `Paging` says of requests without `$orderby`.
* The catalog queries of `BuildEntity` are taken to succeed.
* The reference of `ParserFollowsGrammar` reads the tokens of the code's own lexer, so
  that the lexer is not checked by it. `RowsMatchFilter` compares a cast with the type
  that `ResolveLiteralType` chooses: it checks where casts go, not which type is
  chosen (a string compared with `abs`, `round` or `now` is cast to `BOOLEAN`).
* `WriteExecutor` has no `ALTER` or `DROP` of its table: an entity that went stale
  before the transaction shows only as a statement that fails.
* In `EntityModel` a column either has an EDM type or not (`Complex`). In
  `ResultSerializer` the integer types share one EDM type, as do the two
  floating-point types, and aliases that the catalog never reports are left out.
* DuckDB's `ToString` of a value other than a BLOB is taken as given.
* Numbers are written with at most ten digits before the point (`MaxDigits`), more
  than any value of the run has; what is proved of documents does not depend on it.
* The envelope of a document beyond the rows, XML, token generation: formatting.
* The number of threads, memory, and the capacity of DuckDB's output chunks.

## 6. Plan

Modelled: all components except some string helpers (section 5). Proved: every
safety property of a run that does not reach a recursive operator, except for the
two about whole documents (section 4). What is left:

1. `DocumentTellsRows`: the reader of members and of objects follows the words of
   `Members` and `Objects` as `ReadString` follows those of `JsonEscape`; the lemmas
   on words and `JsonStringReadsBack` are what such a proof starts from. Numbers and
   Base64 need a decoding lemma per digit and per group.
2. `FilterParser` with its loops as step functions and its recursion as recursive
   functions of the position, so that `GuardBoundsNesting` can be proved.
