------------------------------ MODULE ODataServer ------------------------------
(***************************************************************************)
(* The shared server state of the DuckDB OData extension and the threads   *)
(* that use it: SQL sessions calling odata_serve / odata_stop /            *)
(* odata_expose, the accept thread of every SocketHttpServer, and the      *)
(* detached connection threads that run HandleODataRequest.                *)
(*                                                                         *)
(* Every odata_serve that binds its socket creates a new SocketHttpServer, *)
(* a "generation" numbered from 1; the ODataServerState outlives them all. *)
(* Steps are the code's critical sections, its atomic operations and its   *)
(* unlocked accesses to the shared state; thread-local work between two of *)
(* them is folded into the step before it.                                 *)
(***************************************************************************)
EXTENDS Integers, FiniteSets, Sequences

CONSTANTS
    Sessions,    \* SQL sessions, each running one table function at a time
    Conns,       \* client connections (a connection thread when in use)
    Entities,    \* entity sets that odata_expose can whitelist
    Tokens,      \* bearer tokens
    EmptyToken,  \* the empty token: authentication is off
    Configs,     \* argument lists of odata_serve
    Requests,    \* well-formed HTTP requests
    MaxServes,   \* bound on the number of servers ever started
    NoOne        \* the owner of a free mutex

ConfigType == [token: Tokens \cup {EmptyToken}, read_only: BOOLEAN,
               max_concurrent_queries: Nat]

\* "document" is the service document or $metadata, "nowhere" a path with no
\* resource; a write is any of POST, PATCH and DELETE.
RequestType == [token: Tokens \cup {EmptyToken}, method: {"GET", "WRITE", "OTHER"},
                target: {"health", "document", "nowhere"} \cup Entities]

ASSUME ConfigsAssumption   == Configs \subseteq ConfigType
ASSUME RequestsAssumption  == Requests \subseteq RequestType
ASSUME MaxServesAssumption == MaxServes \in Nat \ {0}
ASSUME ConnsAssumption     == IsFiniteSet(Conns)
ASSUME NoOneAssumption     == NoOne \notin Sessions
ASSUME TokensAssumption    == EmptyToken \notin Tokens

Gens == 1 .. MaxServes

\* The member initialisers of ODataServerState.
DefaultConfig == [token |-> EmptyToken, read_only |-> TRUE, max_concurrent_queries |-> 0]

\* The request of a connection that has not been accepted.
NoRequest == [token |-> EmptyToken, method |-> "OTHER", target |-> "nowhere"]

VARIABLES
    mu,              \* ODataServerState::mu: NoOne, or the session holding it across steps
    served,          \* number of SocketHttpServers created so far
    args,            \* args[g]: the odata_serve arguments of generation g
    cfgGen,          \* whose arguments the configuration fields hold (0: the defaults)
    active_queries,  \* the atomic counter behind odata_max_concurrent_queries
    carried,         \* history: slots held when active_queries was last reset
    running, server, \* ODataServerState::running and ::server (0: null)
    bindings,        \* exposed entity sets
    loop,            \* loop[g]: where the accept thread of g is
    stop_requested, listening, destroyed,   \* the SocketHttpServer of g
    spc, mine, report,   \* sessions: step, own generation, and the row of odata_serve so
                         \* far: the generations its columns were read from
    cpc, csrv, req, authGen, ticket, status, \* connection threads
    crashed          \* the process is gone

stateVars == <<mu, served, args, cfgGen, active_queries, carried, running, server>>
httpVars  == <<loop, stop_requested, listening, destroyed>>
sessVars  == <<spc, mine, report>>
connVars  == <<cpc, csrv, req, authGen, ticket, status>>
vars      == <<stateVars, httpVars, sessVars, connVars, bindings, crashed>>

\* The columns of the row, in the order they are read: listen_uri, listen_url,
\* auth_token.
RowLength == 3

SessionSteps == {"idle", "refused", "starting", "configured", "reporting", "returning",
                 "joining"}
LoopSteps    == {"none", "check", "accept", "exited"}
ConnSteps    == {"free", "reading", "dispatch", "auth", "route", "snapshot", "document",
                 "enter", "compare", "reject", "execute", "respond"}
Statuses     == {"none", "400", "401", "404", "405", "500", "503", "200", "executed"}

TypeOK ==
    /\ mu \in Sessions \cup {NoOne}
    /\ served \in 0 .. MaxServes
    /\ args \in [Gens -> Configs \cup {DefaultConfig}]
    /\ cfgGen \in 0 .. MaxServes
    /\ active_queries \in Int
    /\ carried \in Nat
    /\ server \in 0 .. MaxServes
    /\ running \in BOOLEAN
    /\ running <=> server # 0
    /\ bindings \in SUBSET Entities
    /\ loop \in [Gens -> LoopSteps]
    /\ stop_requested \in [Gens -> BOOLEAN]
    /\ listening \in [Gens -> BOOLEAN]
    /\ destroyed \in [Gens -> BOOLEAN]
    /\ spc \in [Sessions -> SessionSteps]
    /\ mine \in [Sessions -> 0 .. MaxServes]
    /\ \A s \in Sessions : spc[s] \in {"starting", "configured"} => mine[s] # 0
    /\ report \in [Sessions -> Seq(0 .. MaxServes)]
    /\ cpc \in [Conns -> ConnSteps]
    /\ csrv \in [Conns -> 0 .. MaxServes]
    /\ req \in [Conns -> RequestType]
    /\ authGen \in [Conns -> 0 .. MaxServes]
    /\ ticket \in [Conns -> Int]
    /\ status \in [Conns -> Statuses]
    /\ crashed \in BOOLEAN

Init ==
    /\ mu = NoOne
    /\ served = 0
    /\ args = [g \in Gens |-> DefaultConfig]
    /\ cfgGen = 0
    /\ active_queries = 0
    /\ carried = 0
    /\ running = FALSE
    /\ server = 0
    /\ bindings = {}
    /\ loop = [g \in Gens |-> "none"]
    /\ stop_requested = [g \in Gens |-> FALSE]
    /\ listening = [g \in Gens |-> FALSE]
    /\ destroyed = [g \in Gens |-> FALSE]
    /\ spc = [s \in Sessions |-> "idle"]
    /\ mine = [s \in Sessions |-> 0]
    /\ report = [s \in Sessions |-> << >>]
    /\ cpc = [c \in Conns |-> "free"]
    /\ csrv = [c \in Conns |-> 0]
    /\ req = [c \in Conns |-> NoRequest]
    /\ authGen = [c \in Conns |-> 0]
    /\ ticket = [c \in Conns |-> 0]
    /\ status = [c \in Conns |-> "none"]
    /\ crashed = FALSE

-----------------------------------------------------------------------------
(* What the threads read from the shared state.                            *)

\* The configuration fields of ODataServerState as they stand now.
cfg == IF cfgGen = 0 THEN DefaultConfig ELSE args[cfgGen]

\* The bearer-token test of a request against a configuration.
TokenAccepted(k, r) == k.token = EmptyToken \/ r.token = k.token

\* The method test: GET always, writes unless the server is read-only.
MethodAllowed(k, r) == r.method = "GET" \/ (r.method = "WRITE" /\ ~k.read_only)

Accepts(k, r) == TokenAccepted(k, r) /\ MethodAllowed(k, r)

\* Some odata_serve is assigning the configuration fields.
Configuring == \E s \in Sessions : spc[s] = "starting"

\* Connections counted by active_queries, and those past the limit check.
Holding  == {c \in Conns : cpc[c] \in {"compare", "reject", "execute"}}
Admitted == {c \in Conns : cpc[c] = "execute"}

-----------------------------------------------------------------------------
(* SQL sessions.                                                           *)

\* odata_serve refused: the server is already running, the address does not
\* parse, or the socket cannot be bound.  The call throws; nothing changed.
ServeRefuse(s) ==
    /\ spc[s] = "idle"
    /\ mu = NoOne
    /\ spc' = [spc EXCEPT ![s] = "refused"]
    /\ UNCHANGED <<stateVars, httpVars, mine, report, connVars, bindings, crashed>>

\* The caller sees the exception and is free to call again.
ServeThrow(s) ==
    /\ spc[s] = "refused"
    /\ spc' = [spc EXCEPT ![s] = "idle"]
    /\ UNCHANGED <<stateVars, httpVars, mine, report, connVars, bindings, crashed>>

\* StartODataServer takes mu and SocketHttpServer::Start spawns the accept
\* thread: connections are accepted before the configuration is in place.
ServeStart(s, k) ==
    /\ spc[s] = "idle"
    /\ mu = NoOne
    /\ ~running
    /\ served < MaxServes
    /\ mu' = s
    /\ served' = served + 1
    /\ args' = [args EXCEPT ![served + 1] = k]
    /\ loop' = [loop EXCEPT ![served + 1] = "check"]
    /\ listening' = [listening EXCEPT ![served + 1] = TRUE]
    /\ spc' = [spc EXCEPT ![s] = "starting"]
    /\ mine' = [mine EXCEPT ![s] = served + 1]
    /\ UNCHANGED <<cfgGen, active_queries, carried, running, server, stop_requested,
                   destroyed, report, connVars, bindings, crashed>>

\* Mutant of ServeConfigure: nothing is assigned.
ServeConfigureNothing(s) ==
    /\ spc[s] = "starting"
    /\ spc' = [spc EXCEPT ![s] = "configured"]
    /\ UNCHANGED <<stateVars, httpVars, mine, report, connVars, bindings, crashed>>

\* The configuration fields are assigned, still under mu.
ServeConfigure(s) ==
    /\ spc[s] = "starting"
    /\ cfgGen' = mine[s]
    /\ spc' = [spc EXCEPT ![s] = "configured"]
    /\ UNCHANGED <<mu, served, args, active_queries, carried, running, server,
                   httpVars, mine, report, connVars, bindings, crashed>>

\* active_queries is reset, server and running are set, mu is released.
ServeFinish(s) ==
    /\ spc[s] = "configured"
    /\ active_queries' = 0
    /\ carried' = Cardinality(Holding)
    /\ server' = mine[s]
    /\ running' = TRUE
    /\ mu' = NoOne
    /\ spc' = [spc EXCEPT ![s] = "reporting"]
    /\ UNCHANGED <<served, args, cfgGen, httpVars, mine, report, connVars, bindings, crashed>>

\* ServeExecute fills its row from the state without taking mu, one column
\* after the other.  While another odata_serve is assigning those strings each
\* read may see either value.
ServeReport(s) ==
    /\ spc[s] = "reporting"
    /\ \E g \in {cfgGen} \cup (IF Configuring THEN {served} ELSE {}) :
           report' = [report EXCEPT ![s] = Append(@, g)]
    /\ spc' = IF Len(report[s]) + 1 = RowLength THEN [spc EXCEPT ![s] = "returning"] ELSE spc
    /\ UNCHANGED <<stateVars, httpVars, mine, connVars, bindings, crashed>>

\* The call returns its row.
ServeReturn(s) ==
    /\ spc[s] = "returning"
    /\ spc' = [spc EXCEPT ![s] = "idle"]
    /\ report' = [report EXCEPT ![s] = << >>]
    /\ UNCHANGED <<stateVars, httpVars, mine, connVars, bindings, crashed>>

\* ServeExecute's row, or odata_status (which changes nothing and reads
\* listen_url and base_path the same way), runs through a buffer that another
\* odata_serve is freeing.
SessionRace(s) ==
    /\ spc[s] \in {"idle", "reporting"}
    /\ Configuring
    /\ crashed' = TRUE
    /\ UNCHANGED <<stateVars, httpVars, sessVars, connVars, bindings>>

\* Mutant of StopBegin: the listener is closed without raising the flag.
StopBeginWithoutFlag(s) ==
    /\ spc[s] = "idle"
    /\ mu = NoOne
    /\ server # 0
    /\ mu' = s
    /\ mine' = [mine EXCEPT ![s] = server]
    /\ listening' = [listening EXCEPT ![server] = FALSE]
    /\ spc' = [spc EXCEPT ![s] = "joining"]
    /\ UNCHANGED <<served, args, cfgGen, active_queries, carried, running, server,
                   loop, stop_requested, destroyed, report, connVars, bindings, crashed>>

\* odata_stop of a running server: StopODataServer takes mu and
\* SocketHttpServer::Stop raises the flag and closes the listener.
StopBegin(s) ==
    /\ spc[s] = "idle"
    /\ mu = NoOne
    /\ server # 0
    /\ mu' = s
    /\ mine' = [mine EXCEPT ![s] = server]
    /\ stop_requested' = [stop_requested EXCEPT ![server] = TRUE]
    /\ listening' = [listening EXCEPT ![server] = FALSE]
    /\ spc' = [spc EXCEPT ![s] = "joining"]
    /\ UNCHANGED <<served, args, cfgGen, active_queries, carried, running, server,
                   loop, destroyed, report, connVars, bindings, crashed>>

\* Mutants of StopJoin: the accept thread is not waited for; the connection
\* threads are waited for as well, with mu held; running stays set, so that the
\* server can never be started again.
StopJoinAfter(s, ready, stillRunning) ==
    /\ spc[s] = "joining"
    /\ ready
    /\ destroyed' = [destroyed EXCEPT ![mine[s]] = TRUE]
    /\ server' = 0
    /\ running' = stillRunning
    /\ mu' = NoOne
    /\ spc' = [spc EXCEPT ![s] = "idle"]
    /\ UNCHANGED <<served, args, cfgGen, active_queries, carried, loop, stop_requested,
                   listening, mine, report, connVars, bindings, crashed>>

StopWithoutJoin(s) == StopJoinAfter(s, TRUE, FALSE)

StopKeepsRunning(s) == StopJoinAfter(s, loop[mine[s]] = "exited", running)

StopJoinsConnections(s) ==
    StopJoinAfter(s, loop[mine[s]] = "exited" /\ \A c \in Conns : csrv[c] # mine[s], FALSE)

\* The accept thread is joined and the SocketHttpServer destroyed; the
\* connection threads it detached are not waited for.
StopJoin(s) ==
    /\ spc[s] = "joining"
    /\ loop[mine[s]] = "exited"
    /\ destroyed' = [destroyed EXCEPT ![mine[s]] = TRUE]
    /\ server' = 0
    /\ running' = FALSE
    /\ mu' = NoOne
    /\ spc' = [spc EXCEPT ![s] = "idle"]
    /\ UNCHANGED <<served, args, cfgGen, active_queries, carried, loop, stop_requested,
                   listening, mine, report, connVars, bindings, crashed>>

\* odata_expose whitelists an entity set.
Expose(s, e) ==
    /\ spc[s] = "idle"
    /\ mu = NoOne
    /\ bindings' = bindings \cup {e}
    /\ UNCHANGED <<stateVars, httpVars, sessVars, connVars, crashed>>

-----------------------------------------------------------------------------
(* The accept thread of generation g.                                      *)

\* The loop condition.
LoopCheck(g) ==
    /\ loop[g] = "check"
    /\ loop' = [loop EXCEPT ![g] = IF stop_requested[g] THEN "exited" ELSE "accept"]
    /\ UNCHANGED <<stateVars, stop_requested, listening, destroyed, sessVars, connVars,
                   bindings, crashed>>

\* accept() returns a client; a connection thread is spawned and detached.
AcceptConnection(g, c, r) ==
    /\ loop[g] = "accept"
    /\ listening[g]
    /\ cpc[c] = "free"
    /\ loop' = [loop EXCEPT ![g] = "check"]
    /\ cpc' = [cpc EXCEPT ![c] = "reading"]
    /\ csrv' = [csrv EXCEPT ![c] = g]
    /\ req' = [req EXCEPT ![c] = r]
    /\ UNCHANGED <<stateVars, stop_requested, listening, destroyed, sessVars, authGen,
                   ticket, status, bindings, crashed>>

\* accept() fails: the listener was closed, or a transient error.
AcceptError(g) ==
    /\ loop[g] = "accept"
    /\ loop' = [loop EXCEPT ![g] = IF stop_requested[g] THEN "exited" ELSE "check"]
    /\ UNCHANGED <<stateVars, stop_requested, listening, destroyed, sessVars, connVars,
                   bindings, crashed>>

-----------------------------------------------------------------------------
(* A connection thread.                                                    *)

Goto(c, step) == cpc' = [cpc EXCEPT ![c] = step]

Answer(c, code) == Goto(c, "respond") /\ status' = [status EXCEPT ![c] = code]

\* The request is read within the size and time limits.
ReadRequest(c) ==
    /\ cpc[c] = "reading"
    /\ Goto(c, "dispatch")
    /\ UNCHANGED <<stateVars, httpVars, sessVars, csrv, req, authGen, ticket, status,
                   bindings, crashed>>

\* Bad header, bad framing, body too large, time-out or disconnect.
ReadFails(c) ==
    /\ cpc[c] = "reading"
    /\ Answer(c, "400")
    /\ UNCHANGED <<stateVars, httpVars, sessVars, csrv, req, authGen, ticket, bindings, crashed>>

\* HandleConnection calls the std::function stored in its server.  Once that
\* server is destroyed the call is undefined: it may still work, throw
\* bad_function_call (answered with 500), or jump through freed memory.
Dispatch(c) ==
    /\ cpc[c] = "dispatch"
    /\ \/ Goto(c, "auth") /\ UNCHANGED <<status, crashed>>
       \/ destroyed[csrv[c]] /\ Answer(c, "500") /\ UNCHANGED crashed
       \/ destroyed[csrv[c]] /\ crashed' = TRUE /\ UNCHANGED <<cpc, status>>
    /\ UNCHANGED <<stateVars, httpVars, sessVars, csrv, req, authGen, ticket, bindings>>

\* Mutant of Auth: token and method are checked without taking mu.
AuthWithoutLock(c) ==
    /\ cpc[c] = "auth"
    /\ \/ /\ ~Accepts(cfg, req[c])
          /\ Answer(c, "401")
          /\ UNCHANGED authGen
       \/ /\ Accepts(cfg, req[c])
          /\ Goto(c, "route")
          /\ authGen' = [authGen EXCEPT ![c] = cfgGen]
          /\ UNCHANGED status
    /\ UNCHANGED <<stateVars, httpVars, sessVars, csrv, req, ticket, bindings, crashed>>

\* Token and method are checked in one critical section.
Auth(c) ==
    /\ cpc[c] = "auth"
    /\ mu = NoOne
    /\ \/ /\ ~TokenAccepted(cfg, req[c])
          /\ Answer(c, "401")
          /\ UNCHANGED authGen
       \/ /\ TokenAccepted(cfg, req[c])
          /\ ~MethodAllowed(cfg, req[c])
          /\ Answer(c, "405")
          /\ UNCHANGED authGen
       \/ /\ Accepts(cfg, req[c])
          /\ Goto(c, "route")
          /\ authGen' = [authGen EXCEPT ![c] = cfgGen]
          /\ UNCHANGED status
    /\ UNCHANGED <<stateVars, httpVars, sessVars, csrv, req, ticket, bindings, crashed>>

\* ParseRoute, and the checks that need no more than the route.  It reads
\* base_path without mu: while odata_serve assigns it, the path may match no
\* resource.
Route(c) ==
    /\ cpc[c] = "route"
    /\ \/ /\ req[c].method = "WRITE" /\ req[c].target \notin Entities
          /\ Answer(c, "405")
          /\ UNCHANGED req
       \/ /\ req[c].method = "WRITE"        \* an entity resource with a bad key
          /\ req[c].target \in Entities
          /\ Answer(c, "400")
          /\ UNCHANGED req
       \/ /\ req[c].method = "GET" /\ req[c].target = "health"
          /\ Answer(c, "200")
          /\ UNCHANGED req
       \/ /\ req[c].target \in Entities \/ (req[c].method = "GET" /\ req[c].target # "health")
          /\ Goto(c, "snapshot")
          /\ UNCHANGED <<status, req>>
       \/ /\ Configuring /\ req[c].target # "nowhere"
          /\ req' = [req EXCEPT ![c].target = "nowhere"]
          /\ UNCHANGED <<cpc, status>>
    /\ UNCHANGED <<stateVars, httpVars, sessVars, csrv, authGen, ticket, bindings, crashed>>

\* The handler reads base_path (route, context URIs) without mu, through a
\* buffer that odata_serve is freeing.
ConnRace(c) ==
    /\ cpc[c] \in {"route", "document", "execute"}
    /\ Configuring
    /\ crashed' = TRUE
    /\ UNCHANGED <<stateVars, httpVars, sessVars, connVars, bindings>>

\* The binding list is copied under mu and the resource looked up in the copy.
Snapshot(c) ==
    /\ cpc[c] = "snapshot"
    /\ mu = NoOne
    /\ \/ /\ bindings = {} \/ req[c].target \in {"nowhere"} \cup (Entities \ bindings)
          /\ Answer(c, "404")
       \/ /\ bindings # {} /\ req[c].target = "document"
          /\ Goto(c, "document")
          /\ UNCHANGED status
       \/ /\ req[c].target \in bindings
          /\ Goto(c, "enter")
          /\ UNCHANGED status
    /\ UNCHANGED <<stateVars, httpVars, sessVars, csrv, req, authGen, ticket, bindings, crashed>>

\* The service document and $metadata query the catalog without a slot.
BuildDocument(c) ==
    /\ cpc[c] = "document"
    /\ \E code \in {"200", "500"} : Answer(c, code)
    /\ UNCHANGED <<stateVars, httpVars, sessVars, csrv, req, authGen, ticket, bindings, crashed>>

\* Mutant of EnterGate: a slot is taken without counting it.
EnterUncounted(c) ==
    /\ cpc[c] = "enter"
    /\ ticket' = [ticket EXCEPT ![c] = active_queries]
    /\ Goto(c, "compare")
    /\ UNCHANGED <<stateVars, httpVars, sessVars, csrv, req, authGen, status, bindings, crashed>>

\* active = active_queries.fetch_add(1)
EnterGate(c) ==
    /\ cpc[c] = "enter"
    /\ ticket' = [ticket EXCEPT ![c] = active_queries]
    /\ active_queries' = active_queries + 1
    /\ Goto(c, "compare")
    /\ UNCHANGED <<mu, served, args, cfgGen, carried, running, server, httpVars, sessVars,
                   csrv, req, authGen, status, bindings, crashed>>

\* Mutant of OverLimit: one query too many.
OverLimitByOne(k, t) == k.max_concurrent_queries > 0 /\ t > k.max_concurrent_queries

\* The limit check, which reads max_concurrent_queries without mu.
OverLimit(k, t) == k.max_concurrent_queries > 0 /\ t >= k.max_concurrent_queries

CompareGate(c) ==
    /\ cpc[c] = "compare"
    /\ Goto(c, IF OverLimit(cfg, ticket[c]) THEN "reject" ELSE "execute")
    /\ UNCHANGED <<stateVars, httpVars, sessVars, csrv, req, authGen, ticket, status,
                   bindings, crashed>>

\* Mutant of RejectBusy: the increment is not given back.
RejectWithoutRelease(c) ==
    /\ cpc[c] = "reject"
    /\ Answer(c, "503")
    /\ UNCHANGED <<stateVars, httpVars, sessVars, csrv, req, authGen, ticket, bindings, crashed>>

\* A rejected request gives its increment back and answers 503.
RejectBusy(c) ==
    /\ cpc[c] = "reject"
    /\ active_queries' = active_queries - 1
    /\ Answer(c, "503")
    /\ UNCHANGED <<mu, served, args, cfgGen, carried, running, server, httpVars, sessVars,
                   csrv, req, authGen, ticket, bindings, crashed>>

\* The request is parsed, compiled and executed; whatever way the handler is
\* left (answer, early return or exception), ~QuerySlot gives the slot back.
Execute(c) ==
    /\ cpc[c] = "execute"
    /\ active_queries' = active_queries - 1
    /\ \E code \in {"executed", "500"} : Answer(c, code)
    /\ UNCHANGED <<mu, served, args, cfgGen, carried, running, server, httpVars, sessVars,
                   csrv, req, authGen, ticket, bindings, crashed>>

\* The response is sent (best effort) and the socket closed; the thread ends.
Respond(c) ==
    /\ cpc[c] = "respond"
    /\ Goto(c, "free")
    /\ status' = [status EXCEPT ![c] = "none"]
    /\ csrv' = [csrv EXCEPT ![c] = 0]
    /\ req' = [req EXCEPT ![c] = NoRequest]
    /\ authGen' = [authGen EXCEPT ![c] = 0]
    /\ ticket' = [ticket EXCEPT ![c] = 0]
    /\ UNCHANGED <<stateVars, httpVars, sessVars, bindings, crashed>>

-----------------------------------------------------------------------------

\* Steps of a call in progress; a session decides for itself when to call.
SessionStep(s) ==
    \/ ServeThrow(s) \/ ServeConfigure(s) \/ ServeFinish(s) \/ ServeReport(s) \/ ServeReturn(s)
    \/ StopJoin(s)

SessionCall(s) ==
    \/ ServeRefuse(s)
    \/ \E k \in Configs : ServeStart(s, k)
    \/ StopBegin(s)
    \/ \E e \in Entities : Expose(s, e)
    \/ SessionRace(s)

AcceptStep(g) ==
    \/ LoopCheck(g)
    \/ AcceptError(g)
    \/ \E c \in Conns, r \in Requests : AcceptConnection(g, c, r)

ConnStep(c) ==
    \/ ReadRequest(c) \/ ReadFails(c) \/ Dispatch(c) \/ Auth(c) \/ Route(c) \/ Snapshot(c)
    \/ BuildDocument(c) \/ EnterGate(c) \/ CompareGate(c) \/ RejectBusy(c) \/ Execute(c)
    \/ Respond(c)

Next ==
    /\ ~crashed
    /\ \/ \E s \in Sessions : SessionStep(s) \/ SessionCall(s)
       \/ \E g \in Gens : AcceptStep(g)
       \/ \E c \in Conns : ConnStep(c) \/ ConnRace(c)

Spec == Init /\ [][Next]_vars

(***************************************************************************)
(* Fairness.  Calls in progress go on, and so do connection threads: every *)
(* socket read and write times out after 10 s, and queries are taken to    *)
(* end.  The accept thread goes on whenever accept() is not blocking on an *)
(* open listener.                                                          *)
(***************************************************************************)
Alive(A) == ~crashed /\ A

Fairness ==
    /\ \A s \in Sessions : WF_vars(Alive(SessionStep(s)))
    /\ \A g \in Gens : /\ WF_vars(Alive(LoopCheck(g)))
                       /\ WF_vars(Alive(~listening[g] /\ AcceptError(g)))
    /\ \A c \in Conns : WF_vars(Alive(ConnStep(c)))

FairSpec == Spec /\ Fairness

-----------------------------------------------------------------------------
(* Properties.                                                             *)

\* Connection steps after authentication, and answers given after it.
PastAuth == {"route", "snapshot", "document", "enter", "compare", "reject", "execute"}
Disclosing == {"200", "404", "503", "executed"}

(***************************************************************************)
(* HandleODataRequest: no request gets past the auth block, or gets an     *)
(* answer that depends on the database, unless the configuration of the    *)
(* server it came through, or of one started later, accepts its token and  *)
(* method - even though SocketHttpServer::Start accepts connections before *)
(* StartODataServer has stored token and read_only.                        *)
(***************************************************************************)
AdmittedByOwnOrLaterConfig ==
    \A c \in Conns :
        cpc[c] \in PastAuth \/ status[c] \in Disclosing =>
            /\ csrv[c] \in 1 .. authGen[c]
            /\ Accepts(args[authGen[c]], req[c])

(***************************************************************************)
(* The fetch_add / fetch_sub pairs of HandleODataRequest neither leak nor  *)
(* double-release a slot on any path: the counter is the number of         *)
(* connections holding one, less those that held one when                  *)
(* StartODataServer reset it.                                              *)
(***************************************************************************)
SlotAccounting == active_queries = Cardinality(Holding) - carried

(***************************************************************************)
(* What the gate of HandleODataRequest really guarantees about             *)
(* odata_max_concurrent_queries: the limit is exceeded by at most the      *)
(* slots that were held when the counter was last reset.  (Between the     *)
(* assignment of the limit and the reset the two do not belong together.)  *)
(***************************************************************************)
LimitUpToCarried ==
    (/\ cfg.max_concurrent_queries > 0
     /\ \A s \in Sessions : spc[s] # "configured")
        => Cardinality(Admitted) <= cfg.max_concurrent_queries + carried

(***************************************************************************)
(* Until the first restart the gate keeps the limit exactly: no request of *)
(* the first server gets past the mutex before the counter is set.         *)
(***************************************************************************)
FirstServerKeepsLimit ==
    served <= 1 /\ cfg.max_concurrent_queries > 0
        => Cardinality(Admitted) <= cfg.max_concurrent_queries

(***************************************************************************)
(* Stop() joins the accept thread before the SocketHttpServer is           *)
(* destroyed, and only the server the state points to accepts connections: *)
(* after odata_stop returned, no listener and no accept thread is left.    *)
(***************************************************************************)
StoppedServerIsQuiet ==
    \A g \in Gens :
        /\ destroyed[g] => loop[g] = "exited" /\ ~listening[g]
        /\ mu = NoOne /\ loop[g] \in {"check", "accept"} => running /\ server = g

(***************************************************************************)
(* docs/security.md: odata_max_concurrent_queries, "excess requests ->     *)
(* 503": never more queries in execution than the limit in force allows.   *)
(***************************************************************************)
ConcurrencyLimit ==
    cfg.max_concurrent_queries > 0 /\ mu = NoOne
        => Cardinality({c \in Admitted : authGen[c] = cfgGen}) <= cfg.max_concurrent_queries

(***************************************************************************)
(* http_server.cpp: "never let a request-handler exception escape a        *)
(* connection thread: an uncaught exception there would std::terminate the *)
(* whole process": no request takes the process down.                      *)
(***************************************************************************)
ProcessSurvives == ~crashed

(***************************************************************************)
(* README.md: odata_serve "returns one row (listen_uri / listen_url /      *)
(* auth_token) so the endpoint and token are easy to read back".           *)
(* ServeExecute reads the three columns one by one after StartODataServer  *)
(* has released mu: each is about the server this call started or about    *)
(* one started since, never about an earlier one (but a row can mix them). *)
(***************************************************************************)
ReportsOwnOrLaterServer ==
    \A s \in Sessions : \A i \in DOMAIN report[s] : report[s][i] \in mine[s] .. served

(***************************************************************************)
(* odata_stop returns: StopODataServer holds mu while it joins the accept  *)
(* thread, and nothing that thread does needs mu.                          *)
(***************************************************************************)
StopReturns == \A s \in Sessions : (spc[s] = "joining") ~> (spc[s] = "idle" \/ crashed)

(***************************************************************************)
(* HandleConnection answers and closes every connection it was given, on   *)
(* every path and across server restarts, unless the process dies.         *)
(***************************************************************************)
EveryRequestAnswered ==
    \A c \in Conns : (cpc[c] = "reading") ~> (cpc[c] = "free" \/ crashed)

=============================================================================
