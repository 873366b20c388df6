------------------------- MODULE ODataServerProofs -------------------------
(***************************************************************************)
(* Proofs about ODataServer, for any sets of sessions and connections, any *)
(* configurations and requests and any number of restarts.  The inductive  *)
(* invariant IInv is built from five parts, proved one after the other:    *)
(*   MutexInv  who holds mu, and whose configuration the fields hold       *)
(*   AdmitInv  which configuration let a request in                        *)
(*   QuietInv  the life of a SocketHttpServer                              *)
(*   GateInv   the concurrency gate                                        *)
(*   RowInv    the row that odata_serve is filling                         *)
(***************************************************************************)
EXTENDS ODataServer, FiniteSetTheorems, TLAPS

-----------------------------------------------------------------------------
(* Types.                                                                  *)

(***************************************************************************)
(* There are finitely many slot holders.                                   *)
(***************************************************************************)
LEMMA HoldingFinite ==
    ASSUME TypeOK
    PROVE  IsFiniteSet(Holding) /\ Cardinality(Holding) \in Nat
  <1>1. Holding \subseteq Conns
    BY DEF Holding
  <1>2. QED
    BY <1>1, ConnsAssumption, FS_Subset, FS_CardinalityType

(***************************************************************************)
(* 0 stands for no server and for the default configuration.               *)
(***************************************************************************)
LEMMA ZeroInRange == 0 \in 0 .. MaxServes
  BY MaxServesAssumption

(***************************************************************************)
(* The placeholder request is a request.                                   *)
(***************************************************************************)
LEMMA NoRequestType == NoRequest \in RequestType
  BY DEF NoRequest, RequestType

(***************************************************************************)
(* The initial state of ODataServerState is type correct.                  *)
(***************************************************************************)
LEMMA TypeInit == Init => TypeOK
  <1>. SUFFICES ASSUME Init PROVE TypeOK
    OBVIOUS
  <1>1. /\ stop_requested \in [Gens -> BOOLEAN] /\ listening \in [Gens -> BOOLEAN]
        /\ destroyed \in [Gens -> BOOLEAN]
    BY Zenon DEF Init
  <1>2. req \in [Conns -> RequestType]
    BY NoRequestType DEF Init
  <1>3. /\ mine \in [Sessions -> 0 .. MaxServes]
        /\ csrv \in [Conns -> 0 .. MaxServes] /\ authGen \in [Conns -> 0 .. MaxServes]
        /\ args \in [Gens -> Configs \cup {DefaultConfig}]
    BY ZeroInRange, Zenon DEF Init
  <1>4. /\ loop \in [Gens -> LoopSteps] /\ spc \in [Sessions -> SessionSteps]
        /\ cpc \in [Conns -> ConnSteps] /\ status \in [Conns -> Statuses]
        /\ ticket \in [Conns -> Int]
    BY DEF Init, LoopSteps, SessionSteps, ConnSteps, Statuses
  <1>5. crashed \in BOOLEAN /\ bindings \in SUBSET Entities
    BY Zenon DEF Init
  <1>6. report \in [Sessions -> Seq(0 .. MaxServes)]
    BY DEF Init
  <1>7. running \in BOOLEAN /\ (running <=> server # 0)
    BY Zenon DEF Init
  <1>8. QED
    BY <1>1, <1>2, <1>3, <1>4, <1>5, <1>6, <1>7, ZeroInRange
       DEF Init, TypeOK

(***************************************************************************)
(* A request whose target was misread by ParseRoute is still a request.    *)
(***************************************************************************)
LEMMA RetargetType ==
    ASSUME NEW r \in RequestType
    PROVE  [r EXCEPT !.target = "nowhere"] \in RequestType
  BY DEF RequestType

(***************************************************************************)
(* Every step of sessions, accept threads and connections keeps the types. *)
(***************************************************************************)
LEMMA TypeStep == TypeOK /\ [Next]_vars => TypeOK'
  <1>. SUFFICES ASSUME TypeOK, [Next]_vars PROVE TypeOK'
    OBVIOUS
  <1>. USE MaxServesAssumption DEF Gens, SessionSteps, LoopSteps, ConnSteps, Statuses
  <1>1. ASSUME NEW s \in Sessions, ServeRefuse(s) PROVE TypeOK'
    BY <1>1 DEF ServeRefuse, TypeOK, Goto, Answer, stateVars, httpVars, sessVars, connVars
  <1>2. ASSUME NEW s \in Sessions, ServeThrow(s) PROVE TypeOK'
    BY <1>2 DEF ServeThrow, TypeOK, Goto, Answer, stateVars, httpVars, sessVars, connVars
  <1>3. ASSUME NEW s \in Sessions, NEW k \in Configs, ServeStart(s, k) PROVE TypeOK'
    BY <1>3 DEF ServeStart, TypeOK, Goto, Answer, stateVars, httpVars, sessVars, connVars
  <1>4. ASSUME NEW s \in Sessions, ServeConfigure(s) PROVE TypeOK'
    BY <1>4 DEF ServeConfigure, TypeOK, Goto, Answer, stateVars, httpVars, sessVars, connVars
  <1>5. ASSUME NEW s \in Sessions, ServeFinish(s) PROVE TypeOK'
    BY <1>5, HoldingFinite DEF ServeFinish, TypeOK, Goto, Answer, stateVars, httpVars, sessVars,
       connVars
  <1>6. ASSUME NEW s \in Sessions, ServeReport(s) PROVE TypeOK'
    <2>1. PICK g \in 0 .. MaxServes : report' = [report EXCEPT ![s] = Append(report[s], g)]
      BY <1>6 DEF ServeReport, TypeOK
    <2>2. report' \in [Sessions -> Seq(0 .. MaxServes)]
      BY <2>1 DEF TypeOK
    <2>3. spc' \in [Sessions -> SessionSteps]
      BY <1>6 DEF ServeReport, TypeOK
    <2>4. QED
      BY <1>6, <2>2, <2>3 DEF ServeReport, TypeOK, stateVars, httpVars, connVars
  <1>6a. ASSUME NEW s \in Sessions, ServeReturn(s) PROVE TypeOK'
    BY <1>6a DEF ServeReturn, TypeOK, stateVars, httpVars, connVars
  <1>7. ASSUME NEW s \in Sessions, SessionRace(s) PROVE TypeOK'
    BY <1>7 DEF SessionRace, TypeOK, Goto, Answer, stateVars, httpVars, sessVars, connVars
  <1>8. ASSUME NEW s \in Sessions, StopBegin(s) PROVE TypeOK'
    BY <1>8 DEF StopBegin, TypeOK, Goto, Answer, stateVars, httpVars, sessVars, connVars
  <1>9. ASSUME NEW s \in Sessions, StopJoin(s) PROVE TypeOK'
    <2>1. destroyed' \in [Gens -> BOOLEAN]
      BY <1>9, Zenon DEF StopJoin, TypeOK
    <2>2. QED
      BY <1>9, <2>1, ZeroInRange DEF StopJoin, TypeOK, Goto, Answer, stateVars, httpVars,
         sessVars, connVars
  <1>10. ASSUME NEW s \in Sessions, NEW e \in Entities, Expose(s, e) PROVE TypeOK'
    BY <1>10 DEF Expose, TypeOK, Goto, Answer, stateVars, httpVars, sessVars, connVars
  <1>11. ASSUME NEW g \in Gens, LoopCheck(g) PROVE TypeOK'
    BY <1>11 DEF LoopCheck, TypeOK, Goto, Answer, stateVars, httpVars, sessVars, connVars
  <1>12. ASSUME NEW g \in Gens, NEW c \in Conns, NEW r \in Requests, AcceptConnection(g, c, r)
     PROVE TypeOK'
    BY <1>12, RequestsAssumption DEF AcceptConnection, TypeOK, Goto, Answer, stateVars, httpVars,
       sessVars, connVars
  <1>13. ASSUME NEW g \in Gens, AcceptError(g) PROVE TypeOK'
    BY <1>13 DEF AcceptError, TypeOK, Goto, Answer, stateVars, httpVars, sessVars, connVars
  <1>14. ASSUME NEW c \in Conns, ReadRequest(c) PROVE TypeOK'
    BY <1>14 DEF ReadRequest, TypeOK, Goto, Answer, stateVars, httpVars, sessVars, connVars
  <1>15. ASSUME NEW c \in Conns, ReadFails(c) PROVE TypeOK'
    BY <1>15 DEF ReadFails, TypeOK, Goto, Answer, stateVars, httpVars, sessVars, connVars
  <1>16. ASSUME NEW c \in Conns, Dispatch(c) PROVE TypeOK'
    <2>1. cpc' \in [Conns -> ConnSteps] /\ status' \in [Conns -> Statuses] /\ crashed' \in BOOLEAN
      <3>1. cpc \in [Conns -> ConnSteps] /\ status \in [Conns -> Statuses] /\ crashed \in BOOLEAN
        BY DEF TypeOK
      <3>2. CASE Goto(c, "auth") /\ UNCHANGED <<status, crashed>>
        BY <3>1, <3>2 DEF Goto, ConnSteps
      <3>3. CASE Answer(c, "500") /\ UNCHANGED crashed
        BY <3>1, <3>3 DEF Answer, Goto, ConnSteps, Statuses
      <3>4. CASE crashed' = TRUE /\ UNCHANGED <<cpc, status>>
        BY <3>1, <3>4
      <3>5. QED
        BY <1>16, <3>2, <3>3, <3>4 DEF Dispatch
    <2>2. QED
      BY <1>16, <2>1 DEF Dispatch, TypeOK, stateVars, httpVars, sessVars
  <1>17. ASSUME NEW c \in Conns, Auth(c) PROVE TypeOK'
    BY <1>17 DEF Auth, TypeOK, Goto, Answer, stateVars, httpVars, sessVars, connVars
  <1>18. ASSUME NEW c \in Conns, Route(c) PROVE TypeOK'
    <2>1. req' \in [Conns -> RequestType]
      <3>1. [req[c] EXCEPT !.target = "nowhere"] \in RequestType
        <4>1. req[c] \in RequestType
          BY DEF TypeOK
        <4>2. QED
          BY <4>1, RetargetType
      <3>2. req' = req \/ req' = [req EXCEPT ![c] = [req[c] EXCEPT !.target = "nowhere"]]
        BY <1>18 DEF Route
      <3>3. QED
        BY <3>1, <3>2 DEF TypeOK
    <2>2. cpc' \in [Conns -> ConnSteps] /\ status' \in [Conns -> Statuses]
      BY <1>18 DEF Route, TypeOK, Goto, Answer
    <2>3. QED
      BY <1>18, <2>1, <2>2 DEF Route, TypeOK, Goto, Answer, stateVars, httpVars, sessVars, connVars
  <1>19. ASSUME NEW c \in Conns, ConnRace(c) PROVE TypeOK'
    BY <1>19 DEF ConnRace, TypeOK, Goto, Answer, stateVars, httpVars, sessVars, connVars
  <1>20. ASSUME NEW c \in Conns, Snapshot(c) PROVE TypeOK'
    BY <1>20 DEF Snapshot, TypeOK, Goto, Answer, stateVars, httpVars, sessVars, connVars
  <1>21. ASSUME NEW c \in Conns, BuildDocument(c) PROVE TypeOK'
    BY <1>21 DEF BuildDocument, TypeOK, Goto, Answer, stateVars, httpVars, sessVars, connVars
  <1>22. ASSUME NEW c \in Conns, EnterGate(c) PROVE TypeOK'
    BY <1>22 DEF EnterGate, TypeOK, Goto, Answer, stateVars, httpVars, sessVars, connVars
  <1>23. ASSUME NEW c \in Conns, CompareGate(c) PROVE TypeOK'
    BY <1>23 DEF CompareGate, TypeOK, Goto, Answer, stateVars, httpVars, sessVars, connVars
  <1>24. ASSUME NEW c \in Conns, RejectBusy(c) PROVE TypeOK'
    BY <1>24 DEF RejectBusy, TypeOK, Goto, Answer, stateVars, httpVars, sessVars, connVars
  <1>25. ASSUME NEW c \in Conns, Execute(c) PROVE TypeOK'
    BY <1>25 DEF Execute, TypeOK, Goto, Answer, stateVars, httpVars, sessVars, connVars
  <1>26. ASSUME NEW c \in Conns, Respond(c) PROVE TypeOK'
    BY <1>26, NoRequestType DEF Respond, TypeOK, Goto, Answer, stateVars, httpVars, sessVars,
       connVars
  <1>27. CASE UNCHANGED vars
    BY <1>27 DEF vars, TypeOK, Goto, Answer, stateVars, httpVars, sessVars, connVars
  <1>28. QED
    BY <1>1, <1>2, <1>3, <1>4, <1>5, <1>6, <1>6a, <1>7, <1>8, <1>9, <1>10, <1>11, <1>12, <1>13, <1>14,
       <1>15, <1>16, <1>17, <1>18, <1>19, <1>20, <1>21, <1>22, <1>23, <1>24, <1>25, <1>26, <1>27
       DEF Next, SessionStep, SessionCall, AcceptStep, ConnStep

-----------------------------------------------------------------------------
(* What a step of a connection or of an accept thread leaves alone.        *)

(***************************************************************************)
(* A connection thread changes neither the configuration nor a session nor *)
(* a SocketHttpServer.                                                     *)
(***************************************************************************)
LEMMA ConnFrame ==
    ASSUME NEW c \in Conns, ConnStep(c) \/ ConnRace(c)
    PROVE  UNCHANGED <<mu, served, args, cfgGen, carried, running, server, httpVars, sessVars,
                       bindings>>
  BY DEF ConnStep, ReadRequest, ReadFails, Dispatch, Auth, Route, ConnRace, Snapshot,
         BuildDocument, EnterGate, CompareGate, RejectBusy, Execute, Respond, stateVars, httpVars

(***************************************************************************)
(* An accept thread changes neither the state of the extension nor a session. *)
(***************************************************************************)
LEMMA AcceptFrame ==
    ASSUME NEW g \in Gens, AcceptStep(g)
    PROVE  UNCHANGED <<stateVars, sessVars, stop_requested, listening, destroyed, bindings,
                       authGen, ticket, status>>
  BY DEF AcceptStep, LoopCheck, AcceptConnection, AcceptError, connVars

-----------------------------------------------------------------------------
(* The mutex and the generation of the configuration fields.               *)

LockedSteps == {"starting", "configured", "joining"}

MutexInv ==
    /\ \A s \in Sessions : spc[s] \in LockedSteps => mu = s
    /\ \A s \in Sessions : spc[s] = "starting" => cfgGen = served - 1 /\ mine[s] = served
    /\ \A s \in Sessions : spc[s] = "configured" => mine[s] = served
    /\ \A s \in Sessions : spc[s] = "reporting" => mine[s] <= cfgGen
    /\ cfgGen = served \/ \E s \in Sessions : spc[s] = "starting"

(***************************************************************************)
(* Initially nobody holds mu and the fields hold the defaults.             *)
(***************************************************************************)
LEMMA MutexInit == Init => MutexInv
  BY DEF Init, MutexInv, LockedSteps

(***************************************************************************)
(* StartODataServer and StopODataServer keep mu for as long as they run,   *)
(* and whoever else holds it sees the configuration of the last server.    *)
(***************************************************************************)
LEMMA MutexStep == TypeOK /\ MutexInv /\ [Next]_vars => MutexInv'
  <1>. SUFFICES ASSUME TypeOK, MutexInv, [Next]_vars PROVE MutexInv'
    OBVIOUS
  <1>. USE MaxServesAssumption, NoOneAssumption DEF TypeOK, MutexInv, LockedSteps, SessionSteps
  <1>1. ASSUME NEW s \in Sessions, ServeRefuse(s) PROVE MutexInv'
    BY <1>1 DEF ServeRefuse, stateVars, sessVars
  <1>2. ASSUME NEW s \in Sessions, ServeThrow(s) PROVE MutexInv'
    BY <1>2 DEF ServeThrow, stateVars, sessVars
  <1>3. ASSUME NEW s \in Sessions, NEW k \in Configs, ServeStart(s, k) PROVE MutexInv'
    BY <1>3 DEF ServeStart, stateVars, sessVars
  <1>4. ASSUME NEW s \in Sessions, ServeConfigure(s) PROVE MutexInv'
    BY <1>4 DEF ServeConfigure, stateVars, sessVars
  <1>5. ASSUME NEW s \in Sessions, ServeFinish(s) PROVE MutexInv'
    BY <1>5 DEF ServeFinish, stateVars, sessVars
  <1>6. ASSUME NEW s \in Sessions, ServeReport(s) PROVE MutexInv'
    BY <1>6 DEF ServeReport, stateVars, sessVars
  <1>6a. ASSUME NEW s \in Sessions, ServeReturn(s) PROVE MutexInv'
    BY <1>6a DEF ServeReturn, stateVars, sessVars
  <1>7. ASSUME NEW s \in Sessions, SessionRace(s) PROVE MutexInv'
    BY <1>7 DEF SessionRace, stateVars, sessVars
  <1>8. ASSUME NEW s \in Sessions, StopBegin(s) PROVE MutexInv'
    BY <1>8 DEF StopBegin, stateVars, sessVars
  <1>9. ASSUME NEW s \in Sessions, StopJoin(s) PROVE MutexInv'
    BY <1>9 DEF StopJoin, stateVars, sessVars
  <1>10. ASSUME NEW s \in Sessions, NEW e \in Entities, Expose(s, e) PROVE MutexInv'
    BY <1>10 DEF Expose, stateVars, sessVars
  <1>11. ASSUME NEW g \in Gens, AcceptStep(g) PROVE MutexInv'
    BY <1>11, AcceptFrame DEF stateVars, sessVars
  <1>12. ASSUME NEW c \in Conns, ConnStep(c) \/ ConnRace(c) PROVE MutexInv'
    BY <1>12, ConnFrame DEF sessVars
  <1>13. CASE UNCHANGED vars
    BY <1>13 DEF vars, stateVars, sessVars
  <1>14. QED
    BY <1>1, <1>2, <1>3, <1>4, <1>5, <1>6, <1>6a, <1>7, <1>8, <1>9, <1>10, <1>11, <1>12, <1>13
       DEF Next, SessionStep, SessionCall

-----------------------------------------------------------------------------
(* Admission: every request past the auth block was accepted by its own    *)
(* server's configuration or a later one.                                  *)

AdmitInv ==
    /\ \A g \in Gens : loop[g] \in {"check", "accept"} => g <= served
    /\ \A c \in Conns : cpc[c] # "free" => csrv[c] \in 1 .. served
    /\ \A c \in Conns : cpc[c] = "free" => status[c] = "none"
    /\ \A c \in Conns : authGen[c] <= served
    /\ \A s \in Sessions : spc[s] \in {"starting", "configured"} =>
          \A c \in Conns : authGen[c] <= served - 1
    /\ AdmittedByOwnOrLaterConfig

(***************************************************************************)
(* Initially no request has been admitted.                                 *)
(***************************************************************************)
LEMMA AdmitInit == Init => AdmitInv
  BY DEF Init, AdmitInv, AdmittedByOwnOrLaterConfig, PastAuth, Disclosing

(***************************************************************************)
(* A connection accepted before the configuration is in place waits for mu, *)
(* so the auth block of HandleODataRequest reads its own server's fields or *)
(* a later server's.                                                       *)
(***************************************************************************)
LEMMA AdmitStep == TypeOK /\ MutexInv /\ AdmitInv /\ [Next]_vars => AdmitInv'
  <1>. SUFFICES ASSUME TypeOK, MutexInv, AdmitInv, [Next]_vars PROVE AdmitInv'
    OBVIOUS
  <1>. USE MaxServesAssumption DEF TypeOK, AdmitInv, AdmittedByOwnOrLaterConfig, PastAuth,
     Disclosing, Gens
  <1>1. ASSUME NEW s \in Sessions, ServeRefuse(s) PROVE AdmitInv'
    BY <1>1 DEF ServeRefuse, Goto, Answer, stateVars, httpVars, sessVars, connVars
  <1>2. ASSUME NEW s \in Sessions, ServeThrow(s) PROVE AdmitInv'
    BY <1>2 DEF ServeThrow, Goto, Answer, stateVars, httpVars, sessVars, connVars
  <1>3. ASSUME NEW s \in Sessions, NEW k \in Configs, ServeStart(s, k) PROVE AdmitInv'
    BY <1>3, NoOneAssumption DEF ServeStart, Goto, Answer, stateVars, httpVars, sessVars,
       connVars, MutexInv, LockedSteps
  <1>4. ASSUME NEW s \in Sessions, ServeConfigure(s) PROVE AdmitInv'
    BY <1>4 DEF ServeConfigure, Goto, Answer, stateVars, httpVars, sessVars, connVars
  <1>5. ASSUME NEW s \in Sessions, ServeFinish(s) PROVE AdmitInv'
    BY <1>5 DEF ServeFinish, Goto, Answer, stateVars, httpVars, sessVars, connVars
  <1>6. ASSUME NEW s \in Sessions, ServeReport(s) PROVE AdmitInv'
    BY <1>6 DEF ServeReport, Goto, Answer, stateVars, httpVars, sessVars, connVars
  <1>6a. ASSUME NEW s \in Sessions, ServeReturn(s) PROVE AdmitInv'
    BY <1>6a DEF ServeReturn, stateVars, httpVars, connVars
  <1>7. ASSUME NEW s \in Sessions, SessionRace(s) PROVE AdmitInv'
    BY <1>7 DEF SessionRace, Goto, Answer, stateVars, httpVars, sessVars, connVars
  <1>8. ASSUME NEW s \in Sessions, StopBegin(s) PROVE AdmitInv'
    BY <1>8 DEF StopBegin, Goto, Answer, stateVars, httpVars, sessVars, connVars
  <1>9. ASSUME NEW s \in Sessions, StopJoin(s) PROVE AdmitInv'
    BY <1>9 DEF StopJoin, Goto, Answer, stateVars, httpVars, sessVars, connVars
  <1>10. ASSUME NEW s \in Sessions, NEW e \in Entities, Expose(s, e) PROVE AdmitInv'
    BY <1>10 DEF Expose, Goto, Answer, stateVars, httpVars, sessVars, connVars
  <1>11. ASSUME NEW g \in Gens, LoopCheck(g) PROVE AdmitInv'
    BY <1>11 DEF LoopCheck, Goto, Answer, stateVars, httpVars, sessVars, connVars
  <1>12. ASSUME NEW g \in Gens, NEW c \in Conns, NEW r \in Requests, AcceptConnection(g, c, r)
     PROVE AdmitInv'
    BY <1>12 DEF AcceptConnection, Goto, Answer, stateVars, httpVars, sessVars, connVars
  <1>13. ASSUME NEW g \in Gens, AcceptError(g) PROVE AdmitInv'
    BY <1>13 DEF AcceptError, Goto, Answer, stateVars, httpVars, sessVars, connVars
  <1>14. ASSUME NEW c \in Conns, ReadRequest(c) PROVE AdmitInv'
    BY <1>14 DEF ReadRequest, Goto, Answer, stateVars, httpVars, sessVars, connVars
  <1>15. ASSUME NEW c \in Conns, ReadFails(c) PROVE AdmitInv'
    BY <1>15 DEF ReadFails, Goto, Answer, stateVars, httpVars, sessVars, connVars
  <1>16. ASSUME NEW c \in Conns, Dispatch(c) PROVE AdmitInv'
    <2>1. UNCHANGED <<args, served, loop, spc, csrv, req, authGen>>
      BY <1>16 DEF Dispatch, stateVars, httpVars, sessVars
    <2>2. /\ cpc[c] = "dispatch" /\ cpc'[c] \in {"auth", "respond", "dispatch"}
          /\ status'[c] \in {status[c], "500"}
          /\ \A d \in Conns : d # c => cpc'[d] = cpc[d] /\ status'[d] = status[d]
      BY <1>16 DEF Dispatch, Goto, Answer
    <2>3. AdmittedByOwnOrLaterConfig'
      BY <2>1, <2>2
    <2>4. QED
      BY <2>1, <2>2, <2>3
  <1>17. ASSUME NEW c \in Conns, Auth(c) PROVE AdmitInv'
    <2>1. cfgGen = served
      BY <1>17, NoOneAssumption DEF Auth, MutexInv, LockedSteps
    <2>2. cfg = args[served] /\ csrv[c] \in 1 .. served
      BY <1>17, <2>1 DEF Auth, cfg
    <2>3. CASE cpc'[c] = "respond"
      <3>1. status'[c] \in {"401", "405"} /\ UNCHANGED authGen
        BY <1>17, <2>3 DEF Auth, Goto, Answer
      <3>2. QED
        BY <1>17, <2>3, <3>1 DEF Auth, Goto, Answer, stateVars, httpVars, sessVars
    <2>4. CASE cpc'[c] = "route"
      <3>1. Accepts(cfg, req[c]) /\ authGen' = [authGen EXCEPT ![c] = served] /\ UNCHANGED status
        BY <1>17, <2>1, <2>4 DEF Auth, Goto, Answer
      <3>2. \A s \in Sessions : spc[s] \notin {"starting", "configured"}
        BY <1>17, NoOneAssumption DEF Auth, MutexInv, LockedSteps
      <3>3. QED
        BY <1>17, <2>2, <2>4, <3>1, <3>2 DEF Auth, Goto, Answer, stateVars, httpVars, sessVars
    <2>5. QED
      BY <1>17, <2>3, <2>4 DEF Auth, Goto, Answer
  <1>18. ASSUME NEW c \in Conns, Route(c) PROVE AdmitInv'
    <2>1. \A d \in Conns : req'[d].token = req[d].token /\ req'[d].method = req[d].method
      <3>1. req' = req \/ req' = [req EXCEPT ![c] = [req[c] EXCEPT !.target = "nowhere"]]
        BY <1>18 DEF Route
      <3>2. LET q == [req[c] EXCEPT !.target = "nowhere"]
            IN  q.token = req[c].token /\ q.method = req[c].method
        BY DEF RequestType
      <3>3. QED
        BY <3>1, <3>2
    <2>2. \A k \in Configs \cup {DefaultConfig}, d \in Conns :
             Accepts(k, req[d]) => Accepts(k, req'[d])
      BY <2>1 DEF Accepts, TokenAccepted, MethodAllowed
    <2>3. UNCHANGED <<csrv, authGen, args, served, loop, spc>>
      BY <1>18 DEF Route, stateVars, httpVars, sessVars
    <2>4. /\ cpc'[c] # "free"
          /\ \A d \in Conns : d # c => cpc'[d] = cpc[d] /\ status'[d] = status[d]
      BY <1>18 DEF Route, Goto, Answer
    <2>5. AdmittedByOwnOrLaterConfig'
      <3>. SUFFICES ASSUME NEW d \in Conns, (cpc[d] \in PastAuth \/ status[d] \in Disclosing)'
                    PROVE  csrv[d] \in 1 .. authGen[d] /\ Accepts(args[authGen[d]], req'[d])
        BY <2>3
      <3>1. cpc[d] \in PastAuth \/ status[d] \in Disclosing
        BY <1>18, <2>4 DEF Route
      <3>2. csrv[d] \in 1 .. authGen[d] /\ Accepts(args[authGen[d]], req[d])
        BY <3>1
      <3>3. args[authGen[d]] \in Configs \cup {DefaultConfig}
        BY <3>2
      <3>4. QED
        BY <3>2, <3>3, <2>2
    <2>6. QED
      BY <1>18, <2>3, <2>4, <2>5 DEF Route
  <1>19. ASSUME NEW c \in Conns, ConnRace(c) PROVE AdmitInv'
    BY <1>19 DEF ConnRace, Goto, Answer, stateVars, httpVars, sessVars, connVars
  <1>20. ASSUME NEW c \in Conns, Snapshot(c) PROVE AdmitInv'
    BY <1>20 DEF Snapshot, Goto, Answer, stateVars, httpVars, sessVars, connVars
  <1>21. ASSUME NEW c \in Conns, BuildDocument(c) PROVE AdmitInv'
    BY <1>21 DEF BuildDocument, Goto, Answer, stateVars, httpVars, sessVars, connVars
  <1>22. ASSUME NEW c \in Conns, EnterGate(c) PROVE AdmitInv'
    BY <1>22 DEF EnterGate, Goto, Answer, stateVars, httpVars, sessVars, connVars
  <1>23. ASSUME NEW c \in Conns, CompareGate(c) PROVE AdmitInv'
    BY <1>23 DEF CompareGate, Goto, Answer, stateVars, httpVars, sessVars, connVars
  <1>24. ASSUME NEW c \in Conns, RejectBusy(c) PROVE AdmitInv'
    BY <1>24 DEF RejectBusy, Goto, Answer, stateVars, httpVars, sessVars, connVars
  <1>25. ASSUME NEW c \in Conns, Execute(c) PROVE AdmitInv'
    BY <1>25 DEF Execute, Goto, Answer, stateVars, httpVars, sessVars, connVars
  <1>26. ASSUME NEW c \in Conns, Respond(c) PROVE AdmitInv'
    BY <1>26 DEF Respond, Goto, Answer, stateVars, httpVars, sessVars, connVars
  <1>27. CASE UNCHANGED vars
    BY <1>27 DEF vars, stateVars, httpVars, sessVars, connVars
  <1>28. QED
    BY <1>1, <1>2, <1>3, <1>4, <1>5, <1>6, <1>6a, <1>7, <1>8, <1>9, <1>10, <1>11, <1>12, <1>13, <1>14,
       <1>15, <1>16, <1>17, <1>18, <1>19, <1>20, <1>21, <1>22, <1>23, <1>24, <1>25, <1>26, <1>27
       DEF Next, SessionStep, SessionCall, AcceptStep, ConnStep

-----------------------------------------------------------------------------
(* The life of a SocketHttpServer: from Start to the end of Stop.          *)

QuietInv ==
    /\ \A g \in Gens : g > served => ~destroyed[g]
    /\ running <=> server # 0
    /\ server <= served
    /\ \A g \in Gens : server = g => ~destroyed[g]
    /\ \A s \in Sessions : spc[s] \in {"starting", "configured"} =>
          server = 0 /\ mine[s] \in Gens /\ ~destroyed[mine[s]]
    /\ \A s \in Sessions : spc[s] = "joining" =>
          mine[s] = server /\ server # 0 /\ ~listening[server]
    /\ \A g \in Gens : listening[g] \/ loop[g] \in {"check", "accept"} =>
          \/ server = g
          \/ \E s \in Sessions : spc[s] \in {"starting", "configured"} /\ mine[s] = g
    /\ \A g \in Gens : destroyed[g] => loop[g] = "exited" /\ ~listening[g]

(***************************************************************************)
(* Initially there is no server.                                           *)
(***************************************************************************)
LEMMA QuietInit == Init => QuietInv
  BY DEF Init, QuietInv

(***************************************************************************)
(* A SocketHttpServer accepts only between Start and Stop, and is destroyed *)
(* after its accept thread has ended.                                      *)
(***************************************************************************)
LEMMA QuietStep == TypeOK /\ MutexInv /\ QuietInv /\ [Next]_vars => QuietInv'
  <1>. SUFFICES ASSUME TypeOK, MutexInv, QuietInv, [Next]_vars PROVE QuietInv'
    OBVIOUS
  <1>0. /\ served \in 0 .. MaxServes /\ server \in 0 .. MaxServes
        /\ loop \in [Gens -> LoopSteps] /\ listening \in [Gens -> BOOLEAN]
        /\ destroyed \in [Gens -> BOOLEAN]
        /\ spc \in [Sessions -> SessionSteps] /\ mine \in [Sessions -> 0 .. MaxServes]
    BY DEF TypeOK
  <1>. USE <1>0, MaxServesAssumption, NoOneAssumption DEF MutexInv, LockedSteps, QuietInv, Gens
  <1>1. ASSUME NEW s \in Sessions,
               \/ ServeRefuse(s) \/ ServeThrow(s) \/ ServeReport(s) \/ ServeReturn(s)
               \/ SessionRace(s) \/ \E e \in Entities : Expose(s, e)
        PROVE  QuietInv'
    <2>1. UNCHANGED <<running, server, served, loop, listening, destroyed, mine>>
      BY <1>1 DEF ServeRefuse, ServeThrow, ServeReport, ServeReturn, SessionRace, Expose,
         stateVars, httpVars, sessVars
    <2>2. \A t \in Sessions, x \in LockedSteps : spc'[t] = x <=> spc[t] = x
      BY <1>1 DEF ServeRefuse, ServeThrow, ServeReport, ServeReturn, SessionRace, Expose,
         sessVars
    <2>3. \A t \in Sessions :
             /\ spc'[t] \in {"starting", "configured"} <=> spc[t] \in {"starting", "configured"}
             /\ spc'[t] = "joining" <=> spc[t] = "joining"
      BY <2>2
    <2>4. QED
      BY <2>1, <2>3
  <1>3. ASSUME NEW s \in Sessions, NEW k \in Configs, ServeStart(s, k) PROVE QuietInv'
    BY <1>3 DEF ServeStart, stateVars, httpVars, sessVars
  <1>4. ASSUME NEW s \in Sessions, ServeConfigure(s) PROVE QuietInv'
    BY <1>4 DEF ServeConfigure, stateVars, httpVars, sessVars
  <1>5. ASSUME NEW s \in Sessions, ServeFinish(s) PROVE QuietInv'
    BY <1>5 DEF ServeFinish, stateVars, httpVars, sessVars
  <1>8. ASSUME NEW s \in Sessions, StopBegin(s) PROVE QuietInv'
    BY <1>8 DEF StopBegin, stateVars, httpVars, sessVars
  <1>9. ASSUME NEW s \in Sessions, StopJoin(s) PROVE QuietInv'
    BY <1>9 DEF StopJoin, stateVars, httpVars, sessVars
  <1>11. ASSUME NEW g \in Gens, LoopCheck(g) PROVE QuietInv'
    BY <1>11 DEF LoopCheck, stateVars, httpVars, sessVars
  <1>12. ASSUME NEW g \in Gens, NEW c \in Conns, NEW r \in Requests, AcceptConnection(g, c, r)
     PROVE QuietInv'
    BY <1>12 DEF AcceptConnection, stateVars, httpVars, sessVars
  <1>13. ASSUME NEW g \in Gens, AcceptError(g) PROVE QuietInv'
    BY <1>13 DEF AcceptError, stateVars, httpVars, sessVars
  <1>14. ASSUME NEW c \in Conns, ConnStep(c) \/ ConnRace(c) PROVE QuietInv'
    BY <1>14, ConnFrame DEF httpVars, sessVars
  <1>15. CASE UNCHANGED vars
    BY <1>15 DEF vars, stateVars, httpVars, sessVars
  <1>16. QED
    BY <1>1, <1>3, <1>4, <1>5, <1>8, <1>9, <1>11, <1>12, <1>13, <1>14, <1>15
       DEF Next, SessionStep, SessionCall, AcceptStep

(***************************************************************************)
(* The life-cycle invariant is strong enough for StoppedServerIsQuiet.     *)
(***************************************************************************)
LEMMA QuietImplies == MutexInv /\ QuietInv => StoppedServerIsQuiet
  <1>1. MutexInv /\ mu = NoOne => \A s \in Sessions : spc[s] \notin {"starting", "configured"}
    BY NoOneAssumption DEF MutexInv, LockedSteps
  <1>2. QED
    BY <1>1, MaxServesAssumption DEF QuietInv, StoppedServerIsQuiet, Gens

-----------------------------------------------------------------------------
(* The concurrency gate.                                                   *)

\* Slot holders that are past the limit check or are going to pass it.
Good == {c \in Conns : \/ cpc[c] = "execute"
                       \/ cpc[c] = "compare" /\ ~OverLimit(cfg, ticket[c])}

\* The bound on them that the gate maintains.
GoodBound ==
    (/\ cfg.max_concurrent_queries > 0
     /\ \A s \in Sessions : spc[s] # "configured")
        => Cardinality(Good) <= cfg.max_concurrent_queries + carried

GateInv ==
    /\ SlotAccounting
    /\ GoodBound
    /\ served <= 1 => carried = 0

(***************************************************************************)
(* Requests past the limit check hold a slot.                              *)
(***************************************************************************)
LEMMA GoodInHolding == Good \subseteq Holding /\ Admitted \subseteq Good
  BY DEF Good, Holding, Admitted

(***************************************************************************)
(* The sets of connections that the gate counts are finite.                *)
(***************************************************************************)
LEMMA GoodFinite ==
    /\ IsFiniteSet(Good) /\ IsFiniteSet(Admitted) /\ IsFiniteSet(Holding)
    /\ Cardinality(Good) \in Nat /\ Cardinality(Admitted) \in Nat /\ Cardinality(Holding) \in Nat
  <1>1. Good \subseteq Conns /\ Admitted \subseteq Conns /\ Holding \subseteq Conns
    BY DEF Good, Admitted, Holding
  <1>2. QED
    BY <1>1, ConnsAssumption, FS_Subset, FS_CardinalityType

(***************************************************************************)
(* The limit in force is a natural number.                                 *)
(***************************************************************************)
LEMMA CfgType == TypeOK => cfg.max_concurrent_queries \in Nat
  <1>. SUFFICES ASSUME TypeOK PROVE cfg.max_concurrent_queries \in Nat
    OBVIOUS
  <1>1. DefaultConfig.max_concurrent_queries \in Nat
    BY DEF DefaultConfig
  <1>2. \A k \in Configs : k.max_concurrent_queries \in Nat
    BY ConfigsAssumption DEF ConfigType
  <1>3. CASE cfgGen = 0
    BY <1>1, <1>3 DEF cfg
  <1>4. CASE cfgGen # 0
    <2>1. args[cfgGen] \in Configs \cup {DefaultConfig}
      BY <1>4, MaxServesAssumption DEF TypeOK, Gens
    <2>2. QED
      BY <2>1, <1>1, <1>2, <1>4 DEF cfg
  <1>5. QED
    BY <1>3, <1>4

(***************************************************************************)
(* The numbers that the gate computes with.                                *)
(***************************************************************************)
LEMMA GateTypes ==
    TypeOK => /\ active_queries \in Int /\ carried \in Nat /\ served \in Nat
              /\ cfg.max_concurrent_queries \in Nat
              /\ cpc \in [Conns -> ConnSteps] /\ ticket \in [Conns -> Int]
  BY CfgType, MaxServesAssumption DEF TypeOK

(***************************************************************************)
(* A step that moves no connection in or out of the gate keeps the bound.  *)
(***************************************************************************)
LEMMA GateFrame ==
    ASSUME TypeOK, GateInv,
           Holding' = Holding, Good' \subseteq Good, cfg' = cfg,
           UNCHANGED <<active_queries, carried>>,
           \A s \in Sessions : spc[s] = "configured" => spc'[s] = "configured",
           served' >= served, served' \in Nat
    PROVE  GateInv'
  <1>1. Cardinality(Good') <= Cardinality(Good)
    BY GoodFinite, FS_Subset
  <1>2. Cardinality(Good') \in Nat
    BY GoodFinite, FS_Subset, FS_CardinalityType
  <1>3. GoodBound'
    BY <1>1, <1>2, GoodFinite, GateTypes DEF GateInv, GoodBound
  <1>4. QED
    BY <1>3, MaxServesAssumption DEF GateInv, SlotAccounting, TypeOK

(***************************************************************************)
(* Initially the gate is empty.                                            *)
(***************************************************************************)
LEMMA GateInit == Init => GateInv
  <1>. SUFFICES ASSUME Init PROVE GateInv
    OBVIOUS
  <1>1. Holding = {}
    BY DEF Init, Holding
  <1>2. cfg.max_concurrent_queries = 0
    BY DEF Init, cfg, DefaultConfig
  <1>3. QED
    BY <1>1, <1>2, FS_EmptySet DEF Init, GateInv, SlotAccounting, GoodBound

(***************************************************************************)
(* fetch_add before the comparison admits a request only if fewer than the *)
(* limit were counted before it; every path gives its increment back.      *)
(***************************************************************************)
LEMMA GateStep ==
    TypeOK /\ TypeOK' /\ MutexInv /\ AdmitInv /\ GateInv /\ [Next]_vars => GateInv'
  <1>. SUFFICES ASSUME TypeOK, TypeOK', MutexInv, AdmitInv, GateInv, [Next]_vars PROVE GateInv'
    OBVIOUS
  <1>. USE MaxServesAssumption, NoOneAssumption
  <1>1. ASSUME NEW s \in Sessions,
            ServeRefuse(s) \/ ServeThrow(s) \/ ServeReport(s) \/ ServeReturn(s)
            \/ SessionRace(s) \/ StopBegin(s) \/ StopJoin(s)
        PROVE  GateInv'
    <2>1. UNCHANGED <<cpc, ticket, args, cfgGen, active_queries, carried, served>>
      BY <1>1 DEF ServeRefuse, ServeThrow, ServeReport, ServeReturn, SessionRace, StopBegin, StopJoin,
         stateVars, connVars
    <2>2. \A t \in Sessions : spc[t] = "configured" => spc'[t] = "configured"
      BY <1>1 DEF ServeRefuse, ServeThrow, ServeReport, ServeReturn, SessionRace, StopBegin, StopJoin,
         sessVars, TypeOK
    <2>3. QED
      BY <2>1, <2>2, GateFrame, GateTypes DEF Holding, Good, cfg, OverLimit
  <1>2. ASSUME NEW s \in Sessions, NEW e \in Entities,
            Expose(s, e)
        PROVE  GateInv'
    <2>1. UNCHANGED <<cpc, ticket, args, cfgGen, active_queries, carried, served>>
      BY <1>2 DEF Expose, stateVars, connVars
    <2>2. \A t \in Sessions : spc[t] = "configured" => spc'[t] = "configured"
      BY <1>2 DEF Expose, sessVars, TypeOK
    <2>3. QED
      BY <2>1, <2>2, GateFrame, GateTypes DEF Holding, Good, cfg, OverLimit
  <1>3. ASSUME NEW s \in Sessions, NEW k \in Configs,
            ServeStart(s, k)
        PROVE  GateInv'
    <2>1. UNCHANGED <<cpc, ticket, cfgGen, active_queries, carried>> /\ served' = served + 1
      BY <1>3 DEF ServeStart, connVars
    <2>2. cfg' = cfg
      BY <1>3 DEF ServeStart, cfg, TypeOK, MutexInv, LockedSteps, Gens
    <2>3. \A t \in Sessions : spc[t] = "configured" => spc'[t] = "configured"
      BY <1>3 DEF ServeStart, TypeOK
    <2>4. Holding' = Holding /\ Good' \subseteq Good
      BY <2>1, <2>2 DEF Holding, Good, OverLimit
    <2>5. QED
      BY <2>1, <2>2, <2>3, <2>4, GateFrame, GateTypes
  <1>4. ASSUME NEW s \in Sessions,
            ServeConfigure(s)
        PROVE  GateInv'
    <2>1. Holding' = Holding /\ UNCHANGED <<active_queries, carried, served>>
      BY <1>4 DEF ServeConfigure, Holding, connVars
    <2>2. spc'[s] = "configured"
      BY <1>4 DEF ServeConfigure, TypeOK
    <2>3. QED
      BY <2>1, <2>2 DEF GateInv, SlotAccounting, GoodBound
  <1>5. ASSUME NEW s \in Sessions,
            ServeFinish(s)
        PROVE  GateInv'
    <2>1. /\ Holding' = Holding /\ UNCHANGED <<cpc, args, cfgGen, served>>
          /\ active_queries' = 0 /\ carried' = Cardinality(Holding)
      BY <1>5 DEF ServeFinish, Holding, connVars
    <2>2. SlotAccounting'
      BY <2>1, GoodFinite DEF SlotAccounting
    <2>3. Cardinality(Good') <= Cardinality(Holding) /\ Cardinality(Good') \in Nat
      <3>1. Good' \subseteq Holding
        BY <2>1 DEF Good, Holding
      <3>2. QED
        BY <3>1, GoodFinite, FS_Subset, FS_CardinalityType
    <2>4. GoodBound'
      <3>1. cfg'.max_concurrent_queries \in Nat
        BY <2>1, CfgType DEF cfg
      <3>2. QED
        BY <2>1, <2>3, <3>1, GoodFinite DEF GoodBound
    <2>5. served <= 1 => Holding = {}
      <3>. SUFFICES ASSUME served <= 1, NEW c \in Holding PROVE FALSE
        OBVIOUS
      <3>1. authGen[c] <= served - 1 /\ c \in Conns
        BY <1>5 DEF ServeFinish, AdmitInv, Holding
      <3>2. csrv[c] \in 1 .. authGen[c]
        BY DEF AdmitInv, AdmittedByOwnOrLaterConfig, Holding, PastAuth
      <3>3. QED
        BY <3>1, <3>2 DEF TypeOK
    <2>6. QED
      BY <2>1, <2>2, <2>4, <2>5, FS_EmptySet DEF GateInv
  <1>6. ASSUME NEW g \in Gens,
            LoopCheck(g) \/ AcceptError(g)
        PROVE  GateInv'
    <2>1. UNCHANGED <<cpc, ticket, args, cfgGen, active_queries, carried, served>>
      BY <1>6 DEF LoopCheck, AcceptError, stateVars, connVars
    <2>2. \A t \in Sessions : spc[t] = "configured" => spc'[t] = "configured"
      BY <1>6 DEF LoopCheck, AcceptError, sessVars, TypeOK
    <2>3. QED
      BY <2>1, <2>2, GateFrame, GateTypes DEF Holding, Good, cfg, OverLimit
  <1>7. ASSUME NEW g \in Gens, NEW c \in Conns, NEW r \in Requests,
            AcceptConnection(g, c, r)
        PROVE  GateInv'
    <2>1. Holding' = Holding /\ Good' \subseteq Good
      BY <1>7 DEF AcceptConnection, Holding, Good, cfg, OverLimit, TypeOK, stateVars
    <2>2. QED
      BY <1>7, <2>1, GateFrame DEF AcceptConnection, cfg, TypeOK, stateVars, sessVars
  <1>8. ASSUME NEW c \in Conns,
            ReadRequest(c) \/ ReadFails(c) \/ Dispatch(c) \/ Auth(c) \/ Route(c)
            \/ ConnRace(c) \/ Snapshot(c) \/ BuildDocument(c) \/ Respond(c)
        PROVE  GateInv'
    <2>1. UNCHANGED <<args, cfgGen, active_queries, carried, served, spc>> /\ cfg' = cfg
      BY <1>8 DEF ReadRequest, ReadFails, Dispatch, Auth, Route, ConnRace, Snapshot,
             BuildDocument, Respond, stateVars, sessVars, connVars, cfg
    <2>2. Holding' = Holding
      BY <1>8, GateTypes DEF ReadRequest, ReadFails, Dispatch, Auth, Route, ConnRace, Snapshot,
             BuildDocument, Respond, connVars, Goto, Answer, Holding
    <2>3. Good' \subseteq Good
      BY <1>8, <2>1, GateTypes DEF ReadRequest, ReadFails, Dispatch, Auth, Route, ConnRace, Snapshot,
             BuildDocument, Respond, connVars, Goto, Answer, Good, OverLimit
    <2>4. QED
      BY <2>1, <2>2, <2>3, GateFrame, GateTypes
  <1>9. ASSUME NEW c \in Conns,
            EnterGate(c)
        PROVE  GateInv'
    <2>1. Holding' = Holding \cup {c} /\ c \notin Holding
      BY <1>9, GateTypes DEF EnterGate, Goto, Holding
    <2>2. Cardinality(Holding') = Cardinality(Holding) + 1
      BY <2>1, GoodFinite, FS_AddElement
    <2>3. /\ UNCHANGED <<args, cfgGen, carried, served, spc>> /\ cfg' = cfg
          /\ active_queries' = active_queries + 1
          /\ ticket'[c] = active_queries
      BY <1>9 DEF EnterGate, sessVars, cfg, TypeOK
    <2>4. GoodBound'
      <3>. SUFFICES ASSUME cfg.max_concurrent_queries > 0, \A s \in Sessions : spc[s] # "configured"
                    PROVE  Cardinality(Good') <= cfg.max_concurrent_queries + carried
        BY <2>3 DEF GoodBound
      <3>1. CASE active_queries < cfg.max_concurrent_queries
        <4>1. Good' \subseteq Holding'
          BY DEF Good, Holding
        <4>2. Cardinality(Good') <= Cardinality(Holding) + 1 /\ Cardinality(Good') \in Nat
          BY <4>1, <2>1, <2>2, GoodFinite, FS_AddElement, FS_Subset, FS_CardinalityType
        <4>3. QED
          BY <3>1, <4>2, GoodFinite, GateTypes DEF GateInv, SlotAccounting
      <3>2. CASE active_queries >= cfg.max_concurrent_queries
        <4>1. Good' \subseteq Good
          BY <1>9, <2>3, <3>2, GateTypes DEF EnterGate, Goto, Good, OverLimit
        <4>2. Cardinality(Good') <= Cardinality(Good) /\ Cardinality(Good') \in Nat
          BY <4>1, GoodFinite, FS_Subset, FS_CardinalityType
        <4>3. QED
          BY <4>2, GoodFinite, GateTypes DEF GateInv, GoodBound
      <3>3. QED
        BY <3>1, <3>2, GateTypes
    <2>5. QED
      BY <2>2, <2>3, <2>4, GoodFinite DEF GateInv, SlotAccounting, TypeOK
  <1>10. ASSUME NEW c \in Conns,
            CompareGate(c)
        PROVE  GateInv'
    <2>1. UNCHANGED <<args, cfgGen, active_queries, carried, served, spc>> /\ cfg' = cfg
      BY <1>10 DEF CompareGate, stateVars, sessVars, cfg
    <2>2. Holding' = Holding
      BY <1>10, GateTypes DEF CompareGate, Goto, Answer, Holding
    <2>3. Good' \subseteq Good
      BY <1>10, <2>1, GateTypes DEF CompareGate, Goto, Answer, Good, OverLimit
    <2>4. QED
      BY <2>1, <2>2, <2>3, GateFrame, GateTypes
  <1>11. ASSUME NEW c \in Conns,
            RejectBusy(c)
        PROVE  GateInv'
    <2>1. Holding' = Holding \ {c} /\ c \in Holding
      BY <1>11, GateTypes DEF RejectBusy, Goto, Answer, Holding
    <2>2. Cardinality(Holding') = Cardinality(Holding) - 1
      BY <2>1, GoodFinite, FS_RemoveElement
    <2>3. Good' \subseteq Good
      BY <1>11, GateTypes DEF RejectBusy, Goto, Answer, Good, cfg, OverLimit
    <2>4. Cardinality(Good') <= Cardinality(Good) /\ Cardinality(Good') \in Nat
      BY <2>3, GoodFinite, FS_Subset, FS_CardinalityType
    <2>5. /\ UNCHANGED <<args, cfgGen, carried, served, spc>> /\ cfg' = cfg
          /\ active_queries' = active_queries - 1
      BY <1>11 DEF RejectBusy, sessVars, cfg
    <2>6. QED
      BY <2>2, <2>4, <2>5, GoodFinite, GateTypes DEF GateInv, SlotAccounting, GoodBound
  <1>12. ASSUME NEW c \in Conns,
            Execute(c)
        PROVE  GateInv'
    <2>1. Holding' = Holding \ {c} /\ c \in Holding
      BY <1>12, GateTypes DEF Execute, Goto, Answer, Holding
    <2>2. Cardinality(Holding') = Cardinality(Holding) - 1
      BY <2>1, GoodFinite, FS_RemoveElement
    <2>3. Good' \subseteq Good
      BY <1>12, GateTypes DEF Execute, Goto, Answer, Good, cfg, OverLimit
    <2>4. Cardinality(Good') <= Cardinality(Good) /\ Cardinality(Good') \in Nat
      BY <2>3, GoodFinite, FS_Subset, FS_CardinalityType
    <2>5. /\ UNCHANGED <<args, cfgGen, carried, served, spc>> /\ cfg' = cfg
          /\ active_queries' = active_queries - 1
      BY <1>12 DEF Execute, sessVars, cfg
    <2>6. QED
      BY <2>2, <2>4, <2>5, GoodFinite, GateTypes DEF GateInv, SlotAccounting, GoodBound
  <1>13. CASE UNCHANGED vars
    <2>1. UNCHANGED <<cpc, ticket, args, cfgGen, active_queries, carried, served, spc>>
      BY <1>13 DEF vars, stateVars, sessVars, connVars
    <2>2. QED
      BY <2>1, GateFrame, GateTypes DEF Holding, Good, cfg, OverLimit
  <1>14. QED
    BY <1>1, <1>2, <1>3, <1>4, <1>5, <1>6, <1>7, <1>8, <1>9, <1>10, <1>11, <1>12, <1>13
       DEF Next, SessionStep, SessionCall, AcceptStep, ConnStep

-----------------------------------------------------------------------------
(* The row that odata_serve is filling.                                    *)

RowInv ==
    /\ \A s \in Sessions : spc[s] \notin {"reporting", "returning"} => report[s] = << >>
    /\ ReportsOwnOrLaterServer

(***************************************************************************)
(* Initially no row has been begun.                                        *)
(***************************************************************************)
LEMMA RowInit == Init => RowInv
  BY DEF Init, RowInv, ReportsOwnOrLaterServer

(***************************************************************************)
(* A column is read from the fields of the last server configured, or of   *)
(* the one being configured, and neither is older than the server of the   *)
(* call; no other step disturbs a row.                                     *)
(***************************************************************************)
LEMMA RowStep == TypeOK /\ MutexInv /\ RowInv /\ [Next]_vars => RowInv'
  <1>. SUFFICES ASSUME TypeOK, MutexInv, RowInv, [Next]_vars PROVE RowInv'
    OBVIOUS
  <1>. DEFINE RowOf(s) == /\ spc[s] \notin {"reporting", "returning"} => report[s] = << >>
                          /\ \A i \in DOMAIN report[s] : report[s][i] \in mine[s] .. served
  <1>0. \A s \in Sessions : RowOf(s)
    BY DEF RowInv, ReportsOwnOrLaterServer
  <1>1. served' \in Nat /\ served' >= served
    <2>1. \A g \in Gens : AcceptStep(g) => served' = served
      BY AcceptFrame DEF stateVars
    <2>2. \A c \in Conns : ConnStep(c) \/ ConnRace(c) => served' = served
      BY ConnFrame
    <2>3. \A s \in Sessions : SessionStep(s) => served' = served
      BY DEF SessionStep, ServeThrow, ServeConfigure, ServeFinish, ServeReport, ServeReturn,
         StopJoin, stateVars
    <2>4. \A s \in Sessions : SessionCall(s) => served' = served \/ served' = served + 1
      BY DEF SessionCall, ServeRefuse, ServeStart, StopBegin, Expose, SessionRace, stateVars
    <2>5. served' = served \/ served' = served + 1
      BY <2>1, <2>2, <2>3, <2>4 DEF Next, vars, stateVars
    <2>6. QED
      BY <2>5, MaxServesAssumption DEF TypeOK
  <1>2. ASSUME NEW s \in Sessions,
               UNCHANGED <<report, mine>>, spc'[s] = spc[s] \/ spc[s] \notin {"reporting", "returning"}
        PROVE  RowOf(s)'
    <2>1. spc'[s] \notin {"reporting", "returning"} => report'[s] = << >>
      BY <1>0, <1>2
    <2>2. \A i \in DOMAIN report'[s] : report'[s][i] \in mine'[s] .. served'
      BY <1>0, <1>1, <1>2, MaxServesAssumption DEF TypeOK
    <2>3. QED
      BY <2>1, <2>2
  <1>3. ASSUME NEW t \in Sessions, NEW s \in Sessions,
               StopBegin(t) \/ \E k \in Configs : ServeStart(t, k)
        PROVE  RowOf(s)'
    <2>1. CASE s = t
      <3>1. report'[s] = << >>
        BY <1>0, <1>3, <2>1 DEF ServeStart, StopBegin
      <3>2. QED
        BY <3>1
    <2>2. CASE s # t
      <3>1. /\ report'[s] = report[s] /\ mine'[s] = mine[s] /\ spc'[s] = spc[s]
        BY <1>3, <2>2 DEF ServeStart, StopBegin, TypeOK
      <3>2. QED
        BY <1>0, <1>1, <3>1, MaxServesAssumption DEF TypeOK
    <2>3. QED
      BY <2>1, <2>2
  <1>4. ASSUME NEW t \in Sessions, ServeReport(t), NEW s \in Sessions PROVE RowOf(s)'
    <2>1. CASE s = t
      <3>1. PICK g \in {cfgGen, served} : report' = [report EXCEPT ![t] = Append(report[t], g)]
        BY <1>4 DEF ServeReport
      <3>2. report'[s] = Append(report[s], g) /\ mine' = mine /\ served' = served
        BY <1>4, <2>1, <3>1 DEF ServeReport, TypeOK, stateVars
      <3>3. mine[s] <= cfgGen /\ cfgGen <= served
        BY <1>4, <2>1, MaxServesAssumption DEF ServeReport, MutexInv, TypeOK
      <3>4. g \in mine[s] .. served
        BY <3>3, MaxServesAssumption DEF TypeOK
      <3>5. report[s] \in Seq(0 .. MaxServes) /\ g \in 0 .. MaxServes
        BY <3>1 DEF TypeOK
      <3>6. \A i \in DOMAIN report'[s] : report'[s][i] \in mine'[s] .. served'
        BY <1>0, <3>2, <3>4, <3>5
      <3>7. spc'[s] \in {"reporting", "returning"}
        BY <1>4, <2>1 DEF ServeReport, TypeOK
      <3>8. QED
        BY <3>6, <3>7
    <2>2. CASE s # t
      <3>1. report'[s] = report[s] /\ mine' = mine /\ served' = served /\ spc'[s] = spc[s]
        BY <1>4, <2>2 DEF ServeReport, TypeOK, stateVars
      <3>2. QED
        BY <1>0, <3>1
    <2>3. QED
      BY <2>1, <2>2
  <1>5. ASSUME NEW t \in Sessions, ServeReturn(t), NEW s \in Sessions PROVE RowOf(s)'
    <2>1. mine' = mine /\ served' = served /\ (s # t => report'[s] = report[s] /\ spc'[s] = spc[s])
      BY <1>5 DEF ServeReturn, TypeOK, stateVars
    <2>2. s = t => report'[s] = << >>
      BY <1>5 DEF ServeReturn, TypeOK
    <2>3. QED
      BY <1>0, <2>1, <2>2
  <1>6. ASSUME NEW t \in Sessions, NEW s \in Sessions,
               \/ ServeRefuse(t) \/ ServeThrow(t) \/ ServeConfigure(t) \/ ServeFinish(t)
               \/ SessionRace(t) \/ StopJoin(t) \/ \E e \in Entities : Expose(t, e)
        PROVE  RowOf(s)'
    <2>1. /\ UNCHANGED <<report, mine>>
          /\ spc'[s] = spc[s] \/ spc[s] \notin {"reporting", "returning"}
      BY <1>6 DEF ServeRefuse, ServeThrow, ServeConfigure, ServeFinish, SessionRace, StopJoin,
         Expose, TypeOK, sessVars
    <2>2. QED
      BY <1>2, <2>1
  <1>7. ASSUME NEW s \in Sessions, UNCHANGED sessVars PROVE RowOf(s)'
    BY <1>2, <1>7 DEF sessVars
  <1>8. ASSUME NEW s \in Sessions PROVE RowOf(s)'
    <2>1. CASE UNCHANGED sessVars
      BY <1>7, <2>1
    <2>2. ASSUME NEW t \in Sessions, SessionStep(t) PROVE RowOf(s)'
      BY <2>2, <1>4, <1>5, <1>6 DEF SessionStep
    <2>3. ASSUME NEW t \in Sessions, SessionCall(t) PROVE RowOf(s)'
      BY <2>3, <1>3, <1>6 DEF SessionCall
    <2>4. (\E g \in Gens : AcceptStep(g)) \/ (\E c \in Conns : ConnStep(c) \/ ConnRace(c))
             \/ UNCHANGED vars => UNCHANGED sessVars
      BY AcceptFrame, ConnFrame DEF vars
    <2>5. QED
      BY <2>1, <2>2, <2>3, <2>4 DEF Next
  <1>9. QED
    BY <1>8 DEF RowInv, ReportsOwnOrLaterServer

-----------------------------------------------------------------------------
(* The inductive invariant and the theorems.                               *)

IInv == TypeOK /\ MutexInv /\ AdmitInv /\ QuietInv /\ GateInv /\ RowInv

(***************************************************************************)
(* The conjunction of the parts above is an invariant of the server under  *)
(* every interleaving of sessions, accept threads and connections.         *)
(***************************************************************************)
THEOREM Invariance == Spec => []IInv
  <1>1. Init => IInv
    BY TypeInit, MutexInit, AdmitInit, QuietInit, GateInit, RowInit DEF IInv
  <1>2. IInv /\ [Next]_vars => IInv'
    BY TypeStep, MutexStep, AdmitStep, QuietStep, GateStep, RowStep DEF IInv
  <1>3. QED
    BY <1>1, <1>2, PTL DEF Spec

(***************************************************************************)
(* Type correctness of the shared state and of all threads.                *)
(***************************************************************************)
THEOREM TypeCorrect == Spec => []TypeOK
  <1>1. IInv => TypeOK
    BY DEF IInv
  <1>2. QED
    BY <1>1, Invariance, PTL

(***************************************************************************)
(* HandleODataRequest admits and answers only requests that their own      *)
(* server's configuration, or a later one, accepts.                        *)
(***************************************************************************)
THEOREM Admission == Spec => []AdmittedByOwnOrLaterConfig
  <1>1. IInv => AdmittedByOwnOrLaterConfig
    BY DEF IInv, AdmitInv
  <1>2. QED
    BY <1>1, Invariance, PTL

(***************************************************************************)
(* After odata_stop no listener or accept thread of the stopped server is  *)
(* left, and only the current server accepts.                              *)
(***************************************************************************)
THEOREM StoppedServersAreQuiet == Spec => []StoppedServerIsQuiet
  <1>1. IInv => StoppedServerIsQuiet
    BY QuietImplies DEF IInv
  <1>2. QED
    BY <1>1, Invariance, PTL

(***************************************************************************)
(* active_queries counts the held slots up to those held at the last       *)
(* reset: no path through the handler leaks or double-releases one.        *)
(***************************************************************************)
THEOREM SlotsAccounted == Spec => []SlotAccounting
  <1>1. IInv => SlotAccounting
    BY DEF IInv, GateInv
  <1>2. QED
    BY <1>1, Invariance, PTL

(***************************************************************************)
(* The number of admitted queries exceeds odata_max_concurrent_queries by  *)
(* at most the slots held at the last reset, for any number of connections *)
(* and restarts.                                                           *)
(***************************************************************************)
THEOREM LimitBound == Spec => []LimitUpToCarried
  <1>1. IInv => LimitUpToCarried
    <2>. SUFFICES ASSUME IInv, cfg.max_concurrent_queries > 0,
                         \A s \in Sessions : spc[s] # "configured"
                  PROVE  Cardinality(Admitted) <= cfg.max_concurrent_queries + carried
      BY DEF LimitUpToCarried
    <2>1. Cardinality(Admitted) <= Cardinality(Good)
      BY GoodInHolding, GoodFinite, FS_Subset
    <2>2. QED
      BY <2>1, GoodFinite, GateTypes DEF IInv, GateInv, GoodBound
  <1>2. QED
    BY <1>1, Invariance, PTL

(***************************************************************************)
(* Until the first restart, odata_max_concurrent_queries is never          *)
(* exceeded.                                                               *)
(***************************************************************************)
THEOREM FirstServerLimit == Spec => []FirstServerKeepsLimit
  <1>1. IInv => FirstServerKeepsLimit
    <2>. SUFFICES ASSUME IInv, served <= 1, cfg.max_concurrent_queries > 0
                  PROVE  Cardinality(Admitted) <= cfg.max_concurrent_queries
      BY DEF FirstServerKeepsLimit
    <2>1. CASE \A s \in Sessions : spc[s] # "configured"
      <3>1. Cardinality(Admitted) <= Cardinality(Good)
        BY GoodInHolding, GoodFinite, FS_Subset
      <3>2. QED
        BY <2>1, <3>1, GoodFinite, GateTypes DEF IInv, GateInv, GoodBound
    <2>2. CASE \E s \in Sessions : spc[s] = "configured"
      <3>1. \A c \in Conns : authGen[c] <= served - 1
        BY <2>2 DEF IInv, AdmitInv
      <3>2. \A c \in Admitted : c \in Conns /\ csrv[c] \in 1 .. authGen[c]
        BY DEF IInv, AdmitInv, AdmittedByOwnOrLaterConfig, Admitted, PastAuth
      <3>3. Admitted = {}
        BY <3>1, <3>2, MaxServesAssumption DEF IInv, TypeOK
      <3>4. QED
        BY <3>3, FS_EmptySet, CfgType DEF IInv
    <2>3. QED
      BY <2>1, <2>2
  <1>2. QED
    BY <1>1, Invariance, PTL

(***************************************************************************)
(* Every column of the row that odata_serve returns is about its own       *)
(* server or a later one, although the columns are read one by one after   *)
(* mu was released.                                                        *)
(***************************************************************************)
THEOREM ServeRow == Spec => []ReportsOwnOrLaterServer
  <1>1. IInv => ReportsOwnOrLaterServer
    BY DEF IInv, RowInv
  <1>2. QED
    BY <1>1, Invariance, PTL
=============================================================================
