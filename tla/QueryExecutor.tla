----------------------------- MODULE QueryExecutor -----------------------------
(***************************************************************************)
(* LocalDuckDBExecutor::Execute with a timeout: the handler thread runs a  *)
(* query on its connection while a watchdog thread waits on a condition    *)
(* variable and interrupts the connection at the deadline.  One handler    *)
(* makes several calls on the same connection, one after the other (the    *)
(* count, the rows, the count again for the next link), so an interrupt of *)
(* one call must not reach the query of the next.                          *)
(***************************************************************************)
EXTENDS Naturals

CONSTANT MaxCalls    \* calls of Execute that one handler makes on a connection

ASSUME MaxCallsAssumption == MaxCalls \in Nat \ {0}

Calls == 1 .. MaxCalls

VARIABLES
    call,         \* the current call, 0 before the first
    pc,           \* where the handler thread is
    wpc,          \* wpc[k]: where the watchdog of call k is
    mutex,        \* mutex[k]: who holds the local mutex of call k
    done,         \* done[k]: the flag the condition variable waits for
    expired,      \* expired[k]: timeout_ms have passed since the watchdog waits
    outcome,      \* outcome[k]: how the query of call k ended
    interrupted,  \* the interrupt flag of the DuckDB connection
    terminated    \* std::terminate was called

vars == <<call, pc, wpc, mutex, done, expired, outcome, interrupted, terminated>>

HandlerSteps  == {"idle", "entered", "running", "finished", "unlock", "notify", "join", "unwound"}
WatchdogSteps == {"none", "lock", "test", "waiting", "relock", "retest", "interrupting", "exited"}
Outcomes      == {"none", "result", "interrupted", "thrown"}

TypeOK ==
    /\ call \in 0 .. MaxCalls
    /\ pc \in HandlerSteps
    /\ wpc \in [Calls -> WatchdogSteps]
    /\ mutex \in [Calls -> {"free", "handler", "watchdog"}]
    /\ done \in [Calls -> BOOLEAN]
    /\ expired \in [Calls -> BOOLEAN]
    /\ outcome \in [Calls -> Outcomes]
    /\ interrupted \in BOOLEAN
    /\ terminated \in BOOLEAN
    /\ pc # "idle" => call \in Calls
    /\ pc = "finished" => outcome[call] # "none"
    /\ \A k \in Calls : done[k] => outcome[k] # "none"

Init ==
    /\ call = 0
    /\ pc = "idle"
    /\ wpc = [k \in Calls |-> "none"]
    /\ mutex = [k \in Calls |-> "free"]
    /\ done = [k \in Calls |-> FALSE]
    /\ expired = [k \in Calls |-> FALSE]
    /\ outcome = [k \in Calls |-> "none"]
    /\ interrupted = FALSE
    /\ terminated = FALSE

-----------------------------------------------------------------------------
(* The handler thread.                                                     *)

\* timeout_ms <= 0: no watchdog.
CallDirect ==
    /\ pc = "idle"
    /\ call < MaxCalls
    /\ call' = call + 1
    /\ pc' = "entered"
    /\ UNCHANGED <<wpc, mutex, done, expired, outcome, interrupted, terminated>>

\* Mutant of CallTimed: done is initialised to true.
CallInitiallyDone ==
    /\ pc = "idle"
    /\ call < MaxCalls
    /\ call' = call + 1
    /\ pc' = "entered"
    /\ wpc' = [wpc EXCEPT ![call + 1] = "lock"]
    /\ done' = [done EXCEPT ![call + 1] = TRUE]
    /\ UNCHANGED <<mutex, expired, outcome, interrupted, terminated>>

\* timeout_ms > 0: the watchdog thread is created before the query starts.
CallTimed ==
    /\ pc = "idle"
    /\ call < MaxCalls
    /\ call' = call + 1
    /\ pc' = "entered"
    /\ wpc' = [wpc EXCEPT ![call + 1] = "lock"]
    /\ UNCHANGED <<mutex, done, expired, outcome, interrupted, terminated>>

\* con.Query starts; DuckDB starts every query with its interrupt flag clear.
QueryBegins ==
    /\ pc = "entered"
    /\ pc' = "running"
    /\ interrupted' = FALSE
    /\ UNCHANGED <<call, wpc, mutex, done, expired, outcome, terminated>>

\* con.Query comes back with a result (or an error result) of its own.
QueryEnds ==
    /\ pc = "running"
    /\ outcome' = [outcome EXCEPT ![call] = "result"]
    /\ pc' = IF wpc[call] = "none" THEN "idle" ELSE "finished"
    /\ UNCHANGED <<call, wpc, mutex, done, expired, interrupted, terminated>>

\* con.Query notices the interrupt and comes back with an error result.
QueryInterrupted ==
    /\ pc = "running"
    /\ interrupted
    /\ outcome' = [outcome EXCEPT ![call] = "interrupted"]
    /\ pc' = IF wpc[call] = "none" THEN "idle" ELSE "finished"
    /\ UNCHANGED <<call, wpc, mutex, done, expired, interrupted, terminated>>

\* con.Query throws.  Without a watchdog the exception reaches the handler's
\* caller; with one, unwinding destroys a joinable std::thread.
QueryThrows ==
    /\ pc \in {"entered", "running"}
    /\ outcome' = [outcome EXCEPT ![call] = "thrown"]
    /\ IF wpc[call] = "none"
       THEN pc' = "unwound" /\ UNCHANGED terminated
       ELSE terminated' = TRUE /\ UNCHANGED pc
    /\ UNCHANGED <<call, wpc, mutex, done, expired, interrupted>>

\* done is set under the mutex ...
SetDone ==
    /\ pc = "finished"
    /\ mutex[call] = "free"
    /\ mutex' = [mutex EXCEPT ![call] = "handler"]
    /\ done' = [done EXCEPT ![call] = TRUE]
    /\ pc' = "unlock"
    /\ UNCHANGED <<call, wpc, expired, outcome, interrupted, terminated>>

\* Mutant of UnlockDone: the lock is kept until the join.
UnlockForgotten ==
    /\ pc = "unlock"
    /\ pc' = "notify"
    /\ UNCHANGED <<call, wpc, mutex, done, expired, outcome, interrupted, terminated>>

\* ... the mutex is released, the condition variable notified ...
UnlockDone ==
    /\ pc = "unlock"
    /\ mutex' = [mutex EXCEPT ![call] = "free"]
    /\ pc' = "notify"
    /\ UNCHANGED <<call, wpc, done, expired, outcome, interrupted, terminated>>

NotifyOne ==
    /\ pc = "notify"
    /\ wpc' = [wpc EXCEPT ![call] = IF @ = "waiting" THEN "relock" ELSE @]
    /\ pc' = "join"
    /\ UNCHANGED <<call, mutex, done, expired, outcome, interrupted, terminated>>

\* ... and the watchdog joined before Execute returns.
JoinWatchdog ==
    /\ pc = "join"
    /\ wpc[call] = "exited"
    /\ pc' = "idle"
    /\ UNCHANGED <<call, wpc, mutex, done, expired, outcome, interrupted, terminated>>

-----------------------------------------------------------------------------
(* The watchdog of call k: wait_for(lock, timeout_ms, done).               *)

\* unique_lock, or the lock taken again when a wait ends.
DogLocks(k) ==
    /\ wpc[k] \in {"lock", "relock"}
    /\ mutex[k] = "free"
    /\ mutex' = [mutex EXCEPT ![k] = "watchdog"]
    /\ wpc' = [wpc EXCEPT ![k] = IF @ = "lock" THEN "test" ELSE "retest"]
    /\ UNCHANGED <<call, pc, done, expired, outcome, interrupted, terminated>>

\* Mutants of DogTests: the mutex is released before the interrupt; the end of
\* a wait is taken for the deadline; the deadline is taken for completion.
DogTestsUnlocked(k) ==
    /\ wpc[k] \in {"test", "retest"}
    /\ wpc' = [wpc EXCEPT ![k] = IF done[k] THEN "exited"
                                 ELSE IF @ = "retest" /\ expired[k] THEN "interrupting"
                                 ELSE "waiting"]
    /\ mutex' = [mutex EXCEPT ![k] = "free"]
    /\ UNCHANGED <<call, pc, done, expired, outcome, interrupted, terminated>>

DogTakesAnyWakeUp(k) ==
    /\ wpc[k] \in {"test", "retest"}
    /\ wpc' = [wpc EXCEPT ![k] = IF done[k] THEN "exited"
                                 ELSE IF @ = "retest" THEN "interrupting" ELSE "waiting"]
    /\ mutex' = [mutex EXCEPT ![k] = IF ~done[k] /\ wpc[k] = "retest" THEN @ ELSE "free"]
    /\ UNCHANGED <<call, pc, done, expired, outcome, interrupted, terminated>>

DogGivesUp(k) ==
    /\ wpc[k] \in {"test", "retest"}
    /\ wpc' = [wpc EXCEPT ![k] = IF done[k] \/ expired[k] THEN "exited" ELSE "waiting"]
    /\ mutex' = [mutex EXCEPT ![k] = "free"]
    /\ UNCHANGED <<call, pc, done, expired, outcome, interrupted, terminated>>

\* The predicate: leave when done, else interrupt at the deadline, else wait.
\* The first test does not look at the clock.
DogTests(k) ==
    /\ wpc[k] \in {"test", "retest"}
    /\ \/ /\ done[k]
          /\ wpc' = [wpc EXCEPT ![k] = "exited"]
          /\ mutex' = [mutex EXCEPT ![k] = "free"]
       \/ /\ ~done[k] /\ wpc[k] = "retest" /\ expired[k]
          /\ wpc' = [wpc EXCEPT ![k] = "interrupting"]
          /\ UNCHANGED mutex
       \/ /\ ~done[k] /\ (wpc[k] = "test" \/ ~expired[k])
          /\ wpc' = [wpc EXCEPT ![k] = "waiting"]
          /\ mutex' = [mutex EXCEPT ![k] = "free"]
    /\ UNCHANGED <<call, pc, done, expired, outcome, interrupted, terminated>>

\* The deadline passes.
Deadline(k) ==
    /\ wpc[k] \notin {"none", "lock", "exited"}
    /\ ~expired[k]
    /\ expired' = [expired EXCEPT ![k] = TRUE]
    /\ UNCHANGED <<call, pc, wpc, mutex, done, outcome, interrupted, terminated>>

\* A wait ends at the deadline.
DogTimesOut(k) ==
    /\ wpc[k] = "waiting"
    /\ expired[k]
    /\ wpc' = [wpc EXCEPT ![k] = "relock"]
    /\ UNCHANGED <<call, pc, mutex, done, expired, outcome, interrupted, terminated>>

\* A wait ends for no reason.
DogWakesSpuriously(k) ==
    /\ wpc[k] = "waiting"
    /\ wpc' = [wpc EXCEPT ![k] = "relock"]
    /\ UNCHANGED <<call, pc, mutex, done, expired, outcome, interrupted, terminated>>

\* con.Interrupt(), still holding the mutex.
DogInterrupts(k) ==
    /\ wpc[k] = "interrupting"
    /\ interrupted' = TRUE
    /\ wpc' = [wpc EXCEPT ![k] = "exited"]
    /\ mutex' = [mutex EXCEPT ![k] = "free"]
    /\ UNCHANGED <<call, pc, done, expired, outcome, terminated>>

-----------------------------------------------------------------------------

HandlerStep == QueryBegins \/ SetDone \/ UnlockDone \/ NotifyOne \/ JoinWatchdog

DogStep(k) == DogLocks(k) \/ DogTests(k) \/ DogTimesOut(k) \/ DogInterrupts(k)

Next ==
    /\ ~terminated
    /\ \/ CallDirect \/ CallTimed \/ HandlerStep
       \/ QueryEnds \/ QueryInterrupted \/ QueryThrows
       \/ \E k \in Calls : DogStep(k) \/ Deadline(k) \/ DogWakesSpuriously(k)

Spec == Init /\ [][Next]_vars

(***************************************************************************)
(* Threads run, time passes, and an interrupted query stops.  Nothing says *)
(* that a query ends by itself: that is what the timeout is for.           *)
(***************************************************************************)
Fairness ==
    /\ WF_vars(~terminated /\ HandlerStep)
    /\ WF_vars(~terminated /\ QueryInterrupted)
    /\ \A k \in Calls : /\ WF_vars(~terminated /\ DogStep(k))
                        /\ WF_vars(~terminated /\ Deadline(k))

FairSpec == Spec /\ Fairness

-----------------------------------------------------------------------------
(* Properties.                                                             *)

(***************************************************************************)
(* con.Interrupt() is only ever called for the call in progress, before    *)
(* its done flag is set and after its deadline: the watchdog is joined     *)
(* before Execute returns, and tests done under the mutex, so it never     *)
(* touches a connection that the handler has moved on with.                *)
(***************************************************************************)
InterruptIsForOwnCall ==
    \A k \in Calls : wpc[k] = "interrupting" =>
        k = call /\ ~done[k] /\ expired[k] /\ pc \in {"entered", "running", "finished"}

(***************************************************************************)
(* Only a query whose own deadline has passed is ever interrupted: no      *)
(* interrupt of an earlier call on the same connection reaches it.         *)
(***************************************************************************)
OnlyLateQueriesInterrupted ==
    \A k \in Calls : outcome[k] = "interrupted" => expired[k]

(***************************************************************************)
(* Once a query has come back, Execute returns: the handler and the        *)
(* watchdog never wait for each other, whenever the notification comes.    *)
(***************************************************************************)
ExecuteReturns == (pc = "finished") ~> (pc = "idle" \/ terminated)

(***************************************************************************)
(* A query that is running when the watchdog starts waiting does not run   *)
(* past its deadline for ever.                                             *)
(***************************************************************************)
RunningQueryMeetsDeadline ==
    \A k \in Calls :
        (k = call /\ pc = "running" /\ wpc[k] = "waiting" /\ ~expired[k])
            ~> (outcome[k] # "none")
=============================================================================
