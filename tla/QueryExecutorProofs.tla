------------------------ MODULE QueryExecutorProofs ------------------------
(***************************************************************************)
(* Proofs about QueryExecutor for any number of calls on one connection:   *)
(* the watchdog interrupts only the call that started it.                  *)
(***************************************************************************)
EXTENDS QueryExecutor, TLAPS

(***************************************************************************)
(* The initial state is type correct.                                      *)
(***************************************************************************)
LEMMA TypeInit == Init => TypeOK
  <1>. SUFFICES ASSUME Init PROVE TypeOK
    OBVIOUS
  <1>1. /\ done \in [Calls -> BOOLEAN] /\ expired \in [Calls -> BOOLEAN]
        /\ interrupted \in BOOLEAN /\ terminated \in BOOLEAN
    BY Zenon DEF Init
  <1>2. /\ wpc \in [Calls -> WatchdogSteps] /\ outcome \in [Calls -> Outcomes]
        /\ mutex \in [Calls -> {"free", "handler", "watchdog"}] /\ pc \in HandlerSteps
    BY DEF Init, WatchdogSteps, Outcomes, HandlerSteps
  <1>3. call \in 0 .. MaxCalls
    BY MaxCallsAssumption DEF Init
  <1>4. /\ pc # "idle" => call \in Calls
        /\ pc = "finished" => outcome[call] # "none"
        /\ \A k \in Calls : done[k] => outcome[k] # "none"
    BY DEF Init
  <1>5. QED
    BY <1>1, <1>2, <1>3, <1>4 DEF TypeOK

(***************************************************************************)
(* Every step of the handler and of the watchdogs keeps the types.         *)
(***************************************************************************)
LEMMA TypeStep == TypeOK /\ [Next]_vars => TypeOK'
  <1>. SUFFICES ASSUME TypeOK, [Next]_vars PROVE TypeOK'
    OBVIOUS
  <1>. USE MaxCallsAssumption DEF TypeOK, HandlerSteps, WatchdogSteps, Outcomes, Calls
  <1>1. CASE CallDirect
    BY <1>1 DEF CallDirect
  <1>2. CASE CallTimed
    BY <1>2 DEF CallTimed
  <1>3. CASE QueryBegins
    BY <1>3 DEF QueryBegins
  <1>4. CASE QueryEnds
    BY <1>4 DEF QueryEnds
  <1>5. CASE QueryInterrupted
    BY <1>5 DEF QueryInterrupted
  <1>6. CASE QueryThrows
    BY <1>6 DEF QueryThrows
  <1>7. CASE SetDone
    BY <1>7 DEF SetDone
  <1>8. CASE UnlockDone
    BY <1>8 DEF UnlockDone
  <1>9. CASE NotifyOne
    BY <1>9 DEF NotifyOne
  <1>10. CASE JoinWatchdog
    BY <1>10 DEF JoinWatchdog
  <1>11. ASSUME NEW k \in Calls, DogLocks(k) PROVE TypeOK'
    BY <1>11 DEF DogLocks
  <1>12. ASSUME NEW k \in Calls, DogTests(k) PROVE TypeOK'
    BY <1>12 DEF DogTests
  <1>13. ASSUME NEW k \in Calls, Deadline(k) PROVE TypeOK'
    BY <1>13 DEF Deadline
  <1>14. ASSUME NEW k \in Calls, DogTimesOut(k) PROVE TypeOK'
    BY <1>14 DEF DogTimesOut
  <1>15. ASSUME NEW k \in Calls, DogWakesSpuriously(k) PROVE TypeOK'
    BY <1>15 DEF DogWakesSpuriously
  <1>16. ASSUME NEW k \in Calls, DogInterrupts(k) PROVE TypeOK'
    BY <1>16 DEF DogInterrupts
  <1>17. CASE UNCHANGED vars
    BY <1>17 DEF vars
  <1>18. QED
    BY <1>1, <1>2, <1>3, <1>4, <1>5, <1>6, <1>7, <1>8, <1>9, <1>10, <1>11, <1>12, <1>13,
       <1>14, <1>15, <1>16, <1>17 DEF Next, HandlerStep, DogStep

-----------------------------------------------------------------------------

\* Calls not made yet are untouched, and a watchdog that is alive belongs to
\* the call in progress: Execute joins it before it returns.
JoinInv ==
    /\ \A k \in Calls : k > call => wpc[k] = "none" /\ ~done[k]
    /\ \A k \in Calls : wpc[k] \notin {"none", "exited"} =>
          k = call /\ pc \notin {"idle", "unwound"}

\* The mutex guards done: the watchdog holds it from its test to its
\* interrupt, the handler while it sets the flag.
DoneInv ==
    /\ \A k \in Calls : wpc[k] \in {"test", "retest", "interrupting"} => mutex[k] = "watchdog"
    /\ pc = "unlock" => mutex[call] = "handler"
    /\ pc \in {"entered", "running", "finished"} => call \in Calls /\ ~done[call]
    /\ pc \in {"unlock", "notify", "join"} => call \in Calls /\ done[call]
    /\ \A k \in Calls : wpc[k] = "interrupting" => ~done[k] /\ expired[k]

\* An interrupt that a running query can see is its own.
FlagInv ==
    /\ pc = "running" /\ interrupted => expired[call]
    /\ OnlyLateQueriesInterrupted

IInv == TypeOK /\ JoinInv /\ DoneInv /\ FlagInv

(***************************************************************************)
(* The invariant holds before the first call.                              *)
(***************************************************************************)
LEMMA InvInit == Init => IInv
  BY TypeInit DEF Init, IInv, JoinInv, DoneInv, FlagInv, OnlyLateQueriesInterrupted

(***************************************************************************)
(* Locking, the test of done and the join keep the invariant.              *)
(***************************************************************************)
LEMMA InvStep == IInv /\ [Next]_vars => IInv'
  <1>. SUFFICES ASSUME IInv, [Next]_vars PROVE JoinInv' /\ DoneInv' /\ FlagInv'
    BY TypeStep DEF IInv
  <1>. USE MaxCallsAssumption
       DEF IInv, TypeOK, Calls, JoinInv, DoneInv, FlagInv, OnlyLateQueriesInterrupted
  <1>1. CASE CallDirect
    BY <1>1 DEF CallDirect
  <1>2. CASE CallTimed
    BY <1>2 DEF CallTimed
  <1>3. CASE QueryBegins
    BY <1>3 DEF QueryBegins
  <1>4. CASE QueryEnds
    BY <1>4 DEF QueryEnds
  <1>5. CASE QueryInterrupted
    BY <1>5 DEF QueryInterrupted
  <1>6. CASE QueryThrows
    BY <1>6 DEF QueryThrows
  <1>7. CASE SetDone
    BY <1>7 DEF SetDone
  <1>8. CASE UnlockDone
    BY <1>8 DEF UnlockDone
  <1>9. CASE NotifyOne
    BY <1>9 DEF NotifyOne
  <1>10. CASE JoinWatchdog
    BY <1>10 DEF JoinWatchdog
  <1>11. ASSUME NEW k \in Calls, DogLocks(k) PROVE JoinInv' /\ DoneInv' /\ FlagInv'
    BY <1>11 DEF DogLocks
  <1>12. ASSUME NEW k \in Calls, DogTests(k) PROVE JoinInv' /\ DoneInv' /\ FlagInv'
    BY <1>12 DEF DogTests
  <1>13. ASSUME NEW k \in Calls, Deadline(k) PROVE JoinInv' /\ DoneInv' /\ FlagInv'
    BY <1>13 DEF Deadline
  <1>14. ASSUME NEW k \in Calls, DogTimesOut(k) PROVE JoinInv' /\ DoneInv' /\ FlagInv'
    BY <1>14 DEF DogTimesOut
  <1>15. ASSUME NEW k \in Calls, DogWakesSpuriously(k) PROVE JoinInv' /\ DoneInv' /\ FlagInv'
    BY <1>15 DEF DogWakesSpuriously
  <1>16. ASSUME NEW k \in Calls, DogInterrupts(k) PROVE JoinInv' /\ DoneInv' /\ FlagInv'
    BY <1>16 DEF DogInterrupts
  <1>17. CASE UNCHANGED vars
    BY <1>17 DEF vars
  <1>18. QED
    BY <1>1, <1>2, <1>3, <1>4, <1>5, <1>6, <1>7, <1>8, <1>9, <1>10, <1>11, <1>12, <1>13,
       <1>14, <1>15, <1>16, <1>17 DEF Next, HandlerStep, DogStep

(***************************************************************************)
(* The handler, the watchdog and DuckDB keep their variables in their      *)
(* types, for any number of calls on the connection and any timeouts.      *)
(***************************************************************************)
THEOREM ExecutorTypes == Spec => []TypeOK
  BY TypeInit, TypeStep, PTL DEF Spec

(***************************************************************************)
(* con.Interrupt() is only called for the call in progress, after its      *)
(* deadline and before its done flag is set.                               *)
(***************************************************************************)
THEOREM InterruptOwnCall == Spec => []InterruptIsForOwnCall
  <1>1. IInv => InterruptIsForOwnCall
    BY DEF IInv, TypeOK, HandlerSteps, JoinInv, DoneInv, InterruptIsForOwnCall
  <1>2. QED
    BY <1>1, InvInit, InvStep, PTL DEF Spec

(***************************************************************************)
(* A query that ends interrupted has passed its own deadline, however many *)
(* timed calls the connection made before.                                 *)
(***************************************************************************)
THEOREM LateQueriesOnly == Spec => []OnlyLateQueriesInterrupted
  <1>1. IInv => OnlyLateQueriesInterrupted
    BY DEF IInv, FlagInv
  <1>2. QED
    BY <1>1, InvInit, InvStep, PTL DEF Spec
============================================================================
