SPECIFICATION FairSpec
CONSTANT MaxCalls = 3
CHECK_DEADLOCK FALSE
INVARIANT TypeOK
INVARIANT InterruptIsForOwnCall
INVARIANT OnlyLateQueriesInterrupted
PROPERTY ExecuteReturns
PROPERTY RunningQueryMeetsDeadline
