SPECIFICATION FairSpec
CONSTANTS
    c1 = c1
    c2 = c2
    c3 = c3
    s1 = s1
    s2 = s2
    tokA = tokA
    tokB = tokB
    e1 = e1
    Sessions = {s1, s2}
    Conns = {c1}
    Entities = {e1}
    Tokens = {tokA, tokB}
    EmptyToken = EmptyToken
    NoOne = NoOne
    Configs <- MCConfigs
    Requests <- MCRequests
    MaxServes = 2
CHECK_DEADLOCK FALSE
INVARIANT TypeOK
INVARIANT AdmittedByOwnOrLaterConfig
INVARIANT StoppedServerIsQuiet
INVARIANT ReportsOwnOrLaterServer
PROPERTY StopReturns
PROPERTY EveryRequestAnswered
