SPECIFICATION Spec
CONSTANTS
    w1 = w1
    w2 = w2
    k1 = k1
    k2 = k2
    v1 = v1
    v2 = v2
    Writers = {w1, w2}
    Keys = {k1, k2}
    Vals = {v1, v2}
    NullKey = NullKey
    NoRow = NoRow
    MaxRows = 4
    Requests <- MCRequests
    InitialDbs <- MCDbs
    MaxRequests = 3
CHECK_DEADLOCK FALSE
INVARIANT TypeOK
PROPERTY ImplementsAtomicWrites
