SPECIFICATION FairSpec
CONSTANTS
    Requests <- MCRequests
    MaxHead = 3
    MaxBody = 12
    Chunk = 5
    Terminator = 2
    MaxDrain = 8
    MaxResponse = 2
CHECK_DEADLOCK FALSE
INVARIANT TypeOK
INVARIANT FramedBody
INVARIANT OversizeIs413
INVARIANT BufferBounded
INVARIANT RejectionNotMasked
PROPERTY ConnectionCloses
