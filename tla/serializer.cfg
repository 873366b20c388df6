\* Results of up to two rows, cut into chunks in every way.
CONSTANTS
    Characters <- MCCharacters
    Tables <- MCTables
    Values <- MCValues
    MaxRows = 2
    MaxChunk = 2
SPECIFICATION Spec
INVARIANTS
    TypeOK
    ChunksDoNotShow
    DocumentTellsRows
    ValuesAsAnnounced
CHECK_DEADLOCK FALSE
