SPECIFICATION Spec
CONSTANTS
    Settings <- MCSettings
    Tops <- MCTops
    Skips <- MCSkips
    Rows <- MCRows
    InitialTable <- MCInitialTable
    MaxInserts = 2
    MaxDeletes = 1
    MaxPages = 8
CHECK_DEADLOCK FALSE
INVARIANT TypeOK
INVARIANT RepeatedOnlyByInserts
INVARIANT SkippedOnlyByChanges
PROPERTY TraversalEnds
