SPECIFICATION Spec
CONSTANTS
    NoColumn = NoColumn
    Columns <- MCColumns
    Bindings <- MCBindings
    InitialBinding <- MCPolicy
    InitialColumns <- MCInitialColumns
    InitialKey = NoColumn
    Complex = {}
    Lookups <- MCLookups
    MaxAlters = 1
    MaxRequests = 1
CHECK_DEADLOCK FALSE
INVARIANT OnlyPublicColumnsServed
