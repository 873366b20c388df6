SPECIFICATION ReadSpec
CONSTANTS
    NoColumn = NoColumn
    Columns <- MCColumns
    Bindings <- MCBindings
    InitialBinding <- MCPolicy
    InitialColumns <- MCInitialColumns
    InitialKey = "h"
    Complex = {}
    Lookups <- MCLookups
    MaxAlters = 2
    MaxRequests = 2
    FilterSymbols <- MCFilterSymbols
    CoreSymbols <- MCCoreSymbols
    Characters <- MCCharacters
    KeyCharacters <- MCKeyCharacters
    Types <- MCTypes
    Rows <- MCRows
    Entity <- MCEntity
    max_filter_depth = 1
    ShortFilter = 3
    LongFilter = 7
    SentFilter = 3
    LongKey = 4
    SentKey = 2
CHECK_DEADLOCK FALSE
INVARIANT ReadTypeOK
INVARIANT ParserFollowsGrammar
INVARIANT GuardBoundsNesting
INVARIANT RowsMatchFilter
INVARIANT LocationFindsEntity
INVARIANT ServedWithinPolicy
INVARIANT AdvertisedIsUsable
