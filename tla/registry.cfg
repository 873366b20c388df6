SPECIFICATION Spec
CONSTANTS
    a1 = a1
    a2 = a2
    Sessions = {a1, a2}
    Universe <- MCUniverse
    NotBase <- MCNotBase
    CurrentCatalog <- MCCurrentCatalog
    CurrentSchema <- MCCurrentSchema
    Policies = {"id"}
    AllColumns = "all"
    Keys = {"k"}
    NoKey = "none"
    MaxCalls = 3
    MaxDdl = 1
SYMMETRY SessionSymmetry
CHECK_DEADLOCK FALSE
INVARIANT TypeOK
INVARIANT UnambiguousNamesServed
PROPERTY OnlyExposureChangesPolicy
