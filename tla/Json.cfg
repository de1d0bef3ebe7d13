SPECIFICATION Spec
CONSTANTS
    Width = 3
    Samples <- MCSamples
    Keys <- MCKeys
    Indices = {0, 1}
    Patches <- MCPatches
    MaxNodes = 4
INVARIANTS
    TypeOK
    DiffIsPatch
    MergeSettles
    OrderIsStrict
PROPERTIES
    FailureKeeps
CHECK_DEADLOCK FALSE
