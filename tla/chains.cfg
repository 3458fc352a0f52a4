CONSTANTS
    W <- MC_W
    Files <- MC_Files
    MaxFiles <- MC_MaxFiles
    Modes <- AllModes
SPECIFICATION Spec
INVARIANT TypeOK
INVARIANT ChainResult
INVARIANT RowsExact
CHECK_DEADLOCK FALSE
