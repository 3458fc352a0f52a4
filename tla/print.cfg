CONSTANTS
    W <- MC_W
    InputSets <- TwoRangeSets
    EnabledChoices <- CLIEnabled
    Modes <- BothModes
    ReduceParams <- MC_ReduceParams
    PrintFormats <- AllFormats
    SingleIPsMax <- MC_SingleIPsMax
SPECIFICATION Spec
INVARIANT TypeOK
INVARIANT PrintedPartition
INVARIANT PrintedMinimal
INVARIANT ReduceEstimate
INVARIANT PrintedExact
INVARIANT RoundTripSet
\* Printing, or loading the snapshot back, ends the program.
CHECK_DEADLOCK FALSE
