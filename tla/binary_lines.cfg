CONSTANTS
    W <- MC_W
    InputSets <- ThreeLineSets
    EnabledChoices <- AllEnabled
    Modes <- CombineOnly
    ReduceParams <- MC_ReduceParams
    PrintFormats <- BinaryOnly
    SingleIPsMax <- MC_SingleIPsMax
SPECIFICATION Spec
INVARIANT RoundTripLines
\* Loading the snapshot back ends the round trip.
CHECK_DEADLOCK FALSE
