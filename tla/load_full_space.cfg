CONSTANTS
    W <- MC_W
    MaxLines <- MC_MaxLines
    Tokens <- AllTokens
    UseNetwork = TRUE
SPECIFICATION Spec
INVARIANT CountersExact
CHECK_DEADLOCK FALSE
