CONSTANTS
    W <- MC_W
    MaxLines <- MC_MaxLines
    Tokens <- TokensNotAtZero
    Modes <- DiffOnly
    UseNetwork = TRUE
SPECIFICATION Spec
INVARIANT DiffCanonical
CHECK_DEADLOCK FALSE
