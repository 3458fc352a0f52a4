CONSTANTS
    W <- MC_W
    MaxLines <- MC_MaxLines
    Tokens <- TokensTopThenZero
    UseNetwork = TRUE
SPECIFICATION Spec
INVARIANT FlaggedIsCanonical
CHECK_DEADLOCK FALSE
