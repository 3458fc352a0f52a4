CONSTANTS
    W <- MC_W
    MaxLines <- MC_MaxLines
    Tokens <- TokensNotAtZero
    Modes <- AllModes
    UseNetwork = TRUE
SPECIFICATION Spec
INVARIANT TypeOK
INVARIANT AlgebraCorrect
INVARIANT ResultOrdered
INVARIANT ResultCounters
INVARIANT ResultCanonical
CHECK_DEADLOCK FALSE
