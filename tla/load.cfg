CONSTANTS
    W <- MC_W
    MaxLines <- MC_MaxLines
    Tokens <- TokensNotAtZero
    UseNetwork = TRUE
SPECIFICATION Spec
INVARIANT TypeOK
INVARIANT FlaggedIsCanonical
INVARIANT AddressesKept
INVARIANT CountersExact
CHECK_DEADLOCK FALSE
