CONSTANTS
    Bits <- MC_Bits
    TokLen <- MC_TokLen
    MaxLine <- MC_MaxLine
    Files <- MC_Files
SPECIFICATION Spec
INVARIANT PrefixFormsAgree
INVARIANT BadPrefixRejected
INVARIANT ParseMatchesGrammar
INVARIANT AddressTokensWhole
\* str2netaddr returns once per token, and the load ends at the end of
\* the file.
CHECK_DEADLOCK FALSE
