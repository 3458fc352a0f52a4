-------------------------- MODULE MC_SetOperations --------------------------
EXTENDS SetOperations

MC_W        == 3
MC_MaxLines == 2

AllModes    == {"combine", "common", "diff", "exclude"}
NoDiffModes == {"combine", "common", "exclude"}
DiffOnly    == {"diff"}

AllTokens       == Addr \X (0..W)
TokensNotAtZero == {t \in AllTokens : str2netaddr(t[1], t[2], TRUE).addr # 0}

\* The whole address space and one address.
TokensFullSpace == {<<0, 0>>, <<1, W>>}

=============================================================================
