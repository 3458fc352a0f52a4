---------------------------- MODULE MC_InputParsing ----------------------------
EXTENDS InputParsing, Sequences, SequencesExt

\* Three octets: TLC's integers stop short of 2^32, and 24 bits keep the
\* leading octet of every non-zero netmask past every prefix length.
MC_Bits == 24

\* Tokens of up to 2 characters and a buffer of 4 (MAX_LINE 5): a line of
\* four characters and its newline is read in two pieces, a token of three
\* characters is past the token limit.
MC_TokLen  == 2
MC_MaxLine == 5

\* Every line of up to four characters, with or without its newline, and
\* two-line files after a long comment, an incomplete range and an empty
\* line.
Bodies   == BoundedSeq(Chars \ {"\n"}, 4)
OneLine  == Bodies \cup {b \o <<"\n">> : b \in Bodies}
TwoLines == {a \o b : a \in {<<"#", "0", "0", "0", "\n">>, <<"0", "-", "\n">>, <<"\n">>},
                      b \in {<<"0", "0">>, <<"a", "\n">>}}
MC_Files == OneLine \cup TwoLines

=============================================================================
