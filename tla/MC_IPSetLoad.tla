---------------------------- MODULE MC_IPSetLoad ----------------------------
(* Model-checking instance of IPSetLoad: 3-bit addresses (8 addresses, so  *)
(* every prefix length 0..3, adjacency, nesting and the top address occur) *)
(* and up to three address lines.                                          *)
EXTENDS IPSetLoad

MC_W == 3
MC_MaxLines == 3

\* Every token "ip/prefix".
AllTokens == Addr \X (0..W)

\* The tokens whose range does not start at address 0 (0.0.0.0).  Lines of
\* this kind never meet the two wrap-arounds at 0 that the runs
\* load_wrap_top and load_full_space exhibit.
TokensNotAtZero == {t \in AllTokens : Tok(t).addr # 0}

\* Two lines, "MaxAddr" then "0": the top address, then address 0.
TokensTopThenZero == {<<MaxAddr, W>>, <<0, W>>}
=============================================================================
