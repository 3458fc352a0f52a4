--------------------------- MODULE MC_DNSResolver ---------------------------
EXTENDS DNSResolver

CONSTANTS h1, h2, h3

MC_W == 2

\* Three hostname lines: one name with one address, one with two, one
\* that resolves to an address another also has.
MC_Hosts   == <<h1, h2, h3>>
MC_Answers == (h1 :> {1}) @@ (h2 :> {2, 3}) @@ (h3 :> {1})

MC_MaxThreads == 2
MC_Tries      == 1

=============================================================================
