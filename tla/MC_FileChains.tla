---------------------------- MODULE MC_FileChains ----------------------------
EXTENDS FileChains

MC_W == 3

\* What ipset_load returns for a file of the given entries, in order.
LoadedFrom(es) ==
    FoldLeft(LAMBDA s, e : ipset_add_ip_range(s, e.addr, e.broadcast),
             [ipset_create EXCEPT !.optimized = TRUE], es)

\* Four files: ascending lines (optimized), two overlapping lines out of
\* order (not optimized, unique_ips counts address 4 twice), an empty
\* file, and lines touching the others' ranges.
MC_Files ==
    {LoadedFrom(<<na(1, 2), na(5, 5)>>),
     LoadedFrom(<<na(4, 6), na(2, 4)>>),
     LoadedFrom(<<>>),
     LoadedFrom(<<na(2, 3), na(7, 7)>>)}

MC_MaxFiles == 3

AllModes == {"combine", "count_unique", "count_unique_all", "common", "compare",
             "compare_first", "exclude", "diff", "compare_next"}

=============================================================================
