---------------------------- MODULE MC_PrintMode ----------------------------
EXTENDS PrintMode

\* 3-bit addresses: every initial state of --ipset-reduce runs the whole
\* reduction, which limits the width.
MC_W == 3

\* Root sets as loading leaves them: up to two lines, in any order, each an
\* "ip/prefix" or an "ip - ip" line, with no range starting at address 0
\* (see IPSetLoad for what those do).
LoadedFrom(es) ==
    FoldLeft(LAMBDA s, e : ipset_add_ip_range(s, e.addr, e.broadcast),
             [ipset_create EXCEPT !.optimized = TRUE], es)

CIDRLines  == {str2netaddr(t[1], t[2], TRUE) : t \in Addr \X Prefix}
RangeLines == {na(str2netaddr(lo, W, TRUE).addr, str2netaddr(hi, W, TRUE).broadcast) :
                  lo, hi \in Addr}
LineEntries  == {e \in CIDRLines \cup RangeLines : 1 <= e.addr /\ e.addr <= e.broadcast}
TwoRangeSets   == {LoadedFrom(es) : es \in BoundedSeq(LineEntries, 2)}
ThreeLineSets  == {LoadedFrom(es) : es \in BoundedSeq(LineEntries, 3)}

\* prefix_enabled[] after no option, after --min-prefix k, after
\* --prefixes (any list; the last prefix stays enabled).
CLIEnabled ==
    {Prefix} \cup {k..W : k \in 1..W} \cup {S \cup {W} : S \in SUBSET (1..(W-1))}

BothModes == {"combine", "reduce"}

\* --ipset-reduce 20 (the default), 100, 200 with --ipset-reduce-entries 0,
\* and 50 with 4.
MC_ReduceParams == {<<120, 0>>, <<200, 0>>, <<300, 0>>, <<150, 4>>}

\* Every print format; only the binary snapshot.
AllFormats == {"cidr", "single", "range", "binary"}
BinaryOnly == {"binary"}
CombineOnly == {"combine"}
AllEnabled == {Prefix}

\* 256*256*256 is 2^(32-8): a range of more than a 2^-8 share of the space
\* is not listed.  At 3 bits that share is a single address; 2 keeps a
\* three-address range (end - start = 2) on the boundary and drops a
\* range of four.
MC_SingleIPsMax == 2

=============================================================================
