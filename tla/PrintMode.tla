------------------------------- MODULE PrintMode -------------------------------
(***************************************************************************)
(* The end of --combine (the default mode) and of --ipset-reduce in        *)
(* main(): the merged root ipset, not optimized, is (for --ipset-reduce)   *)
(* passed to ipset_reduce, which narrows prefix_enabled[], and then        *)
(* printed by ipset_print, which optimizes it first and then writes it in  *)
(* the format of the command line: CIDR blocks (the default), single IPs,  *)
(* ranges, or the binary snapshot of BinaryCodec.  A binary snapshot may   *)
(* be cut short or moved to a host of the other byte order, and is then    *)
(* read back by ipset_load.                                                *)
(***************************************************************************)
EXTENDS IPSetPrint, BinaryCodec

CONSTANTS
    InputSets,       \* the root ipsets main() can hold after the merge
    EnabledChoices,  \* prefix_enabled[] as the command line leaves it
    Modes,           \* subset of {"combine", "reduce"}
    ReduceParams,    \* <<ipset_reduce_factor, ipset_reduce_min_accepted>>
    PrintFormats,    \* subset of {"cidr", "single", "range", "binary"}
    SingleIPsMax     \* the largest end - start printed as single IPs

ASSUME Modes \subseteq {"combine", "reduce"}
ASSUME PrintFormats \subseteq {"cidr", "single", "range", "binary"}

VARIABLES
    ips,             \* the root ipset
    prefix_enabled,  \* the global prefix_enabled[] as a set of prefixes
    mode,            \* the mode chosen on the command line
    params,          \* the reduce parameters chosen on the command line
    print,           \* the print format chosen on the command line
    reduction,       \* history: what ipset_reduce computed, or <<>>
    printed,         \* what was printed on stdout, in order
    file,            \* the binary snapshot as it is read back
    dst,             \* what ipset_load made of it: [ok, ips]
    phase            \* "merged", "reduced", "printed", "saved", "loaded"

vars == <<ips, prefix_enabled, mode, params, print, reduction, printed,
          file, dst, phase>>

Init ==
    /\ ips \in InputSets
    /\ prefix_enabled \in EnabledChoices
    /\ mode \in Modes
    /\ params \in ReduceParams
    /\ print \in PrintFormats
    /\ reduction = <<>>
    /\ printed = <<>>
    /\ file = EmptyFile
    /\ dst = [ok |-> FALSE, ips |-> ipset_create]
    /\ phase = "merged"

\* if(mode == MODE_REDUCE) ipset_reduce(root, factor, min_accepted);
\* it optimizes root in place and rewrites prefix_enabled[].
Reduce ==
    /\ phase = "merged" /\ mode = "reduce"
    /\ LET r == ipset_reduce(ips, params[1], params[2], prefix_enabled)
       IN  /\ ips' = r.ips
           /\ prefix_enabled' = r.enabled
           /\ reduction' = r
    /\ phase' = "reduced"
    /\ UNCHANGED <<mode, params, print, printed, file, dst>>

\* What the switch of ipset_print writes for a text format.
Printout(s) ==
    CASE print = "cidr"   -> PrintCIDR(s, prefix_enabled)
      [] print = "single" -> PrintSingleIPs(s, SingleIPsMax)
      [] print = "range"  -> PrintRanges(s)

\* ipset_print reached from --combine, or after ipset_reduce.
ReadyToPrint ==
    \/ phase = "merged" /\ mode = "combine"
    \/ phase = "reduced"

\* Mutant: the set is printed without optimizing it first.
PrintSet_unoptimized ==
    /\ ReadyToPrint
    /\ ips' = ips
    /\ IF print = "binary"
       THEN file' = ipset_save_binary_v10(ips') /\ phase' = "saved" /\ UNCHANGED printed
       ELSE printed' = Printout(ips') /\ phase' = "printed" /\ UNCHANGED file
    /\ UNCHANGED <<prefix_enabled, mode, params, print, reduction, dst>>

\* ipset_print(root, print): optimize if the flag is clear; PRINT_BINARY
\* saves the snapshot and returns, the other formats are printed.
PrintSet ==
    /\ ReadyToPrint
    /\ ips' = ipset_optimize(ips)
    /\ IF print = "binary"
       THEN file' = ipset_save_binary_v10(ips') /\ phase' = "saved" /\ UNCHANGED printed
       ELSE printed' = Printout(ips') /\ phase' = "printed" /\ UNCHANGED file
    /\ UNCHANGED <<prefix_enabled, mode, params, print, reduction, dst>>

\* The snapshot ends after k of its records: the writer stopped part way.
Truncate ==
    /\ phase = "saved" /\ file.text = "binary"
    /\ \E k \in 0..(Len(file.data) - 1) : file' = [file EXCEPT !.data = SubSeq(@, 1, k)]
    /\ UNCHANGED <<ips, prefix_enabled, mode, params, print, reduction, printed, dst, phase>>

\* The snapshot is read on a host of the other byte order.
OtherHost ==
    /\ phase = "saved" /\ file.text = "binary"
    /\ file' = [file EXCEPT !.endian = "swapped"]
    /\ UNCHANGED <<ips, prefix_enabled, mode, params, print, reduction, printed, dst, phase>>

\* A later iprange run loads the snapshot with ipset_load.
LoadSet ==
    /\ phase = "saved"
    /\ dst' = LoadFile(file)
    /\ phase' = "loaded"
    /\ UNCHANGED <<ips, prefix_enabled, mode, params, print, reduction, printed, file>>

Next == Reduce \/ PrintSet \/ Truncate \/ OtherHost \/ LoadSet

Spec == Init /\ [][Next]_vars

-----------------------------------------------------------------------------

TypeOK ==
    /\ ips.netaddrs \in Seq(NetAddr)
    /\ prefix_enabled \subseteq Prefix
    /\ mode \in Modes
    /\ print \in PrintFormats
    /\ printed \in CASE print = "single" -> Seq(Addr)
                    [] print = "range"  -> Seq(NetAddr)
                    [] OTHER            -> Seq([addr : Addr, prefix : Prefix])
    /\ dst.ips.netaddrs \in Seq(NetAddr)
    /\ phase \in {"merged", "reduced", "printed", "saved", "loaded"}

\* The addresses the merged set stands for.  Neither printing nor reducing
\* changes it (ipset_optimize keeps the addresses, see IPSetLoad).
Wanted == AddrsOf(ips.netaddrs)

\* The printed blocks are aligned CIDR blocks of enabled prefixes that
\* partition exactly the set's addresses: none lost (the recursion past the
\* last prefix, when ipset_reduce disabled it), none printed twice.
PrintedPartition ==
    phase = "printed" /\ print = "cidr" =>
        /\ \A i \in DOMAIN printed :
               /\ printed[i].prefix \in prefix_enabled
               /\ printed[i].addr = network(printed[i].addr, printed[i].prefix)
        /\ \A i, j \in DOMAIN printed :
               i < j => BlockAddrs(printed[i]) \cap BlockAddrs(printed[j]) = {}
        /\ UNION {BlockAddrs(printed[i]) : i \in DOMAIN printed} = Wanted

\* Reference: the fewest aligned blocks of enabled prefixes covering
\* [lo, hi], taking at each step the largest such block starting at lo.
RECURSIVE MinBlocks(_, _, _)
MinBlocks(lo, hi, enabled) ==
    IF lo > hi THEN 0
    ELSE LET fits == {p \in enabled : /\ lo = network(lo, p)
                                      /\ broadcast(lo, p) <= hi}
         IN  IF fits = {} THEN NumAddrs + 1
             ELSE LET p == CHOOSE q \in fits : \A r \in fits : q <= r
                  IN  1 + MinBlocks(broadcast(lo, p) + 1, hi, enabled)

\* The maximal runs of consecutive addresses of a set, as [lo, hi] pairs.
Runs(S) == {<<lo, hi>> \in S \X S :
               /\ lo..hi \subseteq S
               /\ lo - 1 \notin S /\ hi + 1 \notin S}

\* With the prefixes enabled, the printed list is the shortest possible:
\* ipset_print merges touching entries (via ipset_optimize) before
\* split_range, and split_range never splits a block it may print.
PrintedMinimal ==
    phase = "printed" /\ print = "cidr" =>
        Len(printed) = MapThenSumSet(LAMBDA r : MinBlocks(r[1], r[2], prefix_enabled), Runs(Wanted))

\* ipset_reduce's estimate is what is printed: the blocks of the printed
\* list are exactly the loop's final total, which stays within acceptable
\* unless the set already needed more than acceptable.
ReduceEstimate ==
    phase = "printed" /\ print = "cidr" /\ mode = "reduce" =>
        /\ Len(printed) = reduction.total
        /\ reduction.total <= reduction.acceptable
           \/ reduction.total = reduction.initial

\* The entries too big to print as single IPs: more than SingleIPsMax + 1
\* addresses.
TooBig == UNION {Covered(ips.netaddrs[i]) : i \in {i \in DOMAIN ips.netaddrs :
                    ips.netaddrs[i].broadcast - ips.netaddrs[i].addr > SingleIPsMax}}

\* --print-single-ips lists every address of the set once, in ascending
\* order, except those of an entry too big, which are dropped, and no
\* more; --print-ranges lists the set as disjoint, non-touching ranges in
\* ascending order (ipset_optimize before the switch).  Both rest on the
\* optimize of ipset_print and on the wrap guard of the x++ loop.
PrintedExact ==
    phase = "printed" =>
        /\ print = "single" =>
               /\ \A i \in 1..(Len(printed) - 1) : printed[i] < printed[i + 1]
               /\ ToSet(printed) = Wanted \ TooBig
        /\ print = "range" =>
               /\ IsCanonical(printed)
               /\ AddrsOf(printed) = Wanted

\* The snapshot can be read back only when it is whole and of this byte
\* order (or empty).
Readable == file.text = "empty" \/ (Len(file.data) = file.records /\ file.endian = "native")

\* A binary snapshot loads exactly when it is readable, and then gives back
\* the printed set: its entries and unique IPs, and an OPTIMIZED flag only
\* on a canonical list.  A cut file is refused, never half loaded.
RoundTripSet ==
    phase = "loaded" =>
        /\ dst.ok <=> Readable
        /\ dst.ok => /\ dst.ips.netaddrs = ips.netaddrs
                     /\ dst.ips.unique_ips = ips.unique_ips
                     /\ dst.ips.optimized => IsCanonical(dst.ips.netaddrs)

\* The line count survives the round trip, so --count-unique and -v of the
\* reloaded set report the lines of the input files.
RoundTripLines == phase = "loaded" /\ dst.ok => dst.ips.lines = ips.lines

=============================================================================
