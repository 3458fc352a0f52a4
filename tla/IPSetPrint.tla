------------------------------- MODULE IPSetPrint -------------------------------
(***************************************************************************)
(* Printing an ipset as CIDR blocks (ipset_print in PRINT_CIDR mode, which *)
(* decomposes every entry with split_range) and the prefix reducer         *)
(* ipset_reduce that --ipset-reduce runs before printing.                  *)
(*                                                                         *)
(* split_range bisects the address space top-down: a node equal to the     *)
(* range and of an enabled prefix is printed, any other node is split in   *)
(* its two halves.  prefix_enabled[] starts from the command line          *)
(* (--min-prefix, --prefixes; the last prefix always stays enabled there)  *)
(* and ipset_reduce disables more of it: every prefix the set does not use *)
(* and, greedily, the prefixes whose blocks are cheapest to re-express in  *)
(* the next longer prefix in use, while the block count stays within the   *)
(* acceptable increase.                                                    *)
(*                                                                         *)
(* A printed block is the pair <<addr, prefix>> print_addr receives.       *)
(***************************************************************************)
EXTENDS IPSet, SequencesExt

Prefix == 0..W

\* set_bit(addr, bitno, 1): bit bitno counted from the most significant
\* (bit 1) set.  Only called on a network address of prefix bitno - 1, whose
\* bit bitno is clear.
set_bit(a, bitno) == a + 2^(W - bitno)

Block(a, p) == [addr |-> a, prefix |-> p]
BlockAddrs(blk) == blk.addr..broadcast(blk.addr, blk.prefix)

\* split_range(addr, prefix, lo, hi, print): the blocks printed, in order.
\* A reversed range is swapped first.  An invalid prefix or a range outside
\* the node prints nothing (the function returns 0).  The recursion past the
\* last prefix (a single address whose prefix is disabled) lands in the
\* invalid-prefix case in every branch, whatever set_bit's undefined shift
\* yields, so the address is dropped.
RECURSIVE split_range(_, _, _, _, _)

\* Mutant: a node equal to the range is printed whatever its prefix.
split_range_any_prefix(addr, prefix, lo0, hi0, enabled) ==
    LET lo == IF lo0 > hi0 THEN hi0 ELSE lo0
        hi == IF lo0 > hi0 THEN lo0 ELSE hi0
    IN  IF prefix > W THEN <<>>
        ELSE IF lo < addr \/ hi > broadcast(addr, prefix) THEN <<>>
        ELSE IF lo = addr /\ hi = broadcast(addr, prefix)
             THEN <<Block(addr, prefix)>>
        ELSE IF prefix = W THEN <<>>
        ELSE LET p     == prefix + 1
                 upper == set_bit(addr, p)
             IN  IF hi < upper THEN split_range(addr, p, lo, hi, enabled)
                 ELSE IF lo >= upper THEN split_range(upper, p, lo, hi, enabled)
                 ELSE split_range(addr, p, lo, broadcast(addr, p), enabled)
                        \o split_range(upper, p, upper, hi, enabled)

split_range(addr, prefix, lo0, hi0, enabled) ==
    LET lo == IF lo0 > hi0 THEN hi0 ELSE lo0
        hi == IF lo0 > hi0 THEN lo0 ELSE hi0
    IN  IF prefix > W THEN <<>>
        ELSE IF lo < addr \/ hi > broadcast(addr, prefix) THEN <<>>
        ELSE IF lo = addr /\ hi = broadcast(addr, prefix) /\ prefix \in enabled
             THEN <<Block(addr, prefix)>>
        ELSE IF prefix = W THEN <<>>
        ELSE LET p     == prefix + 1
                 upper == set_bit(addr, p)
             IN  IF hi < upper THEN split_range(addr, p, lo, hi, enabled)
                 ELSE IF lo >= upper THEN split_range(upper, p, lo, hi, enabled)
                 ELSE split_range(addr, p, lo, broadcast(addr, p), enabled)
                        \o split_range(upper, p, upper, hi, enabled)

\* The PRINT_CIDR case of ipset_print: split_range(0, 0, addr, broadcast)
\* for every entry, in order.
PrintCIDR(ips, enabled) ==
    FlattenSeq([i \in DOMAIN ips.netaddrs |->
                   split_range(0, 0, ips.netaddrs[i].addr, ips.netaddrs[i].broadcast, enabled)])

\* An entry as printed: a reversed range ("should never happen") is swapped.
Ordered(e) == IF e.addr > e.broadcast THEN na(e.broadcast, e.addr) ELSE e

\* for(x = start; x >= start && x <= end; x++): the addresses from x up,
\* stopping at end or when x++ wraps past the last address.
RECURSIVE AddrsFrom(_, _, _)
AddrsFrom(x, start, end) ==
    IF x >= start /\ x <= end THEN <<x>> \o AddrsFrom(Inc(x), start, end)
    ELSE <<>>

\* Mutant: a range of exactly limit + 1 addresses is eliminated too.
PrintSingleIPs_limit_ge(ips, limit) ==
    FlattenSeq([i \in DOMAIN ips.netaddrs |->
                   LET e == Ordered(ips.netaddrs[i])
                   IN  IF e.broadcast - e.addr >= limit THEN <<>>
                       ELSE AddrsFrom(e.addr, e.addr, e.broadcast)])

\* The PRINT_SINGLE_IPS case: every address of every entry, in order; an
\* entry with end - start > limit (256*256*256 in the code) is eliminated
\* with a message on stderr.
PrintSingleIPs(ips, limit) ==
    FlattenSeq([i \in DOMAIN ips.netaddrs |->
                   LET e == Ordered(ips.netaddrs[i])
                   IN  IF e.broadcast - e.addr > limit THEN <<>>
                       ELSE AddrsFrom(e.addr, e.addr, e.broadcast)])

\* The default case (PRINT_RANGE): print_addr_range(addr, broadcast) for
\* every entry, which swaps a reversed range.
PrintRanges(ips) == [i \in DOMAIN ips.netaddrs |-> Ordered(ips.netaddrs[i])]

-----------------------------------------------------------------------------
(* ipset_reduce.c                                                          *)

\* prefix_counters[] after the counting pass.
Counters(blocks) ==
    [p \in Prefix |-> Cardinality({i \in DOMAIN blocks : blocks[i].prefix = p})]

\* The inner loop's j: the next longer prefix with a non-zero counter.
NextUsed(c, i) == {j \in (i+1)..W : c[j] > 0}
NextTo(c, i)   == CHOOSE j \in NextUsed(c, i) : \A k \in NextUsed(c, i) : j <= k

\* The blocks added when prefix i's blocks are re-expressed in prefix j.
Increase(c, i) == c[i] * (2^(NextTo(c, i) - i) - 1)

\* The candidates the outer loop examines: used, enabled prefixes below the
\* last with a longer prefix in use, whose increase is below the initial
\* min_increase = acceptable * 10.
Candidates(r, acceptable) ==
    {i \in 0..(W-1) : /\ r.counters[i] > 0
                      /\ i \in r.enabled
                      /\ NextUsed(r.counters, i) # {}
                      /\ Increase(r.counters, i) < acceptable * 10}

\* The first candidate, in ascending prefix order, of least increase.
Cheapest(r, C) ==
    CHOOSE i \in C : \A k \in C :
        \/ Increase(r.counters, i) < Increase(r.counters, k)
        \/ Increase(r.counters, i) = Increase(r.counters, k) /\ i <= k

\* while(total < acceptable): eliminate the cheapest prefix into the next
\* used one, or stop when there is none or it would pass acceptable.
RECURSIVE ReduceLoop(_, _)

\* Mutant: the prefix merged into is disabled instead of the eliminated one.
ReduceLoop_disable_to(r, acceptable) ==
    LET C == Candidates(r, acceptable) IN
    IF r.total >= acceptable \/ C = {} THEN r
    ELSE LET min == Cheapest(r, C)
             to  == NextTo(r.counters, min)
             inc == Increase(r.counters, min)
         IN  IF r.total + inc > acceptable THEN r
             ELSE ReduceLoop([counters |-> [r.counters EXCEPT ![to] = @ + inc + r.counters[min],
                                                              ![min] = 0],
                              enabled  |-> r.enabled \ {to},
                              total    |-> r.total + inc], acceptable)

ReduceLoop(r, acceptable) ==
    LET C == Candidates(r, acceptable) IN
    IF r.total >= acceptable \/ C = {} THEN r
    ELSE LET min == Cheapest(r, C)
             to  == NextTo(r.counters, min)
             inc == Increase(r.counters, min)
         IN  IF r.total + inc > acceptable THEN r
             ELSE ReduceLoop([counters |-> [r.counters EXCEPT ![to] = @ + inc + r.counters[min],
                                                              ![min] = 0],
                              enabled  |-> r.enabled \ {min},
                              total    |-> r.total + inc], acceptable)

\* Mutant: prefixes the set does not use are left enabled.
ipset_reduce_keep_unused(ips, factor, min_accepted, enabled) ==
    LET o          == ipset_optimize(ips)
        blocks     == PrintCIDR(o, enabled)
        c          == Counters(blocks)
        total      == Len(blocks)
        scaled     == (total * factor) \div 100
        acceptable == IF scaled < min_accepted THEN min_accepted ELSE scaled
    IN  [ReduceLoop([counters |-> c, enabled |-> enabled, total |-> total], acceptable)
            EXCEPT !.counters = [p \in Prefix |-> 0]]
        @@ [initial |-> total, acceptable |-> acceptable, ips |-> o]

\* ipset_reduce(ips, acceptable_increase, min_accepted): optimize the set if
\* needed, count the blocks of each prefix the current prefix_enabled[]
\* prints, disable the unused prefixes, compute acceptable and run the loop;
\* the counters are reset at the end.  The result carries the new
\* prefix_enabled[] (enabled), the loop's final total and, for the
\* properties, the initial total, acceptable and the optimized set.
ipset_reduce(ips, factor, min_accepted, enabled) ==
    LET o          == ipset_optimize(ips)
        blocks     == PrintCIDR(o, enabled)
        c          == Counters(blocks)
        total      == Len(blocks)
        scaled     == (total * factor) \div 100
        acceptable == IF scaled < min_accepted THEN min_accepted ELSE scaled
        used       == {p \in Prefix : c[p] > 0}
    IN  [ReduceLoop([counters |-> c, enabled |-> enabled \cap used, total |-> total], acceptable)
            EXCEPT !.counters = [p \in Prefix |-> 0]]
        @@ [initial |-> total, acceptable |-> acceptable, ips |-> o]

=============================================================================
