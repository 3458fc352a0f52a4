-------------------------------- MODULE IPSet --------------------------------
(***************************************************************************)
(* The ipset data structure of iprange and the operations on one ipset:    *)
(* appending a range (ipset_add_ip_range / ipset_added_entry, with its     *)
(* "still optimized" fast path), parsing an address (str2netaddr), the     *)
(* optimizer (qsort by compar_netaddr, then the coalescing sweep of        *)
(* ipset_optimize) and the concatenating operators ipset_merge and         *)
(* ipset_combine.                                                          *)
(*                                                                         *)
(* An ipset is a record: netaddrs is the array cut to its `entries`       *)
(* first elements, lines, unique_ips and the IPSET_FLAG_OPTIMIZED flag.    *)
(* The capacity (entries_max, ipset_grow) is not state: growth only moves  *)
(* the array, and its failure ends the process.  Addresses are W-bit      *)
(* unsigned integers; in_addr_t arithmetic wraps modulo 2^W as the 32-bit *)
(* arithmetic of the code wraps modulo 2^32.                               *)
(***************************************************************************)
EXTENDS Naturals, Sequences, FiniteSets, TLC

CONSTANT W          \* address width in bits (32 in the code)

ASSUME W \in 1..8

NumAddrs == 2^W
Addr     == 0..(NumAddrs - 1)
MaxAddr  == NumAddrs - 1

\* in_addr_t (unsigned 32-bit) increment and decrement, wrapping.
Inc(a) == (a + 1) % NumAddrs
Dec(a) == (a - 1) % NumAddrs

\* network_addr_t: one entry of an ipset.
NetAddr == [addr : Addr, broadcast : Addr]
na(lo, hi) == [addr |-> lo, broadcast |-> hi]

\* The addresses an entry stands for.  Printing and split_range swap a
\* reversed entry (addr > broadcast) before using it.
Covered(e) == IF e.addr <= e.broadcast THEN e.addr..e.broadcast
                                       ELSE e.broadcast..e.addr

\* The addresses of a sequence of entries.
AddrsOf(s) == UNION {Covered(s[i]) : i \in DOMAIN s}

\* The canonical form the OPTIMIZED flag promises: ascending, every entry
\* well formed, no two entries overlapping or touching.
IsCanonical(s) ==
    \A i \in DOMAIN s :
        /\ s[i].addr <= s[i].broadcast
        /\ i < Len(s) => s[i].broadcast + 1 < s[i+1].addr

-----------------------------------------------------------------------------
(* iprange.h: netmask arithmetic and str2netaddr.                          *)

\* network(addr, prefix) == addr & netmask(prefix)
network(a, prefix) == a - (a % 2^(W - prefix))

\* Mutant: the block size used as the last offset (off by one).
broadcast_past_end(a, prefix) == network(a, prefix) + 2^(W - prefix)

\* broadcast(addr, prefix) == addr | ~netmask(prefix)
broadcast(a, prefix) == network(a, prefix) + 2^(W - prefix) - 1

\* str2netaddr() of a well-formed "ip/prefix": with cidr_use_network (the
\* default) the address is moved to its network address; with
\* --dont-fix-network it is kept, and the broadcast is computed from it.
str2netaddr(ip, prefix, useNetwork) ==
    LET a == IF useNetwork THEN network(ip, prefix) ELSE ip
    IN  na(a, broadcast(a, prefix))

-----------------------------------------------------------------------------
(* ipset.c / ipset.h: creation and appending.                              *)

\* ipset_create(): empty, not optimized.
ipset_create == [netaddrs |-> <<>>, lines |-> 0, unique_ips |-> 0, optimized |-> FALSE]

\* broadcast - addr + 1, computed in in_addr_t and added to a size_t.
RangeSize(from, to) == (to - from + 1) % NumAddrs

\* Mutant: the "after the last entry" test of the fast path accepts a range
\* that starts on the last entry's broadcast.
ipset_add_ip_range_ge(ips, from, to) ==
    LET n       == Len(ips.netaddrs)
        counted == [ips EXCEPT !.lines = @ + 1,
                               !.unique_ips = @ + RangeSize(from, to)]
        fast    == ips.optimized /\ n > 0
    IN  IF ~fast THEN [counted EXCEPT !.netaddrs = Append(@, na(from, to))]
        ELSE IF from = Inc(ips.netaddrs[n].broadcast)
             THEN [counted EXCEPT !.netaddrs[n].broadcast = to]
        ELSE IF from >= ips.netaddrs[n].broadcast
             THEN [counted EXCEPT !.netaddrs = Append(@, na(from, to))]
        ELSE [counted EXCEPT !.netaddrs = Append(@, na(from, to)), !.optimized = FALSE]

\* ipset_add_ip_range(): store the entry at netaddrs[entries], then
\* ipset_added_entry(): count a line and the range's addresses and, if the
\* set is optimized and not empty, extend the last entry when the new one
\* starts right after it, append when it starts after it, and otherwise
\* append and clear the OPTIMIZED flag.
ipset_add_ip_range(ips, from, to) ==
    LET n       == Len(ips.netaddrs)
        counted == [ips EXCEPT !.lines = @ + 1,
                               !.unique_ips = @ + RangeSize(from, to)]
        fast    == ips.optimized /\ n > 0
    IN  IF ~fast THEN [counted EXCEPT !.netaddrs = Append(@, na(from, to))]
        ELSE IF from = Inc(ips.netaddrs[n].broadcast)
             THEN [counted EXCEPT !.netaddrs[n].broadcast = to]
        ELSE IF from > ips.netaddrs[n].broadcast
             THEN [counted EXCEPT !.netaddrs = Append(@, na(from, to))]
        ELSE [counted EXCEPT !.netaddrs = Append(@, na(from, to)), !.optimized = FALSE]

-----------------------------------------------------------------------------
(* ipset_optimize.c                                                        *)

\* compar_netaddr(): ascending by addr, then descending by broadcast.
compar_netaddr(x, y) ==
    \/ x.addr < y.addr
    \/ x.addr = y.addr /\ x.broadcast > y.broadcast

\* The loop of ipset_optimize() over the sorted entries o, with the
\* accumulated range [lo, hi]: skip an entry inside it, extend it by an
\* entry that overlaps or touches it, otherwise flush it and restart.
RECURSIVE OptimizeSweep(_, _, _, _)

\* Mutant: an entry is taken to lie inside the accumulated range when it
\* starts inside it, and its tail is dropped.
OptimizeSweep_skip_on_addr(ips, o, lo, hi) ==
    IF o = <<>> THEN ipset_add_ip_range(ips, lo, hi)
    ELSE LET e == Head(o) IN
         IF e.addr <= hi THEN OptimizeSweep(ips, Tail(o), lo, hi)
         ELSE IF e.addr <= Inc(hi) THEN OptimizeSweep(ips, Tail(o), lo, e.broadcast)
         ELSE OptimizeSweep(ipset_add_ip_range(ips, lo, hi), Tail(o), e.addr, e.broadcast)

\* Mutant: only overlapping entries are merged, touching ones are not.
OptimizeSweep_no_touch(ips, o, lo, hi) ==
    IF o = <<>> THEN ipset_add_ip_range(ips, lo, hi)
    ELSE LET e == Head(o) IN
         IF e.broadcast <= hi THEN OptimizeSweep(ips, Tail(o), lo, hi)
         ELSE IF e.addr <= hi THEN OptimizeSweep(ips, Tail(o), lo, e.broadcast)
         ELSE OptimizeSweep(ipset_add_ip_range(ips, lo, hi), Tail(o), e.addr, e.broadcast)

OptimizeSweep(ips, o, lo, hi) ==
    IF o = <<>> THEN ipset_add_ip_range(ips, lo, hi)
    ELSE LET e == Head(o) IN
         IF e.broadcast <= hi THEN OptimizeSweep(ips, Tail(o), lo, hi)
         ELSE IF e.addr <= Inc(hi) THEN OptimizeSweep(ips, Tail(o), lo, e.broadcast)
         ELSE OptimizeSweep(ipset_add_ip_range(ips, lo, hi), Tail(o), e.addr, e.broadcast)

\* Mutant: the saved line count is not restored after the sweep.
ipset_optimize_no_lines_restore(ips) ==
    IF ips.optimized THEN ips
    ELSE LET o     == SortSeq(ips.netaddrs, compar_netaddr)
             fresh == [ips EXCEPT !.netaddrs = <<>>, !.unique_ips = 0, !.lines = 0]
         IN  IF o = <<>> THEN fresh
             ELSE [OptimizeSweep(fresh, Tail(o), Head(o).addr, Head(o).broadcast)
                     EXCEPT !.optimized = TRUE]

\* ipset_optimize(): a no-op on an optimized set; otherwise sort, reset
\* entries, unique_ips and lines, return early (flag still clear, lines
\* still 0) when the set is empty, else sweep, restore lines and set the
\* flag.
ipset_optimize(ips) ==
    IF ips.optimized THEN ips
    ELSE LET o     == SortSeq(ips.netaddrs, compar_netaddr)
             fresh == [ips EXCEPT !.netaddrs = <<>>, !.unique_ips = 0, !.lines = 0]
         IN  IF o = <<>> THEN fresh
             ELSE [OptimizeSweep(fresh, Tail(o), Head(o).addr, Head(o).broadcast)
                     EXCEPT !.lines = ips.lines, !.optimized = TRUE]

\* ipset_optimize_all(root): every set of a chain, in place.
ipset_optimize_all(chain) == [k \in DOMAIN chain |-> ipset_optimize(chain[k])]

\* Mutant: the count is returned without optimizing a set whose flag is
\* clear.
ipset_unique_ips_stale(ips) == ips.unique_ips

\* ipset_unique_ips(ips): optimize if the flag is clear, then the count.
\* The caller's set is optimized in place (see the actions using it).
ipset_unique_ips(ips) == ipset_optimize(ips).unique_ips

-----------------------------------------------------------------------------
(* ipset_merge.c, ipset_combine.c                                          *)

\* ipset_merge(to, add): append add's entries to `to`, add the lines and
\* clear the flag; unique_ips is left as it was.
ipset_merge(to, add) ==
    [to EXCEPT !.netaddrs = @ \o add.netaddrs, !.lines = @ + add.lines, !.optimized = FALSE]

\* ipset_combine(a, b): a new, not optimized set of both sets' entries.
ipset_combine(a, b) ==
    [ipset_create EXCEPT !.netaddrs = a.netaddrs \o b.netaddrs, !.lines = a.lines + b.lines]

=============================================================================
