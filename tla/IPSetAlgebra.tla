----------------------------- MODULE IPSetAlgebra -----------------------------
(***************************************************************************)
(* The set-algebra engine: ipset_common (intersection), ipset_diff         *)
(* (symmetric difference) and ipset_exclude (A minus B).  Each optimizes   *)
(* both operands in place, creates a fresh ipset and runs one two-pointer  *)
(* sweep over the operands' entries, appending through                     *)
(* ipset_add_ip_range; it then sums the operands' lines and sets the       *)
(* OPTIMIZED flag of the result.                                           *)
(*                                                                         *)
(* The sweep's registers are a record: the 1-based positions i1, i2 (the  *)
(* code's 0-based i1 < n1 is i1 <= Len here), the current ranges           *)
(* [lo1, hi1], [lo2, hi2] and the output set.  Before the loop the code    *)
(* reads netaddrs[0] of each operand even when it has no entries; that     *)
(* read of uninitialized memory is the parameter g1 / g2, any entry.       *)
(***************************************************************************)
EXTENDS IPSet

\* What the code reads as netaddrs[0] of an optimized operand: its first
\* entry, or anything when it has none.
Uninit(ips) == IF ips.netaddrs # <<>> THEN {ips.netaddrs[1]} ELSE NetAddr

\* Registers before the loop.
SweepStart(s1, s2, g1, g2) ==
    LET f1 == IF s1 # <<>> THEN s1[1] ELSE g1
        f2 == IF s2 # <<>> THEN s2[1] ELSE g2
    IN  [i1 |-> 1, i2 |-> 1,
         lo1 |-> f1.addr, hi1 |-> f1.broadcast,
         lo2 |-> f2.addr, hi2 |-> f2.broadcast,
         out |-> ipset_create]

\* i1++; if(i1 < n1) { lo1 = ...[i1].addr; hi1 = ...[i1].broadcast; }
Adv1(st, s1) ==
    LET i == st.i1 + 1
    IN  IF i <= Len(s1) THEN [st EXCEPT !.i1 = i, !.lo1 = s1[i].addr, !.hi1 = s1[i].broadcast]
                        ELSE [st EXCEPT !.i1 = i]

Adv2(st, s2) ==
    LET i == st.i2 + 1
    IN  IF i <= Len(s2) THEN [st EXCEPT !.i2 = i, !.lo2 = s2[i].addr, !.hi2 = s2[i].broadcast]
                        ELSE [st EXCEPT !.i2 = i]

\* ipset_add_ip_range(ips, lo, hi) on the output set.
Emit(st, lo, hi) == [st EXCEPT !.out = ipset_add_ip_range(@, lo, hi)]

BothLeft(st, s1, s2) == st.i1 <= Len(s1) /\ st.i2 <= Len(s2)

\* Mutant: the result keeps only the first operand's line count.
Finish_lines_first(st, a, b) ==
    [st.out EXCEPT !.lines = a.lines, !.optimized = TRUE]

\* The result: the output set with lines summed and the flag set.
Finish(st, a, b) ==
    [st.out EXCEPT !.lines = a.lines + b.lines, !.optimized = TRUE]

-----------------------------------------------------------------------------
(* ipset_common.c                                                          *)

\* while(i1 < n1 && i2 < n2): skip the range that ends before the other
\* starts; on overlap emit [max(lo1, lo2), min(hi1, hi2)] and advance the
\* operand whose range ends first (operand 2 on a tie).
RECURSIVE CommonLoop(_, _, _)
CommonLoop(st, s1, s2) ==
    IF ~BothLeft(st, s1, s2) THEN st
    ELSE IF st.lo1 > st.hi2 THEN CommonLoop(Adv2(st, s2), s1, s2)
    ELSE IF st.lo2 > st.hi1 THEN CommonLoop(Adv1(st, s1), s1, s2)
    ELSE LET lo == IF st.lo1 > st.lo2 THEN st.lo1 ELSE st.lo2
         IN  IF st.hi1 < st.hi2
             THEN CommonLoop(Emit(Adv1(st, s1), lo, st.hi1), s1, s2)
             ELSE CommonLoop(Emit(Adv2(st, s2), lo, st.hi2), s1, s2)

ipset_common(ips1, ips2, g1, g2) ==
    LET a == ipset_optimize(ips1)
        b == ipset_optimize(ips2)
    IN  Finish(CommonLoop(SweepStart(a.netaddrs, b.netaddrs, g1, g2),
                          a.netaddrs, b.netaddrs), a, b)

-----------------------------------------------------------------------------
(* ipset_diff.c                                                            *)

\* The two trailing loops: emit every remaining range of one operand.
RECURSIVE Drain1(_, _)
Drain1(st, s1) ==
    IF st.i1 > Len(s1) THEN st
    ELSE Drain1(Adv1(Emit(st, st.lo1, st.hi1), s1), s1)

RECURSIVE Drain2(_, _)
Drain2(st, s2) ==
    IF st.i2 > Len(s2) THEN st
    ELSE Drain2(Adv2(Emit(st, st.lo2, st.hi2), s2), s2)

\* The part before the overlap, [min lo, max lo - 1], when the lows differ.
DiffHead(st) ==
    IF st.lo1 > st.lo2 THEN Emit(st, st.lo2, Dec(st.lo1))
    ELSE IF st.lo2 > st.lo1 THEN Emit(st, st.lo1, Dec(st.lo2))
    ELSE st

\* while(i1 < n1 && i2 < n2): emit and advance a range that lies wholly
\* before the other; on overlap emit the head, then cut the longer range
\* to start after the shorter one and advance the shorter (both on a tie).
RECURSIVE DiffLoop(_, _, _)

\* Mutant: on overlap with operand 1 ending later, lo1 is not moved past hi2.
DiffLoop_no_cut(st, s1, s2) ==
    IF ~BothLeft(st, s1, s2) THEN st
    ELSE IF st.lo1 > st.hi2 THEN DiffLoop(Adv2(Emit(st, st.lo2, st.hi2), s2), s1, s2)
    ELSE IF st.lo2 > st.hi1 THEN DiffLoop(Adv1(Emit(st, st.lo1, st.hi1), s1), s1, s2)
    ELSE LET p == DiffHead(st) IN
         IF st.hi1 > st.hi2
         THEN DiffLoop(Adv2(p, s2), s1, s2)
         ELSE IF st.hi2 > st.hi1
         THEN DiffLoop(Adv1([p EXCEPT !.lo2 = Inc(st.hi1)], s1), s1, s2)
         ELSE DiffLoop(Adv2(Adv1(p, s1), s2), s1, s2)

DiffLoop(st, s1, s2) ==
    IF ~BothLeft(st, s1, s2) THEN st
    ELSE IF st.lo1 > st.hi2 THEN DiffLoop(Adv2(Emit(st, st.lo2, st.hi2), s2), s1, s2)
    ELSE IF st.lo2 > st.hi1 THEN DiffLoop(Adv1(Emit(st, st.lo1, st.hi1), s1), s1, s2)
    ELSE LET p == DiffHead(st) IN
         IF st.hi1 > st.hi2
         THEN DiffLoop(Adv2([p EXCEPT !.lo1 = Inc(st.hi2)], s2), s1, s2)
         ELSE IF st.hi2 > st.hi1
         THEN DiffLoop(Adv1([p EXCEPT !.lo2 = Inc(st.hi1)], s1), s1, s2)
         ELSE DiffLoop(Adv2(Adv1(p, s1), s2), s1, s2)

ipset_diff(ips1, ips2, g1, g2) ==
    LET a  == ipset_optimize(ips1)
        b  == ipset_optimize(ips2)
        s1 == a.netaddrs
        s2 == b.netaddrs
    IN  Finish(Drain2(Drain1(DiffLoop(SweepStart(s1, s2, g1, g2), s1, s2), s1), s2), a, b)

-----------------------------------------------------------------------------
(* ipset_exclude.c                                                         *)

\* while(i1 < n1 && i2 < n2): drop operand 2's range that ends before
\* operand 1's starts; emit and advance operand 1's range that ends before
\* operand 2's starts; on overlap emit [lo1, lo2 - 1] if lo1 < lo2 and
\* clamp lo1 to lo2, then advance both, advance operand 1, or clamp lo1
\* past hi2 and advance operand 2.
RECURSIVE ExcludeLoop(_, _, _)

\* Mutant: the part before the overlap is emitted up to lo2 inclusive.
ExcludeLoop_keeps_lo2(st, s1, s2) ==
    IF ~BothLeft(st, s1, s2) THEN st
    ELSE IF st.lo1 > st.hi2 THEN ExcludeLoop(Adv2(st, s2), s1, s2)
    ELSE IF st.lo2 > st.hi1 THEN ExcludeLoop(Adv1(Emit(st, st.lo1, st.hi1), s1), s1, s2)
    ELSE LET p == IF st.lo1 < st.lo2
                  THEN [Emit(st, st.lo1, st.lo2) EXCEPT !.lo1 = st.lo2]
                  ELSE st
         IN  IF p.hi1 = p.hi2 THEN ExcludeLoop(Adv2(Adv1(p, s1), s2), s1, s2)
             ELSE IF p.hi1 < p.hi2 THEN ExcludeLoop(Adv1(p, s1), s1, s2)
             ELSE ExcludeLoop(Adv2([p EXCEPT !.lo1 = Inc(p.hi2)], s2), s1, s2)

ExcludeLoop(st, s1, s2) ==
    IF ~BothLeft(st, s1, s2) THEN st
    ELSE IF st.lo1 > st.hi2 THEN ExcludeLoop(Adv2(st, s2), s1, s2)
    ELSE IF st.lo2 > st.hi1 THEN ExcludeLoop(Adv1(Emit(st, st.lo1, st.hi1), s1), s1, s2)
    ELSE LET p == IF st.lo1 < st.lo2
                  THEN [Emit(st, st.lo1, Dec(st.lo2)) EXCEPT !.lo1 = st.lo2]
                  ELSE st
         IN  IF p.hi1 = p.hi2 THEN ExcludeLoop(Adv2(Adv1(p, s1), s2), s1, s2)
             ELSE IF p.hi1 < p.hi2 THEN ExcludeLoop(Adv1(p, s1), s1, s2)
             ELSE ExcludeLoop(Adv2([p EXCEPT !.lo1 = Inc(p.hi2)], s2), s1, s2)

\* After the loop, the current (possibly clamped) range of operand 1 and
\* the rest of its entries are copied.
ipset_exclude(ips1, ips2, g1, g2) ==
    LET a  == ipset_optimize(ips1)
        b  == ipset_optimize(ips2)
        s1 == a.netaddrs
        s2 == b.netaddrs
    IN  Finish(Drain1(ExcludeLoop(SweepStart(s1, s2, g1, g2), s1, s2), s1), a, b)

=============================================================================
