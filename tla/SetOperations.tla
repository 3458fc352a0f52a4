---------------------------- MODULE SetOperations ----------------------------
(***************************************************************************)
(* iprange's two-operand modes, end to end: main() loads the files before  *)
(* the mode switch into ipset A (the root chain) and then ipset B, each    *)
(* through ipset_load (module IPSetLoad, instantiated twice), and then     *)
(* runs one mode on them:                                                  *)
(*   --combine (default)  ipset_merge(root, next) then ipset_print, which *)
(*                        optimizes;                                       *)
(*   --common             ipset_common(A, B);                              *)
(*   --diff               ipset_diff(A, B), exit status 1 iff unique_ips; *)
(*   --exclude-next       ipset_exclude(A, B).                             *)
(* The operators optimize their operands in place, so A and B change too.  *)
(* The program then prints and exits: the mode is the last step.           *)
(***************************************************************************)
EXTENDS IPSetAlgebra

CONSTANTS
    Tokens, UseNetwork, MaxLines,  \* as in IPSetLoad, for both files
    Modes                          \* the modes a run may choose

ASSUME Modes \subseteq {"combine", "common", "diff", "exclude"}

VARIABLES
    a, phaseA, linesA, loadedA,    \* ipset A and its load (IPSetLoad)
    b, phaseB, linesB, loadedB,    \* ipset B and its load
    out,                           \* the ipset the mode prints
    mode                           \* "none" until the mode has run

loadA == <<a, phaseA, linesA, loadedA>>
loadB == <<b, phaseB, linesB, loadedB>>
vars  == <<loadA, loadB, out, mode>>

A == INSTANCE IPSetLoad WITH ips <- a, phase <- phaseA, linesRead <- linesA, loaded <- loadedA
B == INSTANCE IPSetLoad WITH ips <- b, phase <- phaseB, linesRead <- linesB, loaded <- loadedB

Init ==
    /\ A!Init
    /\ B!Init
    /\ out = ipset_create
    /\ mode = "none"

\* main() loads the command-line files in order: A's lines, then B's.
LoadA ==
    /\ A!LineHas1Ip \/ A!LineHas2Ips \/ A!EndOfFile
    /\ UNCHANGED <<loadB, out, mode>>

LoadB ==
    /\ phaseA = "loaded"
    /\ B!LineHas1Ip \/ B!LineHas2Ips \/ B!EndOfFile
    /\ UNCHANGED <<loadA, out, mode>>

Ready(m) == phaseB = "loaded" /\ mode = "none" /\ m \in Modes

\* MODE_COMBINE: root is the file loaded last (B); ipset_merge(root, A),
\* then ipset_print() finds the flag clear and optimizes root.
Combine ==
    /\ Ready("combine")
    /\ b' = ipset_optimize(ipset_merge(b, a))
    /\ out' = b'
    /\ mode' = "combine"
    /\ UNCHANGED <<loadA, phaseB, linesB, loadedB>>

\* The three sweeps read netaddrs[0] of each optimized operand.
Sweep(m, op(_, _, _, _)) ==
    /\ Ready(m)
    /\ \E g1 \in Uninit(ipset_optimize(a)), g2 \in Uninit(ipset_optimize(b)) :
           out' = op(a, b, g1, g2)
    /\ a' = ipset_optimize(a)
    /\ b' = ipset_optimize(b)
    /\ mode' = m
    /\ UNCHANGED <<phaseA, linesA, loadedA, phaseB, linesB, loadedB>>

\* MODE_COMMON: ipset_common(root, root->next); root is the file loaded
\* last, so B is the first operand.
CommonBA(x, y, gx, gy) == ipset_common(y, x, gy, gx)

Common  == Sweep("common", CommonBA)
Diff    == Sweep("diff", ipset_diff)
Exclude == Sweep("exclude", ipset_exclude)

Next == LoadA \/ LoadB \/ Combine \/ Common \/ Diff \/ Exclude

Spec == Init /\ [][Next]_vars

-----------------------------------------------------------------------------

TypeOK ==
    /\ A!TypeOK /\ B!TypeOK
    /\ out.netaddrs \in Seq(NetAddr)
    /\ out.lines \in Nat /\ out.unique_ips \in Nat /\ out.optimized \in BOOLEAN
    /\ mode \in {"none"} \cup Modes

\* What each mode promises, on the addresses of the lines read.
Expected ==
    CASE mode = "combine" -> loadedA \cup loadedB
      [] mode = "common"  -> loadedA \cap loadedB
      [] mode = "diff"    -> (loadedA \ loadedB) \cup (loadedB \ loadedA)
      [] mode = "exclude" -> loadedA \ loadedB

\* The printed set is exactly the union, intersection, symmetric difference
\* or difference of the two files, whatever the interleaving of the two
\* operands' ranges in the sweeps and whatever garbage is read as
\* netaddrs[0] of an empty operand.
AlgebraCorrect == mode # "none" => AddrsOf(out.netaddrs) = Expected

\* The result, flagged OPTIMIZED, is ascending, well formed and free of
\* overlaps: the printer's split_range and a later sweep rely on it.
ResultOrdered ==
    mode # "none" =>
        \A i \in DOMAIN out.netaddrs :
            /\ out.netaddrs[i].addr <= out.netaddrs[i].broadcast
            /\ i < Len(out.netaddrs) =>
                   out.netaddrs[i].broadcast < out.netaddrs[i+1].addr

\* The result of --combine, --common and --exclude-next is in the
\* canonical form the OPTIMIZED flag stands for: no two ranges even touch,
\* so the printed CIDR list is the minimal one.
ResultCanonical == mode \in {"combine", "common", "exclude"} => IsCanonical(out.netaddrs)

\* The same for --diff, whose result ipset_diff also flags OPTIMIZED (the
\* spec: every operator returning an optimized set keeps the invariant).
DiffCanonical == mode = "diff" => IsCanonical(out.netaddrs)

\* The result's counters: unique_ips is the number of its addresses (what
\* --count-unique and the compare modes print) and lines the lines of
\* both files.
ResultCounters ==
    mode # "none" =>
        /\ out.unique_ips = Cardinality(AddrsOf(out.netaddrs))
        /\ out.lines = linesA + linesB


=============================================================================
