------------------------------ MODULE FileChains ------------------------------
(***************************************************************************)
(* main() of iprange.c from the first file argument to the end of the mode *)
(* it runs.  Every file argument is loaded by ipset_load and prepended to  *)
(* a chain: the root chain, or, once --except, --diff or --compare-next    *)
(* has been seen (read_second), the second chain.  A chain is a sequence   *)
(* here, head first, so root[1] is the file loaded last and `first` (the  *)
(* file loaded first) is root[Len(root)].  After the arguments, the mode   *)
(* runs its loops over the chains; every loop iteration is one step.       *)
(*                                                                         *)
(* The operators optimize their operands in place, so a step that calls   *)
(* ipset_common, ipset_exclude, ipset_diff or ipset_unique_ips also        *)
(* replaces the operands in the chain by their optimized form.  Printing   *)
(* is modelled as the set (acc) or the counter rows (rows) printed; the    *)
(* CIDR printer itself is PrintMode's.  --ipset-reduce is PrintMode's too. *)
(* "as NAME" only renames a set and is left out: a row names a file by its *)
(* chain and position.                                                     *)
(***************************************************************************)
EXTENDS IPSetAlgebra, SequencesExt

CONSTANTS
    Files,      \* the ipsets ipset_load can return for a file argument
    MaxFiles,   \* bound on the file arguments
    Modes       \* the modes the options may select

\* The options that also switch loading to the second chain.
SeparatorModes == {"exclude", "diff", "compare_next"}
ChainModes     == {"combine", "count_unique", "count_unique_all",
                   "common", "compare", "compare_first"}

ASSUME /\ Modes \subseteq SeparatorModes \cup ChainModes
       /\ MaxFiles \in Nat

VARIABLES
    root,          \* the root chain
    second,        \* the second chain
    read_second,   \* files now go to the second chain
    mode,          \* the last mode option seen (MODE_COMBINE by default)
    pc,            \* "args", then the step of the mode, "done" or "exit"
    i, j,          \* the loop cursors: positions in the chains
    acc,           \* the set a loop builds (common, excluded, the diff)
    rows,          \* the rows printed by the counting and compare modes
    ret,           \* the exit status
    loadedRoot,    \* history: the root chain when the arguments end
    loadedSecond   \* history: the second chain then

vars == <<root, second, read_second, mode, pc, i, j, acc, rows, ret,
          loadedRoot, loadedSecond>>

args == <<root, second, read_second, mode>>
loop == <<i, j, acc, rows, ret>>
hist == <<loadedRoot, loadedSecond>>

Init ==
    /\ root = <<>> /\ second = <<>>
    /\ read_second = FALSE
    /\ mode = "combine"
    /\ pc = "args"
    /\ i = 0 /\ j = 0
    /\ acc = ipset_create
    /\ rows = <<>>
    /\ ret = 0
    /\ loadedRoot = <<>> /\ loadedSecond = <<>>

-----------------------------------------------------------------------------
(* The argument loop.                                                      *)

NFiles == Len(root) + Len(second)

\* A file argument: ipset_load(argv[i]) and the set prepended to the chain
\* read_second selects.
FileArg ==
    /\ pc = "args" /\ NFiles < MaxFiles
    /\ \E f \in Files :
           \/ read_second /\ second' = <<f>> \o second /\ UNCHANGED root
           \/ ~read_second /\ root' = <<f>> \o root /\ UNCHANGED second
    /\ UNCHANGED <<read_second, mode, pc, loop, hist>>

\* ipset_load returned NULL (the file cannot be opened, a binary header is
\* refused): "Cannot load ipset", exit(1).
FileArgFails ==
    /\ pc = "args" /\ NFiles < MaxFiles
    /\ pc' = "exit" /\ ret' = 1
    /\ UNCHANGED <<args, i, j, acc, rows, hist>>

\* --combine, --count-unique, --count-unique-all, --common, --compare,
\* --compare-first: only the mode changes.
ModeArg ==
    /\ pc = "args"
    /\ \E m \in Modes \cap ChainModes : mode' = m
    /\ UNCHANGED <<root, second, read_second, pc, loop, hist>>

\* --except, --diff, --compare-next: an ipset must have been loaded before
\* ("An ipset is needed before ..."), then the files go to the second chain.
SeparatorArg ==
    /\ pc = "args"
    /\ \E m \in Modes \cap SeparatorModes :
           \/ root = <<>> /\ pc' = "exit" /\ ret' = 1
              /\ UNCHANGED <<mode, read_second>>
           \/ root # <<>> /\ mode' = m /\ read_second' = TRUE
              /\ UNCHANGED <<pc, ret>>
    /\ UNCHANGED <<root, second, i, j, acc, rows, hist>>

\* The end of the arguments: with no file given, stdin is loaded as the
\* root ("No ipsets to merge" if that fails); then the mode's check on the
\* chains (two sets in root for --common and the compare modes, a second
\* chain for --diff, --exclude-next and --compare-next), exit(1) when it
\* fails; otherwise the mode's first step, its loops at the chains' heads.
EndArgs ==
    LET Enough(r) ==
            CASE mode \in {"common", "compare", "compare_first"} -> Len(r) >= 2
              [] mode \in {"diff", "exclude", "compare_next"}     -> second # <<>>
              [] OTHER                                            -> TRUE
        FirstStep ==
            CASE mode = "common"  -> "common_start"
              [] mode = "exclude" -> "exclude_start"
              [] OTHER            -> mode
    IN
    /\ pc = "args"
    /\ \/ root # <<>> /\ UNCHANGED root
       \/ root = <<>> /\ \E f \in Files : root' = <<f>>
    /\ loadedRoot' = root' /\ loadedSecond' = second
    /\ IF Enough(root')
       THEN /\ pc' = FirstStep
            /\ i' = 1 /\ j' = 1
            /\ UNCHANGED ret
       ELSE /\ pc' = "exit" /\ ret' = 1
            /\ UNCHANGED <<i, j>>
    /\ UNCHANGED <<second, read_second, mode, acc, rows>>

\* stdin cannot be read as an ipset: "No ipsets to merge", exit(1).
StdinFails ==
    /\ pc = "args" /\ root = <<>>
    /\ pc' = "exit" /\ ret' = 1
    /\ UNCHANGED <<args, i, j, acc, rows, hist>>

-----------------------------------------------------------------------------
(* The modes.                                                              *)

\* A chain with the set at position k optimized in place.
OptimizeAt(ch, k) == [ch EXCEPT ![k] = ipset_optimize(@)]

\* What a sweep reads as netaddrs[0] of an operand it has optimized.
Garbage(x) == Uninit(ipset_optimize(x))

\* for(ips = root->next; ips; ips = ips->next) ipset_merge(root, ips);
MergeChain(ch) == FoldLeft(ipset_merge, ch[1], Tail(ch))

\* MODE_COMBINE: merge the root chain; ipset_print optimizes it and prints.
Combine ==
    /\ pc = "combine"
    /\ root' = [root EXCEPT ![1] = ipset_optimize(MergeChain(root))]
    /\ acc' = root'[1]
    /\ pc' = "done"
    /\ UNCHANGED <<second, read_second, mode, i, j, rows, ret, hist>>

\* MODE_COUNT_UNIQUE_MERGED: merge the root chain, then print root->lines
\* and ipset_unique_ips(root), which optimizes root when the merge has
\* cleared its flag.  C leaves the order of printf's arguments open:
\* root->lines is read before or after the optimization.
CountUnique ==
    /\ pc = "count_unique"
    /\ LET m == MergeChain(root)
       IN  /\ root' = [root EXCEPT ![1] = ipset_optimize(m)]
           /\ \E lines \in {m.lines, root'[1].lines} :
                  rows' = <<[lines |-> lines, unique_ips |-> ipset_unique_ips(m)]>>
    /\ pc' = "done"
    /\ UNCHANGED <<second, read_second, mode, i, j, acc, ret, hist>>

\* MODE_COUNT_UNIQUE_ALL: ipset_optimize_all(root), then one row per set.
CountUniqueAll ==
    /\ pc = "count_unique_all"
    /\ root' = ipset_optimize_all(root)
    /\ rows' = [k \in DOMAIN root |->
                   [name |-> <<"root", k>>, lines |-> root'[k].lines,
                    unique_ips |-> root'[k].unique_ips]]
    /\ pc' = "done"
    /\ UNCHANGED <<second, read_second, mode, i, j, acc, ret, hist>>

\* Mutant: the exit status is the number of addresses that differ.
Diff_ret_count ==
    /\ pc = "diff"
    /\ LET a == MergeChain(root)
           b == MergeChain(second)
       IN  /\ \E g1 \in Garbage(a), g2 \in Garbage(b) : acc' = ipset_diff(a, b, g1, g2)
           /\ root' = [root EXCEPT ![1] = ipset_optimize(a)]
           /\ second' = [second EXCEPT ![1] = ipset_optimize(b)]
    /\ ret' = acc'.unique_ips
    /\ pc' = "done"
    /\ UNCHANGED <<read_second, mode, i, j, rows, hist>>

\* MODE_DIFF: merge each chain into its head, ipset_diff(root, second),
\* print it, and exit 1 iff the result has addresses.
Diff ==
    /\ pc = "diff"
    /\ LET a == MergeChain(root)
           b == MergeChain(second)
       IN  /\ \E g1 \in Garbage(a), g2 \in Garbage(b) : acc' = ipset_diff(a, b, g1, g2)
           /\ root' = [root EXCEPT ![1] = ipset_optimize(a)]
           /\ second' = [second EXCEPT ![1] = ipset_optimize(b)]
    /\ ret' = IF acc'.unique_ips # 0 THEN 1 ELSE 0
    /\ pc' = "done"
    /\ UNCHANGED <<read_second, mode, i, j, rows, hist>>

\* MODE_EXCLUDE_NEXT: merge the root chain; excluded = root;
\* root = root->next.
ExcludeStart ==
    /\ pc = "exclude_start"
    /\ acc' = MergeChain(root)
    /\ root' = Tail(root)
    /\ pc' = "exclude"
    /\ UNCHANGED <<second, read_second, mode, i, j, rows, ret, hist>>

\* tmp = ipset_exclude(excluded, ips); ipset_free(excluded); excluded = tmp;
\* for every set of the second chain.
ExcludeStep ==
    /\ pc = "exclude" /\ j <= Len(second)
    /\ \E g1 \in Garbage(acc), g2 \in Garbage(second[j]) :
           acc' = ipset_exclude(acc, second[j], g1, g2)
    /\ second' = OptimizeAt(second, j)
    /\ j' = j + 1
    /\ UNCHANGED <<root, read_second, mode, pc, i, rows, ret, hist>>

\* MODE_COMMON: common = ipset_common(root, root->next).
CommonStart ==
    /\ pc = "common_start"
    /\ \E g1 \in Garbage(root[1]), g2 \in Garbage(root[2]) :
           acc' = ipset_common(root[1], root[2], g1, g2)
    /\ root' = OptimizeAt(OptimizeAt(root, 1), 2)
    /\ i' = 3
    /\ pc' = "common"
    /\ UNCHANGED <<second, read_second, mode, j, rows, ret, hist>>

\* Mutant: every later file is intersected with root, not with the
\* common set so far.
CommonStep_from_root ==
    /\ pc = "common" /\ i <= Len(root)
    /\ \E g1 \in Garbage(root[1]), g2 \in Garbage(root[i]) :
           acc' = ipset_common(root[1], root[i], g1, g2)
    /\ root' = OptimizeAt(root, i)
    /\ i' = i + 1
    /\ UNCHANGED <<second, read_second, mode, pc, j, rows, ret, hist>>

\* ips2 = ipset_common(common, ips); ipset_free(common); common = ips2;
\* for root->next->next onwards.
CommonStep ==
    /\ pc = "common" /\ i <= Len(root)
    /\ \E g1 \in Garbage(acc), g2 \in Garbage(root[i]) :
           acc' = ipset_common(acc, root[i], g1, g2)
    /\ root' = OptimizeAt(root, i)
    /\ i' = i + 1
    /\ UNCHANGED <<second, read_second, mode, pc, j, rows, ret, hist>>

\* The end of the --common and --exclude-next loops: ipset_print, which
\* optimizes the result if its flag is clear, prints it.
PrintResult ==
    /\ \/ pc = "common" /\ i > Len(root)
       \/ pc = "exclude" /\ j > Len(second)
    /\ acc' = ipset_optimize(acc)
    /\ pc' = "done"
    /\ UNCHANGED <<root, second, read_second, mode, i, j, rows, ret, hist>>

\* ipset_common(x, y) (COMPARE_WITH_COMMON) and the counters of the row
\* printed after it, read from the operands it optimized in place:
\* entries, unique IPs of each, combined = ips1 + ips2 - common, common.
CompareCounts(x, y, g1, g2) ==
    LET a == ipset_optimize(x)
        b == ipset_optimize(y)
        c == ipset_common(x, y, g1, g2).unique_ips
    IN  [entries1 |-> a.lines, entries2 |-> b.lines,
         ips1 |-> a.unique_ips, ips2 |-> b.unique_ips,
         combined_ips |-> a.unique_ips + b.unique_ips - c, common_ips |-> c]

\* MODE_COMPARE: for(ips = root; ...) for(ips2 = ips; ...): skip
\* ips == ips2, otherwise print the row of the pair.
CompareStep ==
    /\ pc = "compare" /\ i <= Len(root) /\ j <= Len(root)
    /\ \/ i = j /\ UNCHANGED <<root, rows>>
       \/ i # j
          /\ \E g1 \in Garbage(root[i]), g2 \in Garbage(root[j]) :
                 rows' = Append(rows, [name1 |-> <<"root", i>>, name2 |-> <<"root", j>>]
                                      @@ CompareCounts(root[i], root[j], g1, g2))
          /\ root' = OptimizeAt(OptimizeAt(root, i), j)
    /\ j' = j + 1
    /\ UNCHANGED <<second, read_second, mode, pc, i, acc, ret, hist>>

\* MODE_COMPARE_NEXT: every set of root against every set of second.
CompareNextStep ==
    /\ pc = "compare_next" /\ i <= Len(root) /\ j <= Len(second)
    /\ \E g1 \in Garbage(root[i]), g2 \in Garbage(second[j]) :
           rows' = Append(rows, [name1 |-> <<"root", i>>, name2 |-> <<"second", j>>]
                                @@ CompareCounts(root[i], second[j], g1, g2))
    /\ root' = OptimizeAt(root, i)
    /\ second' = OptimizeAt(second, j)
    /\ j' = j + 1
    /\ UNCHANGED <<read_second, mode, pc, i, acc, ret, hist>>

\* The outer loops of --compare (the inner one restarts at ips2 = ips) and
\* --compare-next (at ips2 = second).
CompareOuter ==
    /\ i <= Len(root)
    /\ \/ pc = "compare" /\ j > Len(root) /\ j' = i + 1
       \/ pc = "compare_next" /\ j > Len(second) /\ j' = 1
    /\ i' = i + 1
    /\ UNCHANGED <<root, second, read_second, mode, pc, acc, rows, ret, hist>>

\* MODE_COMPARE_FIRST: every set but `first`, the file loaded first,
\* against it: name, entries, unique IPs and common IPs.
CompareFirstStep ==
    /\ pc = "compare_first" /\ i <= Len(root)
    /\ LET f == Len(root) IN
       \/ i = f /\ UNCHANGED <<root, rows>>
       \/ i # f
          /\ \E g1 \in Garbage(root[i]), g2 \in Garbage(root[f]) :
                 LET k == CompareCounts(root[i], root[f], g1, g2)
                 IN  rows' = Append(rows, [name |-> <<"root", i>>, entries |-> k.entries1,
                                           unique_ips |-> k.ips1, common_ips |-> k.common_ips])
          /\ root' = OptimizeAt(OptimizeAt(root, i), f)
    /\ i' = i + 1
    /\ UNCHANGED <<second, read_second, mode, pc, j, acc, ret, hist>>

\* The compare modes end when the outer loop has passed the root chain.
CompareEnd ==
    /\ pc \in {"compare", "compare_next", "compare_first"} /\ i > Len(root)
    /\ pc' = "done"
    /\ UNCHANGED <<root, second, read_second, mode, i, j, acc, rows, ret, hist>>

Next ==
    \/ FileArg \/ FileArgFails \/ ModeArg \/ SeparatorArg \/ EndArgs \/ StdinFails
    \/ Combine \/ CountUnique \/ CountUniqueAll \/ Diff
    \/ ExcludeStart \/ ExcludeStep \/ CommonStart \/ CommonStep \/ PrintResult
    \/ CompareStep \/ CompareNextStep \/ CompareOuter \/ CompareFirstStep \/ CompareEnd

Spec == Init /\ [][Next]_vars

-----------------------------------------------------------------------------

IPSetT == [netaddrs : Seq(NetAddr), lines : Nat, unique_ips : Nat, optimized : BOOLEAN]

TypeOK ==
    /\ root \in Seq(IPSetT) /\ second \in Seq(IPSetT) /\ acc \in IPSetT
    /\ read_second \in BOOLEAN
    /\ mode \in Modes \cup {"combine"}
    /\ pc \in {"args", "done", "exit", "common_start", "exclude_start"} \cup Modes
    /\ ret \in {0, 1}

\* What the files loaded stand for.
Addrs(f)     == AddrsOf(f.netaddrs)
UnionOf(ch)  == UNION {Addrs(ch[k]) : k \in DOMAIN ch}
InterOf(ch)  == {a \in Addr : \A k \in DOMAIN ch : a \in Addrs(ch[k])}
LinesOf(ch)  == FoldLeft(LAMBDA n, f : n + f.lines, 0, ch)

Expected ==
    CASE mode = "combine" -> UnionOf(loadedRoot)
      [] mode = "common"  -> InterOf(loadedRoot)
      [] mode = "exclude" -> UnionOf(loadedRoot) \ UnionOf(loadedSecond)
      [] mode = "diff"    -> (UnionOf(loadedRoot) \ UnionOf(loadedSecond))
                             \cup (UnionOf(loadedSecond) \ UnionOf(loadedRoot))

\* The set printed by --combine, --common, --exclude-next and --diff is the
\* union, intersection, difference or symmetric difference of all the
\* files of the chains, whatever their number: every intermediate result
\* of the --common and --exclude-next loops is fed back as an operand
\* without being optimized again, on the strength of its OPTIMIZED flag.
\* The lines of all files are kept, the results of --combine, --common and
\* --exclude-next are canonical, and --diff exits 1 iff the chains differ.
ChainResult ==
    pc = "done" /\ mode \in {"combine", "common", "exclude", "diff"} =>
        /\ AddrsOf(acc.netaddrs) = Expected
        /\ acc.lines = LinesOf(loadedRoot)
                       + (IF mode \in {"exclude", "diff"} THEN LinesOf(loadedSecond) ELSE 0)
        /\ mode # "diff" => IsCanonical(acc.netaddrs)
        /\ mode = "diff" => (ret = 1 <=> UnionOf(loadedRoot) # UnionOf(loadedSecond))

\* The row of --compare and --compare-next for two files.
PairRow(n1, f1, n2, f2) ==
    [name1 |-> n1, name2 |-> n2, entries1 |-> f1.lines, entries2 |-> f2.lines,
     ips1 |-> Cardinality(Addrs(f1)), ips2 |-> Cardinality(Addrs(f2)),
     combined_ips |-> Cardinality(Addrs(f1) \cup Addrs(f2)),
     common_ips |-> Cardinality(Addrs(f1) \cap Addrs(f2))]

ExpectedRows ==
    LET R == loadedRoot
        S == loadedSecond
    IN  CASE mode = "count_unique" ->
                 {[lines |-> LinesOf(R), unique_ips |-> Cardinality(UnionOf(R))]}
          [] mode = "count_unique_all" ->
                 {[name |-> <<"root", k>>, lines |-> R[k].lines,
                   unique_ips |-> Cardinality(Addrs(R[k]))] : k \in DOMAIN R}
          [] mode = "compare" ->
                 {PairRow(<<"root", a>>, R[a], <<"root", b>>, R[b]) :
                      <<a, b>> \in {p \in (DOMAIN R) \X (DOMAIN R) : p[1] < p[2]}}
          [] mode = "compare_next" ->
                 {PairRow(<<"root", a>>, R[a], <<"second", b>>, S[b]) :
                      <<a, b>> \in (DOMAIN R) \X (DOMAIN S)}
          [] mode = "compare_first" ->
                 {[name |-> <<"root", k>>, entries |-> R[k].lines,
                   unique_ips |-> Cardinality(Addrs(R[k])),
                   common_ips |-> Cardinality(Addrs(R[k]) \cap Addrs(R[Len(R)]))] :
                      k \in 1..(Len(R) - 1)}
          [] OTHER -> {}

\* The counting and compare modes print one row per file, per pair of
\* files (each unordered pair of the root chain once, never a file with
\* itself) or per file but the first loaded, and every count is the exact
\* number of addresses: the unique_ips they print is only right because
\* ipset_common, ipset_unique_ips or ipset_optimize_all optimized the set
\* in place just before, since appending out of order or merging leaves it
\* stale.
RowsExact ==
    pc = "done" => /\ Range(rows) = ExpectedRows
                   /\ Len(rows) = Cardinality(ExpectedRows)

=============================================================================
