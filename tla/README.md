# TLA+ models of iprange

This directory holds TLA+ specifications of `iprange` (the sources are in
`../src`). They are checked with the TLC model checker. Each module models one part
of the program from its C source. Each `.cfg` file is a TLC run over a small
instance. `PROJECT.json` records which definition models which source lines,
what each run checks, the mutants that show each property can fail, the
findings, and the hazards of the code.

## The system

`iprange` reads files of IPv4 addresses, ranges and hostnames into *ipsets*.
It combines them with set operations and prints the result as CIDR blocks,
ranges, single IPs or a binary snapshot. Its parts and how they interact:

| part | source | role |
|---|---|---|
| ipset | `ipset.h`, `ipset.c` | An array of `[addr, broadcast]` entries with `lines`, `unique_ips` and the OPTIMIZED flag. `ipset_add_ip_range` appends and, while the flag is set, keeps the array canonical on a fast path. |
| address arithmetic | `iprange.h` | `network`, `broadcast`, `netmask`, `set_bit` and `str2netaddr`. |
| optimizer | `ipset_optimize.c` | `qsort` by `compar_netaddr`, a coalescing sweep, recomputing `unique_ips`, setting the flag. |
| text loader | `ipset_load.c` (`ipset_load`) | Reads lines and appends ranges. It hands hostnames to the DNS pool and hands binary files to the codec. |
| DNS pool | `ipset_load.c` (`dns_*`) | The main thread queues requests. Up to `dns_threads_max` detached workers resolve them and push replies. Only the main thread drains the replies into the ipset. `dns_done` waits for all requests. |
| binary codec | `ipset_binary.c` | `--print-binary` snapshot: text header, endianness mark, raw records. |
| merge / combine / copy | `ipset_merge.c`, `ipset_combine.c`, `ipset_copy.c` | Concatenation of entries, not optimized. |
| set algebra | `ipset_common.c`, `ipset_diff.c`, `ipset_exclude.c` | Merge sweeps over two optimized operands. |
| printer | `ipset_print.c` | Optimizes if the flag is clear, then prints. The CIDR form uses `split_range`, which honours `prefix_enabled[]`. |
| reducer | `ipset_reduce.c` | `--ipset-reduce`: disables prefixes to trade more printed blocks for fewer distinct prefixes. |
| main | `iprange.c` | Builds the chain of loaded files, then runs one mode on them and exits. |

Only the DNS pool is concurrent. Everything else runs in the main thread,
in the order `main()` calls it. The only persistent state is a binary
snapshot written by one run and read by another.

## Modules

The modules are listed from the bottom up. `EXTENDS` builds the helpers into
each other. `INSTANCE` composes components and maps refinements.

- **`IPSet`** holds the ipset as a record `[netaddrs, lines, unique_ips,
  optimized]`, with addresses of `W` bits. Address arithmetic wraps modulo
  `2^W`, as `in_addr_t` wraps modulo `2^32`. It defines the pure operators
  `str2netaddr`, `ipset_add_ip_range` (the whole of `ipset_added_entry`,
  counters, fast path and flag included), `ipset_optimize` (`SortSeq` by
  `compar_netaddr`, then the recursive `OptimizeSweep`, with the reset and
  restore of `lines` and the early return of an empty set), `ipset_merge`
  and `ipset_combine`.
- **`IPSetLoad`** models one text file being loaded.
  - Its state is `ips`, `phase` and the history variables `linesRead` and
    `loaded`.
  - It has one action per `case` of `ipset_load`'s switch that changes the
    set (`LineHas1Ip`, `LineHas2Ips`), plus `EndOfFile`.
  - `Optimize` is what every consumer of a set with a clear flag does first.
  - Tokens come from a constant set of `<<ip, prefix>>` pairs; the text
    that gives them is `LineParser`'s.
- **`IPSetAlgebra`** defines `ipset_common`, `ipset_diff` and
  `ipset_exclude` as recursive sweeps over a register record
  `[i1, i2, lo1, hi1, lo2, hi2, out]`. Each is translated branch for branch,
  trailing loops and result counters included. Before checking `entries`,
  the code reads `netaddrs[0]` of each operand. For an empty operand that
  read is uninitialized memory, so the operator takes the value read as an
  argument, which the caller chooses freely from `NetAddr` (`Uninit`).
- **`SetOperations`** composes two loaders, `A` and `B`, as
  `INSTANCE IPSetLoad WITH ...`, in the order `main()` loads files. It then
  runs one mode:
  - `--combine`: `ipset_merge(root=B, A)`, followed by the print's
    optimize;
  - `--common`: `ipset_common(root=B, A)`;
  - `--diff`: `ipset_diff(A, B)`;
  - `--exclude-next`: `ipset_exclude(A, B)`.

  The operators optimize their operands in place, so `a` and `b` change as
  well.
- **`FileChains`** models `main()` over chains of files, as they are
  built from the command line. Its state is the two chains `root` and
  `second` (sequences, head first, because `main()` prepends each file, so
  `root[Len(root)]` is the file loaded first), `read_second`, `mode`, the
  position `pc`, the loop indexes `i` and `j`, the running result `acc`, the
  printed `rows` and the exit status `ret`.
  - The argument loop is one action per argument: `FileArg` (a file loaded
    onto `root`, or onto `second` after a separator), `FileArgFails`
    (`Cannot load ipset`, exit 1), `ModeArg` and `SeparatorArg` (`--diff`,
    `--exclude-next`, `--compare-next`, exit 1 with no file before them).
    `EndArgs` is the stdin fallback and each mode's "two ipsets at least"
    check; `StdinFails` is `No ipsets to merge`.
  - Each mode's loop runs one iteration per action: `CommonStep` and
    `ExcludeStep` fold the chain into `acc`; `CompareStep`,
    `CompareNextStep` and `CompareFirstStep` print one row per pair, with
    `CompareOuter` advancing the outer loop. The merge loops are folded into
    `MergeChain`, since `ipset_merge` has no early exit.
  - `--count-unique` prints `root->lines` and `ipset_unique_ips(root)` as
    `printf` arguments, whose evaluation order C leaves unspecified:
    `ipset_unique_ips` may optimize `root` (changing `lines`) before or
    after `lines` is read, so both outcomes are allowed.
  - The compare modes are modelled as built with `COMPARE_WITH_COMMON`,
    the only build that compiles: the `#else` branch of `--compare` names
    an undeclared `compips` (`iprange.c:671`).
- **`IPSetPrint`** defines `split_range` (RECURSIVE, including the
  reversed-range swap, the out-of-range and invalid-prefix returns, and the
  recursion past the last prefix) and `PrintCIDR`. It also defines
  `ipset_reduce`, with its counting pass, the disabling of unused prefixes,
  `acceptable`, and the greedy loop `ReduceLoop` with `Candidates`,
  `Cheapest` and `NextTo`. The other text formats are `PrintSingleIPs`
  (the too-big check and the `x >= start && x <= end` loop, as the
  recursive `AddrsFrom`) and `PrintRanges` (`print_addr_range`'s swap).
- **`PrintMode`** models the tail of `--combine` and `--ipset-reduce` as a
  composition of the printer and the binary codec: `Reduce`, then
  `PrintSet`, which is the whole of `ipset_print` (optimize, then the switch
  on the print format). `prefix_enabled` and the print format are taken
  from any choice the command line can make. After `--print-binary`, the
  environment can cut the snapshot short (`Truncate`: a writer stopped
  part way) or hand it to a host of the other byte order (`OtherHost`)
  before a later run loads it (`LoadSet`).
- **`DNSResolver`** models the DNS thread pool. Its state is:
  - the shared stacks `requests` and `replies`;
  - the counters `pending` and `made`, and `dns_threads`;
  - the main thread's position `mpc`;
  - for each worker `t`: its position `wpc[t]`, the request it holds
    `wreq[t]` and the addresses it has not yet pushed `wleft[t]`;
  - the history variables `attempts`, `finished` and `resolved`.

  Each action is one critical section, or one step of one thread between
  two uses of shared state. The main thread's actions are `dns_request`
  (drain, push, count, maybe create a worker), `dns_signal_threads` and the
  `dns_done` loop. The workers' actions are `dns_request_get`,
  `dns_thread_wait`, `getaddrinfo` (success, EAI_AGAIN with retry, or
  failure), `push_reply` and `resolve_done`.
  - A worker blocked in `pthread_cond_wait` is `"waiting"` and stays
    disabled until it is signalled.
  - A `pthread_create` that may fail is a constant (`CreateMayFail`).
  - The unlocked reads of `dns_requests`, `dns_replies` and
    `dns_requests_pending` are data races. They are modelled as reading the
    latest value.
- **`DNSBatch`** is the contract the comment of `dns_request()` states
  for its caller: names are requested, addresses are added to the ipset
  only by the caller's calls, only from names that were answered, and
  never removed; every lookup ends once; `dns_done()` returns with every
  answered address in the ipset. `DNSResolver` instantiates it with the
  mapping `read <- line - 1`, `answered <- resolved`,
  `closed <- finished`, `have <- AddrsOf(ips.netaddrs)`,
  `returned <- (mpc = "returned")`: worker steps other than a successful
  or a final `getaddrinfo` and `resolve_done` are stuttering steps.
- **`BinaryCodec`** defines the binary format as operators, which
  `PrintMode` uses. `ipset_save_binary_v10` produces a file record.
  `HeaderOK` holds every header check of `ipset_load_binary_v10`, in
  order. `LoadFile` is `ipset_load` handing a file to the codec, or
  reading an empty file.
- **`AddrParse`** models `str2netaddr` of `iprange.h` in C arithmetic, with
  `Bits`-bit addresses and `int`.
  - `netmask` computes `~((1 << (32 - prefix)) - 1)` in signed `int`, with
    the two's-complement wrap of `1 << 31` and `INT_MIN - 1`, then converts
    it to `in_addr_t`. Prefix 0 is its own case.
  - The text after `/` is described by its two conversions: the value
    `atoi()` returns, and the address `inet_aton()` returns (or `NoAddr`).
    The recursive `StripOnes` is the netmask loop.
  - The state machine takes one token (an address, a text, `-p` and
    `--dont-fix-network`) and makes one `Parse` step.
- **`LineParser`** models the text side of `ipset_load`: the `fgets` read
  loop and `parse_line` with its `parse_hostname` fallback.
  - A character is one of ten classes the scanners tell apart (digit, `.`,
    `/`, `-`, letter, blank, comment mark, `\r`, `\n`, other). Reading
    past the end gives the buffer's `'\0'`.
  - `SkipBlanks` and `Scan` are the `while` loops of the C code, `Scan`
    with its `MAX_INPUT_ELEMENT` bound (`TokLen`). `parse_line` is the
    order of the C code's early returns, as one `CASE`.
  - `fgets` returns the characters up to the next newline, at most
    `MAX_LINE - 1` of them (`MaxLine`).
  - The state is the file, the read position, `lineid`, and the history of
    buffers and their results. `ReadLine` is one turn of the `do` loop and
    `EndOfText` is `fgets` returning NULL.
  - `Grammar` is the reference: the documented line forms, read from the
    trimmed text before the comment. `Runs` gives the maximal runs of
    address characters of a buffer.
- **`InputParsing`** extends `AddrParse` and `LineParser` (whose `Init`,
  `Next` and `Spec` are named `ParseInit`, `LoadInit` and so on) and joins them as the two
  conversions of the loader's input. A behaviour is a call of `str2netaddr`
  or an `ipset_load` read, chosen by `call` in `Init`.

The `MC_*` modules fix the constants for TLC.

## Runs

All runs use `CHECK_DEADLOCK FALSE`, because each model ends in a final
state:
- the mode has run and `main()` exits;
- the file is printed;
- the round trip has loaded the file;
- `str2netaddr` has returned;
- `dns_done` has returned, while the detached workers stay blocked in
  `pthread_cond_wait`. Liveness is checked by `DoneReturns` instead.

| run | expect | checks | what it shows |
|---|---|---|---|
| `load` | pass | `TypeOK`, `FlaggedIsCanonical`, `AddressesKept`, `CountersExact` | Module `MC_IPSetLoad`. Lines in any order keep the flag honest and keep every address. The counters are exact, through the reset and restore of `lines` inside `ipset_optimize`. |
| `load_wrap_top` | violation | `FlaggedIsCanonical` | A line with the top address followed by one with address 0 is merged through the `broadcast + 1` wrap into a reversed entry, and the flag stays set. |
| `load_full_space` | violation | `CountersExact` | `0.0.0.0/0` adds 0 to `unique_ips`. |
| `algebra` | pass | `TypeOK`, `AlgebraCorrect`, `ResultOrdered`, `ResultCounters`, `ResultCanonical` | Each of the four modes gives the union, intersection, symmetric difference or difference of the two files' addresses, for any garbage in `netaddrs[0]`. The result is ordered with exact counters. (`--diff`'s exit status is checked by `ChainResult` in `chains`.) `--combine`, `--common` and `--exclude-next` return canonical sets. |
| `diff_adjacent` | violation | `DiffCanonical` | `--diff` flags a result with touching ranges as OPTIMIZED. |
| `parse` | pass | `PrefixFormsAgree`, `BadPrefixRejected`, `ParseMatchesGrammar`, `AddressTokensWhole` | Module `MC_InputParsing`. For every prefix length, `ip/p`, `ip/<dotted netmask>` and a bare `ip` under `-p p` give the aligned block. This holds through the signed shifts at prefix 1 and at the full prefix, the prefix-0 case and the netmask loop. With `--dont-fix-network` the entry starts at the address itself. An empty text, a number past 32, an octet past 255 and a mask with a gap or a stray bit each count an error. `parse_line` classifies every well-formed line of the grammar (empty, comment, `ip`, `ip -`, `ip - ip`, hostname, with blanks, `\r` and comments) with exactly its tokens. On every buffer, malformed ones included, each token returned as an address is a whole run of address characters: a run longer than `MAX_INPUT_ELEMENT` is never cut into an address, because the character after the cut sends the line to `parse_hostname`. |
| `print` | pass | `TypeOK`, `PrintedPartition`, `PrintedMinimal`, `ReduceEstimate`, `PrintedExact`, `RoundTripSet` | In `--combine` and `--ipset-reduce`, for every `prefix_enabled` the command line allows, the printed blocks partition the set exactly. Without reduction their number equals the minimum that a recursive greedy reference (`MinBlocks` over the set's maximal runs) computes. After `ipset_reduce` nothing is lost, even with the last prefix disabled, and the number of printed blocks is the reducer's total, within `acceptable`. `--print-single-ips` lists every address once, in ascending order, except the ranges too big to list. `--print-ranges` lists the set as canonical ranges. A `--print-binary` snapshot loads back to the same entries, the same `unique_ips` and an honest flag, and a truncated file or one of the other byte order is refused. |
| `chains` | pass | `TypeOK`, `ChainResult`, `RowsExact` | For chains of up to three files in every mode, the printed set is the union, intersection or difference of the files' addresses with lines summed over the chain, canonical except for `--diff`, whose exit status says whether the unions differ. Every row of `--count-unique`, `--count-unique-all` and the three compare modes carries the exact counts of the files it names, each pair exactly once, and `--compare-first` compares every other file with the one loaded first. |
| `dns` | pass | `TypeOK`, `RequestAccounting`, `ResolvedOnReturn`, `DoneReturns`, `ImplementsDNSBatch` | Every request is in exactly one place, and `pending` counts the unfinished ones. When `dns_done` returns, the ipset holds exactly the addresses of the resolved names. `dns_done` does return. The pool refines `DNSBatch`, fairness included: the ipset only grows, only by answered names' addresses, and only in the main thread's calls. |
| `dns_retry_budget` | violation | `AttemptsWithinBudget` | EAI_AGAIN is retried `Tries + 1` times. |
| `dns_spawn_failure` | violation | `DoneReturns` | A failed `pthread_create` with no worker alive leaves `dns_done` looping forever. |
| `binary_lines` | violation | `RoundTripLines` | A round trip replaces `lines` by the number of entries. |

Every property of a passing run has a mutant in `PROJECT.json`: a plausible
bug in the mapped definition (a dropped guard, an off-by-one, a missing reset
or drain) that makes TLC report the property violated.

### Bounds

- **Loader and algebra.** Addresses have 3 bits (8 addresses, so every
  prefix length from 0 to 3 occurs). There are up to 3 lines (`load`) or 2
  lines per file (`algebra`), each line any `ip/prefix` or `ip - ip`
  token. This is enough for nested, overlapping, touching, disjoint,
  out-of-order and duplicate ranges, the top address, and an empty operand.
  The passing runs leave out tokens whose range starts at address 0, because
  the two wrap-arounds at 0 are violations of their own (`load_wrap_top`,
  `load_full_space`). The finding of `load_full_space` covers what that does
  to `--diff`.
- **Printer and reducer.** Addresses have 3 bits, so there are four
  prefix lengths and split_range recurses three levels; one run covers both
  `--combine` and `--ipset-reduce`, since each initial state runs the whole
  reduction. Input sets are every set that up to two loaded ranges produce.
  Prefix choices cover no option, every `--min-prefix` and every
  `--prefixes` list. The reducer uses four `(factor, min_accepted)` pairs, which cover
  stopping at once, stopping part way, eliminating a prefix, and disabling
  the last prefix.
- **Chains.** Addresses have 3 bits. There are four files: two ordered
  ones, one loaded out of order (so it is not flagged optimized and its
  `lines` and counters change when it is first optimized), and an empty one;
  up to three files in all on the command line. That gives `--common`
  chains of three (a result fed back as an operand), compare modes with
  three pairs, a `second` chain of two, repeated files, and an empty operand.
- **DNS.** There are three hostnames (one with one address, one with two,
  one sharing an address with another), two workers, and one retry per
  request. This gives more requests than workers, one worker created lazily
  on the second request, a request re-queued while the other worker waits,
  and replies pushed while the main thread drains.
- **Print formats.** The `print` run takes every format. The single-IP
  limit is 2 at 3 bits, which stands for `256*256*256` at 32 bits. A range
  of three addresses (`end - start` = 2) sits on the boundary, and a range
  of four is dropped. `binary_lines` uses `--print-binary` alone, on sets of
  up to three lines.
- **Parsing.** `AddrParse` runs at 24 bits (TLC's integers stop below
  2^32). Three whole octets keep what matters about 32 bits: the leading
  octet of every non-zero netmask (128 or more) is past every prefix
  length, so `atoi()` never takes a netmask for a prefix length, and the
  shift at prefix 1 overflows `int` of the same width. The addresses are 0,
  the top address, one with the top bit set, and one with bits in every
  octet. The texts are both forms of every prefix length 0..24 and seven
  bad texts. `-p` ranges over 0..24.
- **Line reading.** `LineParser` runs with `TokLen` = 2 and `MaxLine` = 5
  on every line of up to four characters over the nine classes other than
  the newline, with and without a final newline (about 14,800 files), and on
  two-line files whose first line is a comment, an incomplete range or
  empty. The comment line `#000` and its newline are one character too
  long for the buffer, so its tail is read as a line of its own. Two-character tokens reach the scanners' bound: a token of exactly
  `TokLen` is still an address, and a third character ends the scan. A
  line of three characters and its newline fills the buffer (`MaxLine - 1`
  = 4) exactly, and a line of four and its newline is split, so both sides
  of the `fgets` boundary occur.

### Fairness

`DNSResolver` assumes weak fairness of the main thread and of each worker.
A thread that stays able to run is eventually scheduled. This is the
guarantee of a POSIX scheduler for runnable threads. A worker blocked in
`pthread_cond_wait` is not runnable, so fairness does not wake it. Only a
`dns_signal_threads` step does that: `dns_request`'s signal, or
`dns_done`'s re-signal on each loop turn. `DNSBatch` asks weak fairness
of `Return` and of closing each requested name; `ImplementsDNSBatch`
checks that the pool's own fairness delivers both. The other models need no
fairness, since they check only safety.

## Not modelled, and why

- **Text conversion.** The character-level reading of `inet_aton`,
  `ip2str_r` and the print prefixes and suffixes: the models take the
  values these produce. `LineParser` reads characters only by class, so
  the tokens it copies are not converted further; the results of
  `parse_line` reach `IPSetLoad` and `DNSResolver` as their token sets. `AddrParse` describes a prefix text by
  what `atoi()` and `inet_aton()` make of it.
- **Memory management.** `ipset_grow`, `ipset_free` and allocation
  failures, which end the process.
- **Thread creation.** The failure of `pthread_detach`, which would leave a
  running worker that is not counted.
- **`ipset_copy` and the `#else` compare branch.** `ipset_copy` is used
  only by `ipset_combine` in the compare modes built without
  `COMPARE_WITH_COMMON`, a build that does not compile.
- **Text-only options.** `as` names, `--header`, `--quiet`, the print
  prefixes and suffixes, `-v`: they change only the text printed.
- **Undefined shifts.** The signed shift in `netmask` and `set_bit` is
  undefined for prefix 1 and past prefix 32. `AddrParse` uses the values a
  two's-complement build produces. `split_range` returns in every branch
  past prefix 32, whatever `set_bit` yields. A `-p` outside 0..32 is not
  modelled, because its shift has no defined result (see the notes below).
- **Histograms.** `ipset_histogram` writes files and is disabled in
  `main()`.

## Notes on the specification and the code

- `spec.md` describes loading a chain as tolerant of a file that cannot be
  read. `main()` exits with status 1 on the first file `ipset_load`
  refuses (`iprange.c:546`); `FileChains` models the code (`FileArgFails`).
- `str2netaddr` reads the text after `/` with `atoi()` first. Any text
  whose leading number is at most 32 is taken as that prefix length,
  whatever follows it. `1.2.3.4/0.255.255.255` is the whole address space,
  and `1.2.3.4/1..2` is `/1`. Neither the code nor `spec.md` says what such
  a text should give, so no property states it.
- `-p` is read with `atoi()` and never range-checked (`iprange.c:395`). A
  value outside 0..32 makes `netmask()` shift by an undefined amount.
- A DNS worker parses each resolved address with `str2netaddr` and keeps
  `net.addr` (`ipset_load.c:432`). Under `-p` below 32, that is the network
  address of the resolved IP, not the IP. `PrefixFormsAgree` pins the block
  a bare address gives under `-p`.

- `parse_line` never returns `LINE_IS_INVALID`: any text it does not
  recognise is re-read by `parse_hostname` (`ipset_load.c:83`, `101`).
  `10.0.0.0/24 x` becomes a request for the hostname `10.0.0.0`, since
  hostname characters exclude `/`. The resolver turns the numeric name into
  that single address. `spec.md` (section 6) says a malformed line is
  reported and does not change the set. Here it adds an address, and the
  `case LINE_IS_INVALID` of `ipset_load` (`ipset_load.c:640`) is dead
  code. `Grammar` leaves such lines unclassified, so
  `ParseMatchesGrammar` does not judge them.
- `fgets(line, MAX_LINE, fp)` splits a line longer than 1023 characters
  (`ipset_load.c:686`). Each piece is parsed as a line, so the tail of a
  long comment can add addresses or hostnames, and `lineid` counts pieces.
  An address that straddles the cut can be read as two shorter addresses.
  No passing property can say otherwise, and with every run slot in use
  there is no violation run for it. In the `parse` run the lines are at
  most four characters, so the split happens only at a line's newline
  (a four-character line and its newline take two reads).
- A token longer than `MAX_INPUT_ELEMENT` (255) is cut by the scanner.
  The character after the cut is not a stop, so the line falls back to a
  hostname of its first 255 characters (`ipset_load.c:80-83`).
  `AddressTokensWhole` checks the part that matters for addresses: a cut
  token is never returned as an address.

## Plan for later work

1. **Loader composition.** Feed `LineParser`'s results into `IPSetLoad`
   and `DNSResolver` in one module, once the token sets are small enough
   for the product state space.
2. **Per-file reports.** `ipset_print`'s debug breakdown and
   `--count-unique-all` rows over more files.
