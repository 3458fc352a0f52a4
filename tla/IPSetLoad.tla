------------------------------ MODULE IPSetLoad ------------------------------
(***************************************************************************)
(* Loading one text file into an ipset (ipset_load) and optimizing it      *)
(* afterwards, as every consumer of a loaded set does (ipset_print,        *)
(* ipset_common, ipset_diff, ipset_exclude, ipset_unique_ips).             *)
(*                                                                         *)
(* ipset_load creates the set and sets its OPTIMIZED flag before the first *)
(* line, so lines that arrive in ascending order are kept in canonical     *)
(* form by the fast path of ipset_added_entry and the set never needs a    *)
(* sort.  Each line carries one or two address tokens "ip/prefix"; the     *)
(* tokenizer (parse_line) is not modelled, only what it returns.  Lines    *)
(* that fail to parse, blank lines and comments change no state.           *)
(* Hostname lines are the DNS subsystem's business (DNSResolver).          *)
(***************************************************************************)
EXTENDS IPSet

CONSTANTS
    Tokens,          \* the address tokens <<ip, prefix>> lines may carry
    UseNetwork,      \* cidr_use_network (FALSE with --dont-fix-network)
    MaxLines         \* bound on the number of lines carrying addresses

ASSUME /\ Tokens \subseteq Addr \X (0..W)
       /\ UseNetwork \in BOOLEAN
       /\ MaxLines \in Nat

VARIABLES
    ips,        \* the ipset being loaded
    phase,      \* "loading" until end of file, then "loaded"
    linesRead,  \* history: lines whose addresses were appended
    loaded      \* history: the addresses those lines named

vars == <<ips, phase, linesRead, loaded>>

\* The entry a token parses to.
Tok(t) == str2netaddr(t[1], t[2], UseNetwork)

\* A LINE_HAS_2_IPS line "a - b": from the lower address to the higher
\* broadcast of the two tokens.
TwoIps(t1, t2) ==
    LET n1 == Tok(t1)
        n2 == Tok(t2)
    IN  na(IF n1.addr < n2.addr THEN n1.addr ELSE n2.addr,
           IF n1.broadcast > n2.broadcast THEN n1.broadcast ELSE n2.broadcast)

OneIpEntries  == {Tok(t) : t \in Tokens}
TwoIpsEntries == {TwoIps(t1, t2) : t1, t2 \in Tokens}

-----------------------------------------------------------------------------

\* ipset_load(): ipset_create(), then the flag is set before the first line.
Init ==
    /\ ips = [ipset_create EXCEPT !.optimized = TRUE]
    /\ phase = "loading"
    /\ linesRead = 0
    /\ loaded = {}

AddLine(e) ==
    /\ ips' = ipset_add_ip_range(ips, e.addr, e.broadcast)
    /\ linesRead' = linesRead + 1
    /\ loaded' = loaded \cup (e.addr..e.broadcast)
    /\ UNCHANGED phase

\* case LINE_HAS_1_IP: ipset_add_ipstr() parses the token with str2netaddr
\* and appends it through ipset_added_entry.
LineHas1Ip ==
    /\ phase = "loading"
    /\ linesRead < MaxLines
    /\ \E e \in OneIpEntries : AddLine(e)

\* case LINE_HAS_2_IPS: both tokens parsed, the covering range appended.
LineHas2Ips ==
    /\ phase = "loading"
    /\ linesRead < MaxLines
    /\ \E e \in TwoIpsEntries : AddLine(e)

\* fgets() returns NULL: the file is closed; with no hostname lines
\* dns_done() returns at once.
EndOfFile ==
    /\ phase = "loading"
    /\ phase' = "loaded"
    /\ UNCHANGED <<ips, linesRead, loaded>>

\* A consumer of the loaded set finds the flag clear and calls
\* ipset_optimize().
Optimize ==
    /\ phase = "loaded"
    /\ ~ips.optimized
    /\ ips' = ipset_optimize(ips)
    /\ UNCHANGED <<phase, linesRead, loaded>>

Next == LineHas1Ip \/ LineHas2Ips \/ EndOfFile \/ Optimize

Spec == Init /\ [][Next]_vars

-----------------------------------------------------------------------------

TypeOK ==
    /\ ips.netaddrs \in Seq(NetAddr)
    /\ ips.lines \in Nat /\ ips.unique_ips \in Nat
    /\ ips.optimized \in BOOLEAN
    /\ phase \in {"loading", "loaded"}
    /\ linesRead \in 0..MaxLines
    /\ loaded \subseteq Addr

\* Whenever the OPTIMIZED flag is set, on the fast path of
\* ipset_added_entry during the load or after ipset_optimize, the entries
\* are in canonical form: every later algebra sweep and the printer rely on
\* it without checking.
FlaggedIsCanonical == ips.optimized => IsCanonical(ips.netaddrs)

\* The set stands for exactly the addresses of the lines read: neither the
\* in-place extension of the last entry nor the optimizer's skip, extend
\* and flush ever drops or invents an address.
AddressesKept == AddrsOf(ips.netaddrs) = loaded

\* lines counts the lines read, across the reset and restore inside
\* ipset_optimize; and whenever the set is optimized, unique_ips is the
\* number of distinct addresses (what --count-unique prints and what the
\* diff exit status is decided on).
CountersExact ==
    /\ ips.lines = linesRead
    /\ ips.optimized => ips.unique_ips = Cardinality(loaded)

=============================================================================
