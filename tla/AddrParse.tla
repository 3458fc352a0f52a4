------------------------------- MODULE AddrParse -------------------------------
(***************************************************************************)
(* str2netaddr() of iprange.h: the netmask arithmetic in C int and        *)
(* in_addr_t, and the two forms of the text after '/': a prefix length,    *)
(* read by atoi(), or, when that is not in 0..32, a dotted netmask, read   *)
(* by inet_aton() and counted back to a prefix length by the shift loop.   *)
(*                                                                         *)
(* Addresses and int have Bits bits (32 in the code, both), a whole        *)
(* number of octets, so that the leading octet of a non-zero netmask (128  *)
(* or more) is past every prefix length, as at 32 bits.                    *)
(*                                                                         *)
(* An IP token of a line holds only digits, '.' and '/' (parse_line), so   *)
(* the text after '/' is a decimal number, a dotted quad or empty.  It is  *)
(* described by the two conversions the code applies to it: the value      *)
(* atoi() returns (the leading number) and the address inet_aton()         *)
(* returns, or NoAddr when inet_aton() refuses it.                         *)
(***************************************************************************)
EXTENDS Naturals, Integers, Bitwise

CONSTANT Bits    \* address and int width: 32 in the code

ASSUME Bits \in {16, 24, 32} /\ 128 > Bits

Span   == 2^Bits
NoAddr == -1

\* A token without '/'; a text after '/' is a record of its conversions.
NoSlash == [atoi |-> 0, aton |-> NoAddr, empty |-> FALSE, none |-> TRUE]

\* Signed int arithmetic of a two's-complement build: the signed overflow
\* of 1 << 31 and of INT_MIN - 1 wraps, which is what gcc and clang emit.
Int32(x) == ((x + 2^(Bits - 1)) % Span) - 2^(Bits - 1)
\* The conversion to in_addr_t and its complement.
U32(x)   == x % Span
Compl(x) == Span - 1 - x

\* Mutant: the prefix 0 case is dropped; 1 << 32 is then the x86 shift,
\* whose count is taken modulo 32.
netmask_no_zero(prefix) ==
    U32(-Int32(Int32(2^((Bits - prefix) % Bits)) - 1) - 1)

\* netmask(prefix): ~((1 << (32 - prefix)) - 1) in int, cast to in_addr_t;
\* prefix 0 is taken apart, as 1 << 32 is undefined.
netmask(prefix) ==
    IF prefix = 0 THEN Compl(U32(-1))
    ELSE U32(-Int32(Int32(2^(Bits - prefix)) - 1) - 1)

broadcast(a, prefix) == a | Compl(netmask(prefix))
network(a, prefix)   == a & netmask(prefix)

\* a_to_hl(): the host-order address, or 0 with one more error.
a_to_hl(t) == IF t.aton = NoAddr THEN [value |-> 0, err |-> 1]
                                 ELSE [value |-> t.aton, err |-> 0]

\* while(mask & 1) { mask >>= 1; prefix--; }
RECURSIVE StripOnes(_, _)
StripOnes(mask, prefix) ==
    IF mask % 2 = 1 THEN StripOnes(mask \div 2, prefix - 1)
                    ELSE [mask |-> mask, prefix |-> prefix]

\* The tail of str2netaddr: with cidr_use_network the address is moved to
\* its network address, and the broadcast is computed from it.
NetFrom(ip, prefix, err, useNetwork) ==
    LET a == IF useNetwork THEN network(ip, prefix) ELSE ip
    IN  [addr |-> a, broadcast |-> broadcast(a, prefix), err |-> err]

\* Mutant: a mask with bits left after the loop is not refused.
str2netaddr_any_mask(ip, t, defaultPrefix, useNetwork) ==
    IF t = NoSlash \/ (~t.empty /\ t.atoi \in 0..Bits)
    THEN NetFrom(ip, IF t = NoSlash THEN defaultPrefix ELSE t.atoi, 0, useNetwork)
    ELSE LET m == a_to_hl(t)
             s == StripOnes(Compl(m.value), Bits)
         IN  NetFrom(ip, s.prefix, m.err, useNetwork)

\* str2netaddr(ipstr) for the address ip that a_to_hl gives for the part
\* before '/': the prefix is default_prefix without a '/', atoi() of the
\* text when that is in 0..32 (errno stays 0 for a number of up to ten
\* digits), and otherwise the netmask form: an invalid netmask returns
\* 0.0.0.0-0.0.0.0 with one more error.
str2netaddr(ip, t, defaultPrefix, useNetwork) ==
    IF t = NoSlash \/ (~t.empty /\ t.atoi \in 0..Bits)
    THEN NetFrom(ip, IF t = NoSlash THEN defaultPrefix ELSE t.atoi, 0, useNetwork)
    ELSE LET m == a_to_hl(t)
             s == StripOnes(Compl(m.value), Bits)
         IN  IF s.mask # 0
             THEN [addr |-> 0, broadcast |-> 0, err |-> m.err + 1]
             ELSE NetFrom(ip, s.prefix, m.err, useNetwork)

-----------------------------------------------------------------------------
(* Prefix texts and the block they denote.                                 *)

\* "n" and "a.b.c.d": atoi() stops at the first '.', and inet_aton() reads
\* a single number as the whole address.
Decimal(n) == [atoi |-> n, aton |-> n, empty |-> FALSE]
Dotted(m)  == [atoi |-> m \div 2^(Bits - 8), aton |-> m, empty |-> FALSE]
EmptyText  == [atoi |-> 0, aton |-> NoAddr, empty |-> TRUE]

\* The netmask of p leading one bits, and the aligned block of 2^(Bits-p)
\* addresses around ip, in plain arithmetic.
MaskOf(p)    == Span - 2^(Bits - p)
Block(ip, p) == LET size == 2^(Bits - p)
                    base == ip - (ip % size)
                IN  [addr |-> base, broadcast |-> base + size - 1, err |-> 0]

\* Addresses at both ends of the space, one with its top bit set and one
\* with bits in every octet (1.2.3 in the low three).
SomeIPs == {0, 66051, 2^(Bits - 1) + 1, Span - 1}

\* Prefix texts whose leading number is no prefix length and that are no
\* netmask: "/" alone, a number past 32, an octet past 255, masks with a
\* gap or a stray low bit.
BadTexts == {EmptyText, Decimal(Bits + 1), Decimal(255),
             [atoi |-> 256, aton |-> NoAddr, empty |-> FALSE],
             Dotted(Span - 2^(Bits - 8) + 2^(Bits - 16) - 1),
             Dotted(Span - 255), Dotted(2^(Bits - 1) + 1)}

\* The two ways of writing each prefix length after '/'.
PrefixTexts(p) == {Decimal(p), Dotted(MaskOf(p))}

Texts == UNION {PrefixTexts(p) : p \in 0..Bits} \cup BadTexts \cup {NoSlash}

-----------------------------------------------------------------------------
(* One call of str2netaddr() on an IP token, under the -p and              *)
(* --dont-fix-network of the command line.                                  *)

VARIABLES
    ip,          \* the address before '/' (a_to_hl of it succeeds)
    text,        \* the text after '/', or NoSlash
    defprefix,   \* default_prefix (-p), a prefix length
    usenet,      \* cidr_use_network (cleared by --dont-fix-network)
    result       \* the network_addr_t returned and the errors counted

pvars == <<ip, text, defprefix, usenet, result>>

NoResult == [addr |-> NoAddr, broadcast |-> NoAddr, err |-> 0]

ParseInit ==
    /\ ip \in SomeIPs
    /\ text \in Texts
    /\ defprefix \in 0..Bits
    /\ usenet \in BOOLEAN
    /\ result = NoResult

Parse ==
    /\ result = NoResult
    /\ result' = str2netaddr(ip, text, defprefix, usenet)
    /\ UNCHANGED <<ip, text, defprefix, usenet>>

ParseSpec == ParseInit /\ [][Parse]_pvars

\* The entry a token of prefix length p stands for: the aligned block of
\* that length around ip, starting at ip itself under --dont-fix-network.
Expected(p) == IF usenet THEN Block(ip, p) ELSE [Block(ip, p) EXCEPT !.addr = ip]

\* For every prefix length 0..Bits, "ip/p", "ip/<its dotted netmask>" and a
\* bare "ip" under -p p all give the entry of that length: the signed int
\* shift of netmask() at prefix 1 (1 << 31 at 32 bits) and at the full
\* prefix, the special case of prefix 0, the netmask loop and the
\* broadcast of an unaligned address all agree with the arithmetic.
PrefixFormsAgree ==
    result # NoResult =>
        \A p \in 0..Bits :
            text \in PrefixTexts(p) \/ (text = NoSlash /\ defprefix = p)
                => result = Expected(p)

\* str2netaddr counts an error for each bad text, so ipset_load skips the
\* line ("Cannot understand line") instead of adding a block.
BadPrefixRejected ==
    result # NoResult /\ text \in BadTexts => result.err > 0

=============================================================================
