------------------------------ MODULE LineParser ------------------------------
(***************************************************************************)
(* The text side of ipset_load() (ipset_load.c): fgets() reads the file    *)
(* in pieces of at most MAX_LINE - 1 characters, each ending at a newline  *)
(* or where the buffer is full, and parse_line() classifies each piece and *)
(* copies out its address tokens, falling back to parse_hostname() for any *)
(* text it does not recognise.                                             *)
(*                                                                         *)
(* A character is abstracted to the class the scanners tell apart: a digit *)
(* "0", ".", "/", "-", a letter or '_' "a", a blank (space, tab) " ", a    *)
(* comment mark ('#', ';') "#", a carriage return "\r", a newline "\n",   *)
(* and any other character "x".  The scanners stop at '\r', '\n' and the  *)
(* '\0' that ends the buffer, read here past the last character; fgets()   *)
(* stops only at the newline.                                              *)
(***************************************************************************)
EXTENDS Naturals, Sequences

CONSTANTS
    TokLen,   \* MAX_INPUT_ELEMENT: the longest token copied (255)
    MaxLine   \* MAX_LINE, the size passed to fgets() (1024)

ASSUME TokLen \in Nat \ {0} /\ MaxLine \in Nat /\ MaxLine > 2

Chars    == {"0", ".", "/", "-", "a", " ", "#", "\r", "\n", "x"}
IpChars  == {"0", ".", "/"}
\* parse_hostname() takes digits, letters, '_', '-' and '.'; not '/'.
HostChars == {"0", ".", "a", "-"}
Stops    == {"#", "\r", "\n"}

\* *s: the character at k, the terminating '\0' past the end.
At(l, k) == IF k <= Len(l) THEN l[k] ELSE "\n"

\* while(*s == ' ' || *s == '\t') s++;
RECURSIVE SkipBlanks(_, _)
SkipBlanks(l, k) == IF At(l, k) = " " THEN SkipBlanks(l, k + 1) ELSE k

\* while(i < len && <*s in C>) ipstr[i++] = *s++;  the position it stops at.
RECURSIVE Scan(_, _, _, _)
Scan(l, k, C, i) == IF i < TokLen /\ At(l, k) \in C THEN Scan(l, k + 1, C, i + 1) ELSE k

\* The copied token from k up to the scanner's stop.
Token(l, k, C) == SubSeq(l, k, Scan(l, k, C, 0) - 1)

Result(kind, ip, ip2) == [kind |-> kind, ip |-> ip, ip2 |-> ip2]
Empty == Result("empty", <<>>, <<>>)

\* parse_hostname(): the first word of host characters after the blanks;
\* whatever follows it is ignored (with a warning unless it is a comment).
parse_hostname(l) == Result("hostname", Token(l, SkipBlanks(l, 1), HostChars), <<>>)

\* Mutant: text after the first token other than '-' is ignored, as the
\* commented-out "return LINE_HAS_1_IP;" after the '-' test would do.
parse_line_1ip_on_text(l) ==
    LET k0 == SkipBlanks(l, 1)
        k1 == Scan(l, k0, IpChars, 0)
        k2 == SkipBlanks(l, k1)
        k3 == SkipBlanks(l, k2 + 1)
        k4 == Scan(l, k3, IpChars, 0)
        ip == SubSeq(l, k0, k1 - 1)
    IN  CASE At(l, k0) \in Stops                -> Empty
          [] k1 = k0                            -> parse_hostname(l)
          [] At(l, k2) \in Stops                -> Result("1ip", ip, <<>>)
          [] At(l, k2) # "-"                    -> Result("1ip", ip, <<>>)
          [] At(l, k3) \in Stops                -> Result("1ip", ip, <<>>)
          [] k4 = k3                            -> parse_hostname(l)
          [] At(l, SkipBlanks(l, k4)) \in Stops -> Result("2ips", ip, SubSeq(l, k3, k4 - 1))
          [] OTHER                              -> parse_hostname(l)

\* Mutant: "ip -" with nothing after the '-' falls back to a hostname.
parse_line_no_incomplete(l) ==
    LET k0 == SkipBlanks(l, 1)
        k1 == Scan(l, k0, IpChars, 0)
        k2 == SkipBlanks(l, k1)
        k3 == SkipBlanks(l, k2 + 1)
        k4 == Scan(l, k3, IpChars, 0)
        ip == SubSeq(l, k0, k1 - 1)
    IN  CASE At(l, k0) \in Stops                -> Empty
          [] k1 = k0                            -> parse_hostname(l)
          [] At(l, k2) \in Stops                -> Result("1ip", ip, <<>>)
          [] At(l, k2) # "-"                    -> parse_hostname(l)
          [] k4 = k3                            -> parse_hostname(l)
          [] At(l, SkipBlanks(l, k4)) \in Stops -> Result("2ips", ip, SubSeq(l, k3, k4 - 1))
          [] OTHER                              -> parse_hostname(l)

\* parse_line(): blank and comment lines are empty; an address token, then
\* optionally '-' and a second one, each followed only by blanks and a
\* comment or the end; "ip -" with nothing after the '-' is one address
\* (with a warning); anything else is re-read as a hostname.
parse_line(l) ==
    LET k0 == SkipBlanks(l, 1)
        k1 == Scan(l, k0, IpChars, 0)
        k2 == SkipBlanks(l, k1)
        k3 == SkipBlanks(l, k2 + 1)
        k4 == Scan(l, k3, IpChars, 0)
        ip == SubSeq(l, k0, k1 - 1)
    IN  CASE At(l, k0) \in Stops                -> Empty
          [] k1 = k0                            -> parse_hostname(l)
          [] At(l, k2) \in Stops                -> Result("1ip", ip, <<>>)
          [] At(l, k2) # "-"                    -> parse_hostname(l)
          [] At(l, k3) \in Stops                -> Result("1ip", ip, <<>>)
          [] k4 = k3                            -> parse_hostname(l)
          [] At(l, SkipBlanks(l, k4)) \in Stops -> Result("2ips", ip, SubSeq(l, k3, k4 - 1))
          [] OTHER                              -> parse_hostname(l)

\* fgets(line, MAX_LINE, fp) at file position p: the characters up to and
\* including the next newline, at most MAX_LINE - 1 of them.
fgets(f, p) ==
    LET rest == SubSeq(f, p, Len(f))
        nl   == {k \in 1..Len(rest) : rest[k] = "\n"}
        upto == IF nl = {} THEN Len(rest) ELSE CHOOSE k \in nl : \A j \in nl : k <= j
        n    == IF upto < MaxLine - 1 THEN upto ELSE MaxLine - 1
    IN  SubSeq(rest, 1, n)

-----------------------------------------------------------------------------
(* ipset_load() reading a text file: the first fgets() before the loop,    *)
(* then do { lineid++; parse_line and dispatch } while(fgets(...)).  The   *)
(* dispatch of each result is IPSetLoad's (addresses) and DNSResolver's    *)
(* (hostnames); here the results are kept in order.                       *)

CONSTANT Files    \* the files read, as sequences of characters

VARIABLES
    file,      \* the file being read
    pos,       \* the position of fgets() in it
    lineid,    \* the line counter of ipset_load()
    read,      \* history: the buffers fgets() returned, in order
    results,   \* the parse_line() result of each buffer
    loading    \* FALSE once fgets() returned NULL

lvars == <<file, pos, lineid, read, results, loading>>

LoadInit ==
    /\ file \in Files
    /\ pos = 1 /\ lineid = 0
    /\ read = <<>> /\ results = <<>>
    /\ loading = TRUE

\* One turn of the loop: fgets() fills the buffer, lineid++, parse_line().
ReadLine ==
    /\ loading /\ pos <= Len(file)
    /\ LET line == fgets(file, pos)
       IN  /\ pos' = pos + Len(line)
           /\ read' = Append(read, line)
           /\ results' = Append(results, parse_line(line))
    /\ lineid' = lineid + 1
    /\ UNCHANGED <<file, loading>>

\* fgets() returns NULL: the file is closed (an empty file returns at once).
EndOfText ==
    /\ loading /\ pos > Len(file)
    /\ loading' = FALSE
    /\ UNCHANGED <<file, pos, lineid, read, results>>

LoadNext == ReadLine \/ EndOfText

LoadSpec == LoadInit /\ [][LoadNext]_lvars

-----------------------------------------------------------------------------
(* Reference: the line grammar.                                          *)

\* The text before the first comment mark or end of line, without its
\* leading and trailing blanks.
Body(l) == LET e == {k \in 1..Len(l) : l[k] \in Stops}
           IN  IF e = {} THEN l ELSE SubSeq(l, 1, (CHOOSE k \in e : \A j \in e : k <= j) - 1)
RECURSIVE Trim(_)
Trim(w) == CASE w # <<>> /\ Head(w) = " "   -> Trim(Tail(w))
             [] w # <<>> /\ w[Len(w)] = " " -> Trim(SubSeq(w, 1, Len(w) - 1))
             [] OTHER                      -> w
Word(w, C) == w # <<>> /\ Len(w) <= TokLen /\ \A k \in 1..Len(w) : w[k] \in C

\* The line forms ipset_load documents: nothing, "ip", "ip -" (an
\* incomplete range), "ip - ip" and "hostname", each followed by blanks
\* and an optional comment; <<>> for any other line.
Grammar(l) ==
    LET t == Trim(Body(l))
        dash == {k \in 1..Len(t) : t[k] = "-"}
        lhs(k) == Trim(SubSeq(t, 1, k - 1))
        rhs(k) == Trim(SubSeq(t, k + 1, Len(t)))
    IN  CASE t = <<>>                 -> Empty
          [] Word(t, IpChars)         -> Result("1ip", t, <<>>)
          [] \E k \in dash : Word(lhs(k), IpChars) /\ rhs(k) = <<>>
                                      -> Result("1ip", lhs(Len(t)), <<>>)
          [] \E k \in dash : Word(lhs(k), IpChars) /\ Word(rhs(k), IpChars)
                                      -> LET k == CHOOSE k \in dash : Word(lhs(k), IpChars)
                                         IN  Result("2ips", lhs(k), rhs(k))
          [] Word(t, HostChars)       -> Result("hostname", t, <<>>)
          [] OTHER                    -> <<>>

-----------------------------------------------------------------------------

\* Every buffer of a well-formed line is classified as the grammar says,
\* with exactly its tokens: the blank skipping, the comment and '\r'
\* stops, the incomplete range and the hostname fallback of parse_line
\* and parse_hostname agree with the trimmed reading of the line.
ParseMatchesGrammar ==
    \A i \in DOMAIN read : Grammar(read[i]) # <<>> => results[i] = Grammar(read[i])

\* The maximal runs of address characters in a buffer: a run with no
\* address character right before or right after it.
Runs(l) ==
    LET IsRun(a, b) == /\ a <= b
                       /\ \A j \in a..b : l[j] \in IpChars
                       /\ a = 1 \/ l[a - 1] \notin IpChars
                       /\ At(l, b + 1) \notin IpChars
    IN  {SubSeq(l, p[1], p[2]) : p \in {q \in (1..Len(l)) \X (1..Len(l)) : IsRun(q[1], q[2])}}

\* parse_line never hands str2netaddr a cut address: whenever it returns
\* LINE_HAS_1_IP or LINE_HAS_2_IPS, each token is a whole run of address
\* characters of the buffer, also where the run is longer than
\* MAX_INPUT_ELEMENT and the scanner stopped inside it (ipset_load.c:80,
\* 124), and on lines the grammar does not classify.
AddressTokensWhole ==
    \A i \in DOMAIN read :
        results[i].kind \in {"1ip", "2ips"} =>
            /\ results[i].ip \in Runs(read[i])
            /\ results[i].kind = "2ips" => results[i].ip2 \in Runs(read[i])

=============================================================================
