------------------------------- MODULE DNSBatch -------------------------------
(***************************************************************************)
(* What dns_request() and dns_done() promise their caller (the comment of *)
(* dns_request in ipset_load.c): any number of hostnames is requested, the *)
(* addresses are added to the ipset "either at the next call to this       *)
(* function, or by calling dns_done()", and once dns_done() returns "the   *)
(* resolved IPs are in the ipset you supplied".  Each name is looked up    *)
(* and answered, or given up, at most once; how the lookups are spread     *)
(* over threads, queued, retried and signalled is not visible here.        *)
(***************************************************************************)
EXTENDS Naturals, Sequences

CONSTANTS
    Hosts,     \* the hostnames requested, in order
    Answers    \* Answers[h]: the addresses a successful lookup of h yields

VARIABLES
    read,      \* how many hostnames have been requested
    answered,  \* the names whose lookup succeeded
    closed,    \* the names whose lookup is over, answered or given up
    have,      \* the addresses in the caller's ipset
    returned   \* dns_done() has returned

avars == <<read, answered, closed, have, returned>>

Issued == {Hosts[k] : k \in 1..read}
Known  == UNION {Answers[h] : h \in answered}

Init ==
    /\ read = 0 /\ answered = {} /\ closed = {}
    /\ have = {} /\ returned = FALSE

\* The caller's ipset takes some of the addresses found so far, never one
\* of a name not answered, and loses none.
Absorb == have \subseteq have' /\ have' \subseteq Known

\* A call of dns_request(): the next name is requested, and addresses
\* already found may be added.
Request ==
    /\ ~returned /\ read < Len(Hosts)
    /\ read' = read + 1
    /\ Absorb
    /\ UNCHANGED <<answered, closed, returned>>

\* A lookup of a requested name succeeds.
Answer(h) ==
    /\ h \in Issued \ (closed \cup answered)
    /\ answered' = answered \cup {h}
    /\ UNCHANGED <<read, closed, have, returned>>

\* The lookup of a requested name is over.
Close(h) ==
    /\ h \in Issued \ closed
    /\ closed' = closed \cup {h}
    /\ UNCHANGED <<read, answered, have, returned>>

\* Inside dns_done(), before it returns, addresses may be added.
Drain ==
    /\ ~returned
    /\ Absorb
    /\ UNCHANGED <<read, answered, closed, returned>>

\* dns_done() returns once every requested name is over, with every
\* address found in the ipset.
Return ==
    /\ ~returned /\ read = Len(Hosts)
    /\ closed = Issued
    /\ have' = Known
    /\ returned' = TRUE
    /\ UNCHANGED <<read, answered, closed>>

Next == Request \/ Drain \/ Return
        \/ \E h \in Issued : Answer(h) \/ Close(h)

\* Every lookup requested ends, and dns_done() returns.
Spec == Init /\ [][Next]_avars
        /\ WF_avars(Return)
        /\ \A k \in DOMAIN Hosts : WF_avars(Close(Hosts[k]))

=============================================================================
