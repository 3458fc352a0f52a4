----------------------------- MODULE InputParsing -----------------------------
(***************************************************************************)
(* The two conversions ipset_load() applies to the text of a file, side by *)
(* side: fgets() and parse_line() turn the file into line results          *)
(* (LineParser), and str2netaddr() turns an address token into an entry   *)
(* (AddrParse).  They share no state, so a behaviour is one call of either *)
(* rather than the product of the two.                                     *)
(***************************************************************************)
EXTENDS AddrParse, LineParser

VARIABLE call    \* "str2netaddr" or "ipset_load"

vars == <<call, pvars, lvars>>

Init ==
    \/ /\ call = "str2netaddr" /\ ParseInit
       /\ file = <<>> /\ pos = 1 /\ lineid = 0
       /\ read = <<>> /\ results = <<>> /\ loading = FALSE
    \/ /\ call = "ipset_load" /\ LoadInit
       /\ ip = 0 /\ text = NoSlash /\ defprefix = 0 /\ usenet = TRUE
       /\ result = NoResult

Next ==
    \/ call = "str2netaddr" /\ Parse /\ UNCHANGED <<call, lvars>>
    \/ call = "ipset_load" /\ LoadNext /\ UNCHANGED <<call, pvars>>

Spec == Init /\ [][Next]_vars

=============================================================================
