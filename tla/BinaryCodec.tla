------------------------------ MODULE BinaryCodec ------------------------------
(***************************************************************************)
(* The binary snapshot format v1.0 (ipset_binary.c): --print-binary makes *)
(* ipset_print optimize the set and ipset_save_binary_v10 write it; a     *)
(* later ipset_load sees the header line and hands the rest to             *)
(* ipset_load_binary_v10.  The round trip is a path of PrintMode.          *)
(*                                                                         *)
(* A file is a record of its header fields and its records: the text of a  *)
(* header line is abstracted to the value it carries, a line the loader    *)
(* cannot recognise to a value outside the accepted ones.  A file written  *)
(* for an empty set is the empty file, which ipset_load reads as an empty  *)
(* set.  The writer may be stopped part way through the records (a full    *)
(* disk, a killed process): the file then ends early.                      *)
(***************************************************************************)
EXTENDS IPSet

\* sizeof(network_addr_t) and sizeof(uint32_t)
RecordSize == 8
EndianSize == 4

EmptyFile == [text |-> "empty"]

\* ipset_save_binary_v10(): nothing at all for an empty set, otherwise the
\* seven header lines, the endianness mark and the records.  The "lines"
\* line carries the number of entries.
ipset_save_binary_v10(ips) ==
    IF Len(ips.netaddrs) = 0 THEN EmptyFile
    ELSE [text    |-> "binary",
          flag    |-> IF ips.optimized THEN "optimized" ELSE "non-optimized",
          recsize |-> RecordSize,
          records |-> Len(ips.netaddrs),
          bytes   |-> RecordSize * Len(ips.netaddrs) + EndianSize,
          lines   |-> Len(ips.netaddrs),
          unique  |-> ips.unique_ips,
          endian  |-> "native",
          data    |-> ips.netaddrs]

\* The header checks of ipset_load_binary_v10, in the order the code makes
\* them; the first that fails makes the load return 1.
HeaderOK(f) ==
    /\ f.flag \in {"optimized", "non-optimized"}
    /\ f.recsize = RecordSize
    /\ f.bytes = RecordSize * f.records + EndianSize
    /\ f.endian = "native"
    /\ f.unique >= f.records
    /\ f.lines >= f.records

\* Mutant: a short fread is accepted and the records read are kept.
ipset_load_binary_v10_short_ok(f, ips) ==
    IF ~HeaderOK(f) THEN [ok |-> FALSE, ips |-> ips]
    ELSE LET n == IF Len(f.data) < f.records THEN Len(f.data) ELSE f.records
         IN  [ok  |-> TRUE,
              ips |-> [ips EXCEPT !.netaddrs   = @ \o SubSeq(f.data, 1, n),
                                  !.lines      = @ + f.lines,
                                  !.unique_ips = @ + f.unique,
                                  !.optimized  = (f.flag = "optimized")]]

\* ipset_load_binary_v10(fp, ips, 1): the flag line sets or clears the
\* OPTIMIZED flag, the header is checked, and exactly f.records records are
\* read; fewer is an error.  On success the records are appended and the
\* counters of the header added.
ipset_load_binary_v10(f, ips) ==
    IF ~HeaderOK(f) \/ Len(f.data) < f.records THEN [ok |-> FALSE, ips |-> ips]
    ELSE [ok  |-> TRUE,
          ips |-> [ips EXCEPT !.netaddrs   = @ \o SubSeq(f.data, 1, f.records),
                              !.lines      = @ + f.lines,
                              !.unique_ips = @ + f.unique,
                              !.optimized  = (f.flag = "optimized")]]

\* ipset_load() of a file: a new set flagged OPTIMIZED; an empty file gives
\* it back as is; a binary file is loaded by ipset_load_binary_v10, and a
\* failed load frees the set (NULL, here ok = FALSE).
LoadFile(f) ==
    LET fresh == [ipset_create EXCEPT !.optimized = TRUE]
    IN  IF f.text = "empty" THEN [ok |-> TRUE, ips |-> fresh]
        ELSE ipset_load_binary_v10(f, fresh)

=============================================================================
