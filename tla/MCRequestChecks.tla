--------------------------- MODULE MCRequestChecks ---------------------------
(* Lists of networks for the run of RequestChecks: none, a half of the        *)
(* addresses, a single one, two that overlap, an entry that is no address, and *)
(* one with a prefix length longer than an address.                            *)
EXTENDS RequestChecks

MCLists == {
    {},
    {[ip |-> {0, 1}, prefix |-> 1]},
    {[ip |-> {1}, prefix |-> 2], [ip |-> {0}, prefix |-> 0]},
    {[ip |-> Unparsed, prefix |-> 1], [ip |-> {0}, prefix |-> 2]},
    {[ip |-> {0}, prefix |-> Bits + 1]}}
=============================================================================
