------------------------------ MODULE IpFilter -------------------------------
(***************************************************************************)
(* IpFilter (include/mcp/security/ip_filter.hh): which client addresses    *)
(* check_request lets through.  The address, the lists and default_allow   *)
(* do not change after the filter is built, so these are operators.        *)
(*                                                                         *)
(* An address has Bits bits and is written as the set of those that are    *)
(* one, bit Bits - 1 being the first; {} is 0.0.0.0.  A network is written *)
(* as an address and a prefix length; either address may be text that      *)
(* inet_pton cannot read.                                                  *)
(***************************************************************************)
EXTENDS Integers

CONSTANTS
    Bits,     \* the width of an address (32)
    NoIp,     \* the empty client address
    Unparsed  \* any text that is no IPv4 address

Addresses == SUBSET (0..(Bits - 1))

ASSUME BitsAssumption == Bits \in Nat
ASSUME TextAssumption ==
    NoIp # Unparsed /\ \A ip \in Addresses : ip # NoIp /\ ip # Unparsed

\* An entry of a list as it is configured.
Cidrs == [ip : {Unparsed} \cup Addresses, prefix : Int]

\* CidrEntry: what it is compiled to.
Networks == [network : Addresses, mask : Addresses]

\* IpFilterConfig
FilterConfigs == [whitelist : SUBSET Cidrs, blacklist : SUBSET Cidrs, default_allow : BOOLEAN]
-----------------------------------------------------------------------------
(* McpServerBuilder (include/mcp/core/builder.hh). *)

NoFilter == [whitelist |-> {}, blacklist |-> {}, default_allow |-> TRUE]

WithIpWhitelist(cfg, cidrs) == [cfg EXCEPT !.whitelist = cidrs, !.default_allow = FALSE]
WithIpBlacklist(cfg, cidrs) == [cfg EXCEPT !.blacklist = cidrs]
-----------------------------------------------------------------------------
\* Mutant: prefix length 0 has no case of its own, and the machine shifts by 0.
MaskShifted(prefix) ==
    IF prefix = 0 THEN 0..(Bits - 1) ELSE (Bits - prefix)..(Bits - 1)

\* The mask of a prefix length: its first prefix bits, none of them for 0.
Mask(prefix) == (Bits - prefix)..(Bits - 1)

\* _parse_ip; 0 stands for what cannot be read.
ParseIp(text) == IF text = Unparsed THEN {} ELSE text

\* The constructor throws on a prefix length out of range, and the server with it.
Compiles(cfg) == \A cidr \in cfg.whitelist \cup cfg.blacklist : cidr.prefix \in 0..Bits

\* _parse_cidr, of an entry with a valid prefix length.
ParseCidr(cidr) ==
    [network |-> ParseIp(cidr.ip) \cap Mask(cidr.prefix), mask |-> Mask(cidr.prefix)]

Matches(ip, list) ==
    \E e \in {ParseCidr(cidr) : cidr \in list} : ip \cap e.mask = e.network

\* is_allowed: the blacklist first, then a whitelist if there is one.
IsAllowed(cfg, text) ==
    IF text \in {NoIp, Unparsed}
    THEN cfg.default_allow
    ELSE /\ ~Matches(ParseIp(text), cfg.blacklist)
         /\ IF cfg.whitelist # {} THEN Matches(ParseIp(text), cfg.whitelist)
                                  ELSE cfg.default_allow
=============================================================================
