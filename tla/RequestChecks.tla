---------------------------- MODULE RequestChecks ----------------------------
(***************************************************************************)
(* McpShard::check_request (include/mcp/server/mcp_shard.hh): the checks   *)
(* of one client's requests in their order, on top of the client's bucket  *)
(* (RateLimiter) and the filter (IpFilter).  The circuit breaker may give  *)
(* either verdict; CircuitBreaker says which.                              *)
(***************************************************************************)
EXTENDS RateLimiter, IpFilter

CONSTANTS
    Whitelists,  \* the lists with_ip_whitelist is called with (bound)
    Blacklists   \* the lists with_ip_blacklist is called with (bound)

ASSUME ListAssumption ==
    Whitelists \subseteq SUBSET Cidrs /\ Blacklists \subseteq SUBSET Cidrs

VARIABLES
    client,   \* client_ip: an address, other text, or empty
    filter,   \* the configuration of the filter
    key_required, \* api_key.enabled
    verdict   \* what the last request was told, "none" after another step

setup == <<client, filter, key_required>>
checkVars == <<vars, setup, verdict>>
-----------------------------------------------------------------------------
\* The configurations a program builds: with a whitelist or without.
Built ==
    {WithIpBlacklist(NoFilter, b) : b \in Blacklists} \cup
    {WithIpBlacklist(WithIpWhitelist(NoFilter, w), b) : w \in Whitelists, b \in Blacklists}

\* Those a server starts with.
Started == {cfg \in Built : Compiles(cfg)}

CheckInit ==
    /\ Init
    /\ client \in {NoIp, Unparsed} \cup Addresses
    /\ filter \in Started
    /\ key_required \in BOOLEAN
    /\ verdict = "none"

Forbidden == ~IsAllowed(filter, client)
Unauthorized(known_key) == key_required /\ ~known_key

RefusedByFilter ==
    /\ Forbidden
    /\ verdict' = "FORBIDDEN"
    /\ UNCHANGED <<vars, setup>>

RefusedByKey(known_key) ==
    /\ ~Forbidden
    /\ Unauthorized(known_key)
    /\ verdict' = "UNAUTHORIZED"
    /\ UNCHANGED <<vars, setup>>

RefusedByLimiter(known_key) ==
    /\ ~Forbidden /\ ~Unauthorized(known_key)
    /\ client # NoIp
    /\ Refuse
    /\ verdict' = "TOO_MANY_REQUESTS"
    /\ UNCHANGED setup

\* The limiter lets the request through; what the circuit says comes after the
\* token is spent.  A request without an address is neither counted nor stopped.
PassesLimiter(known_key) ==
    /\ ~Forbidden /\ ~Unauthorized(known_key)
    /\ \/ client # NoIp /\ Acquire /\ verdict' \in {"SERVICE_UNAVAILABLE", "OK"}
       \/ client = NoIp /\ UNCHANGED vars /\ verdict' = "OK"
    /\ UNCHANGED setup

CheckRequest(known_key) ==
    \/ RefusedByFilter
    \/ RefusedByKey(known_key)
    \/ RefusedByLimiter(known_key)
    \/ PassesLimiter(known_key)

BetweenRequests ==
    /\ Tick \/ Reset \/ StartWindow
    /\ verdict' = "none"
    /\ UNCHANGED setup

CheckNext == BetweenRequests \/ \E known_key \in BOOLEAN : CheckRequest(known_key)

CheckSpec == CheckInit /\ [][CheckNext]_checkVars
-----------------------------------------------------------------------------
(* Properties. *)

\* The reference: an address is in a network if their first prefix bits agree.
InNetwork(ip, cidr) ==
    \A i \in (Bits - cidr.prefix)..(Bits - 1) : i \in ip <=> i \in cidr.ip

InList(cidrs) == \E cidr \in cidrs : InNetwork(client, cidr)

Readable(cidrs) == \A cidr \in cidrs : cidr.ip # Unparsed

\* With a whitelist exactly the clients in one of its networks and in none of
\* the blacklist's pass the filter, without one all but those in the blacklist,
\* whatever the prefix lengths (builder.hh, with_ip_whitelist and
\* with_ip_blacklist).  For lists whose entries can be read; any other entry
\* counts as a network of zeros.  And for clients whose address can be read: any
\* other is refused under a whitelist, which docs/security.md:97 denies.
FilterMatchesLists ==
    verdict # "none" /\ client \notin {NoIp, Unparsed}
        /\ Readable(filter.whitelist \cup filter.blacklist) =>
            (verdict = "FORBIDDEN" <=>
                \/ InList(filter.blacklist)
                \/ ~filter.default_allow /\ ~InList(filter.whitelist))
=============================================================================
