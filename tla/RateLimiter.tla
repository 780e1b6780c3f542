----------------------------- MODULE RateLimiter -----------------------------
(***************************************************************************)
(* PerIpRateLimiter (include/mcp/security/rate_limiter.hh): the token      *)
(* bucket of one client address on one shard.  The buckets of different    *)
(* addresses share nothing.  A disabled limiter and a request without an   *)
(* address are let through and change nothing.                             *)
(*                                                                         *)
(* The code counts tokens and nanoseconds in doubles; here one request     *)
(* costs Cost units and Rate units are refilled per unit of time, exactly. *)
(* The window variables are history: they observe any stretch of time and  *)
(* what the limiter let through in it.                                     *)
(***************************************************************************)
EXTENDS Integers

CONSTANTS
    Burst,      \* burst_size
    Cost,       \* the units of one token
    Rate,       \* the units refilled per unit of time (requests_per_second)
    MaxTime,    \* the last time considered (bound)
    MaxResets   \* calls of reset within one window (bound)

ASSUME LimiterAssumption ==
    Burst \in Nat /\ Cost \in Nat \ {0} /\ Rate \in Nat
ASSUME BoundAssumption == MaxTime \in Nat /\ MaxResets \in Nat

VARIABLES
    exists,      \* the address has an entry in _buckets
    tokens,      \* TokenBucket::tokens, 0 without an entry
    last_refill, \* TokenBucket::last_refill, 0 without an entry
    now,         \* steady_clock::now()
    since,       \* (history) when the observed window began
    at_start,    \* (history) what a request could draw on at that time
    granted,     \* (history) the requests let through since
    resets       \* (history) the calls of reset since

bucket == <<exists, tokens, last_refill>>
window == <<since, at_start, granted, resets>>
vars == <<bucket, now, window>>
-----------------------------------------------------------------------------
capacity == Burst * Cost

AtMost(a, b) == IF a <= b THEN a ELSE b

\* Mutant: the refill is not cut off at the capacity.
RefilledUncapped ==
    IF exists /\ now > last_refill
    THEN tokens + (now - last_refill) * Rate
    ELSE IF exists THEN tokens ELSE capacity

\* _get_or_create, then _refill: the tokens the request finds.
Refilled ==
    IF exists /\ now > last_refill
    THEN AtMost(capacity, tokens + (now - last_refill) * Rate)
    ELSE IF exists THEN tokens ELSE capacity

Init ==
    /\ exists = FALSE
    /\ tokens = 0
    /\ last_refill = 0
    /\ now = 0
    /\ since = 0
    /\ at_start = capacity
    /\ granted = 0
    /\ resets = 0

Tick ==
    /\ now < MaxTime
    /\ now' = now + 1
    /\ UNCHANGED <<bucket, window>>

\* try_acquire returns true.
Acquire ==
    /\ Refilled >= Cost
    /\ exists' = TRUE
    /\ tokens' = Refilled - Cost
    /\ last_refill' = now
    /\ granted' = granted + 1
    /\ UNCHANGED <<now, since, at_start, resets>>

\* Mutant: a refused request restarts the clock and stores no refill.
RefuseDropsRefill ==
    /\ Refilled < Cost
    /\ exists' = TRUE
    /\ tokens' = IF exists THEN tokens ELSE Refilled
    /\ last_refill' = now
    /\ UNCHANGED <<now, window>>

\* try_acquire returns false; the refill has been stored.
Refuse ==
    /\ Refilled < Cost
    /\ exists' = TRUE
    /\ tokens' = Refilled
    /\ last_refill' = now
    /\ UNCHANGED <<now, window>>

\* reset erases the entry: the next request finds a full bucket.
Reset ==
    /\ resets < MaxResets
    /\ exists' = FALSE
    /\ tokens' = 0
    /\ last_refill' = 0
    /\ resets' = resets + 1
    /\ UNCHANGED <<now, since, at_start, granted>>

\* The observer starts a new window.
StartWindow ==
    /\ since' = now
    /\ at_start' = Refilled
    /\ granted' = 0
    /\ resets' = 0
    /\ UNCHANGED <<bucket, now>>

Next == Tick \/ Acquire \/ Refuse \/ Reset \/ StartWindow

Spec == Init /\ [][Next]_vars
-----------------------------------------------------------------------------
(* Properties. *)

TypeOK ==
    /\ exists \in BOOLEAN
    /\ tokens \in 0..capacity
    /\ now \in Nat
    /\ last_refill \in 0..now
    /\ since \in 0..now
    /\ at_start \in 0..capacity
    /\ granted \in Nat
    /\ resets \in Nat

\* In any stretch of time, wherever it starts and however requests cluster,
\* one address gets through at most the burst plus what is refilled in that
\* time, and one more burst for each reset.  try_acquire and _refill.
WindowBound ==
    granted * Cost <= capacity * (resets + 1) + Rate * (now - since)

\* The limiter takes nothing but the cost of what it lets through: whatever
\* requests it refused meanwhile, a client can draw on what it had plus the
\* refill (up to the burst), less what it has used.  A refused request costs
\* nothing and does not restart the clock.
NothingWithheld ==
    Refilled + granted * Cost >= AtMost(capacity, at_start + Rate * (now - since))
=============================================================================
