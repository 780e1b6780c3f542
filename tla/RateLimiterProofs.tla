-------------------------- MODULE RateLimiterProofs --------------------------
(***************************************************************************)
(* What PerIpRateLimiter guarantees for every burst, rate and pattern of   *)
(* requests.  The inductive invariant is an account of the tokens: what a  *)
(* request could draw on now, plus what was granted, is at most what there *)
(* was at the start of the window plus the refill and the resets, and at   *)
(* least that much as far as the capacity allows.                          *)
(***************************************************************************)
EXTENDS RequestChecks, TLAPS

\* What the window was given so far, and what it has used.
Given == at_start + Rate * (now - since)
Used == granted * Cost

Account ==
    /\ Refilled + Used <= Given + capacity * resets
    /\ Refilled + Used >= AtMost(capacity, Given)

IInv == TypeOK /\ Account

-----------------------------------------------------------------------------
(* Arithmetic: products of constants and state. *)

LEMMA CapacityNat == capacity \in Nat
  <1> SUFFICES Burst * Cost \in Nat
    BY DEF capacity
  <1> QED
    BY LimiterAssumption

\* One more unit of a product.
LEMMA OneMore ==
  ASSUME NEW a \in Nat, NEW b \in Nat
  PROVE  /\ a * b \in Nat
         /\ (a + 1) * b = a * b + b
         /\ b * (a + 1) = b * a + b
         /\ b * a \in Nat
  OBVIOUS

LEMMA ZeroTimes ==
  ASSUME NEW a \in Nat
  PROVE  0 * a = 0 /\ a * 0 = 0
  OBVIOUS

LEMMA ZeroInRange ==
  ASSUME NEW n \in Nat
  PROVE  0 \in 0..n
  OBVIOUS

\* A bucket holds a natural number of units, at most its capacity.
LEMMA RefilledType == TypeOK => Refilled \in 0..capacity
  <1> SUFFICES ASSUME TypeOK PROVE Refilled \in 0..capacity
    OBVIOUS
  <1>1. capacity \in Nat
    BY CapacityNat
  <1>2. (now - last_refill) * Rate \in Nat
    <2>1. now - last_refill \in Nat
      BY DEF TypeOK
    <2> QED
      BY <2>1, OneMore, LimiterAssumption
  <1> QED
    BY <1>1, <1>2 DEF Refilled, AtMost, TypeOK

\* The refill of a bucket grows by Rate per unit of time, up to the capacity.
LEMMA RefilledTick ==
  ASSUME TypeOK, Tick
  PROVE  Refilled' = AtMost(capacity, Refilled + Rate)
  <1>1. capacity \in Nat /\ Rate \in Nat
    BY CapacityNat, LimiterAssumption
  <1>2. /\ exists' = exists /\ tokens' = tokens /\ last_refill' = last_refill
        /\ now' = now + 1 /\ capacity' = capacity
    BY DEF Tick, bucket, capacity
  <1>3. CASE exists
    <2>1. now - last_refill \in Nat /\ now' - last_refill = (now - last_refill) + 1
      BY <1>2 DEF TypeOK
    <2> DEFINE refill == (now - last_refill) * Rate
    <2>2. /\ refill \in Nat
          /\ ((now - last_refill) + 1) * Rate = refill + Rate
      BY <2>1, <1>1, OneMore
    <2>3. Refilled = IF now > last_refill THEN AtMost(capacity, tokens + refill) ELSE tokens
      BY <1>3 DEF Refilled
    <2>4. now = last_refill => refill = 0
      BY <2>1, <1>1, ZeroTimes DEF TypeOK
    <2>5. Refilled = AtMost(capacity, tokens + refill)
      <3> HIDE DEF refill
      <3> QED
        BY <2>2, <2>3, <2>4, <1>1 DEF TypeOK, AtMost
    <2>6. Refilled' = AtMost(capacity, tokens + (refill + Rate))
      <3>1. exists' /\ now' > last_refill'
        BY <1>2, <1>3 DEF TypeOK
      <3>2. (now' - last_refill') * Rate = refill + Rate
        BY <1>2, <2>1, <2>2
      <3>3. Refilled' = AtMost(capacity, tokens + (now' - last_refill') * Rate)
        BY <3>1, <1>2 DEF Refilled, AtMost
      <3> HIDE DEF refill
      <3> QED
        BY <3>2, <3>3
    <2> HIDE DEF refill
    <2> QED
      BY <2>2, <2>5, <2>6, <1>1 DEF TypeOK, AtMost
  <1>4. CASE ~exists
    BY <1>1, <1>2, <1>4 DEF Refilled, AtMost
  <1> QED
    BY <1>3, <1>4

-----------------------------------------------------------------------------
LEMMA TypeStep ==
  ASSUME TypeOK, [Next]_vars
  PROVE  TypeOK'
  <1> capacity \in Nat /\ capacity' = capacity
    BY CapacityNat DEF capacity
  <1> Cost \in Nat \ {0}
    BY LimiterAssumption
  <1>0. Refilled \in 0..capacity
    BY RefilledType
  <1>1. CASE Tick
    BY <1>1 DEF Tick, bucket, window, TypeOK
  <1>2. CASE Acquire
    BY <1>0, <1>2 DEF Acquire, TypeOK
  <1>3. CASE Refuse
    BY <1>0, <1>3 DEF Refuse, window, TypeOK
  <1>4. CASE Reset
    <2>1. exists' \in BOOLEAN
      BY <1>4, Zenon DEF Reset
    <2> QED
      BY <1>4, <2>1, ZeroInRange DEF Reset, TypeOK
  <1>5. CASE StartWindow
    BY <1>0, <1>5 DEF StartWindow, bucket, TypeOK
  <1>6. CASE UNCHANGED vars
    BY <1>6 DEF vars, bucket, window, TypeOK
  <1> QED
    BY <1>1, <1>2, <1>3, <1>4, <1>5, <1>6 DEF Next

\* The account balances after every step.
LEMMA AccountStep ==
  ASSUME TypeOK, Account, [Next]_vars
  PROVE  Account'
  <1>c. /\ capacity \in Nat /\ capacity' = capacity
        /\ Rate \in Nat /\ Cost \in Nat \ {0}
    BY CapacityNat, LimiterAssumption DEF capacity
  <1>t. Refilled \in 0..capacity
    BY RefilledType
  <1>p. /\ Rate * (now - since) \in Nat /\ Used \in Nat
        /\ capacity * resets \in Nat
        /\ capacity * (resets + 1) = capacity * resets + capacity
        /\ Rate * ((now - since) + 1) = Rate * (now - since) + Rate
        /\ (granted + 1) * Cost = Used + Cost
    BY <1>c, OneMore DEF TypeOK, Used
  <1>g. Given \in Nat /\ at_start \in Nat
    BY <1>p, <1>c DEF Given, TypeOK
  <1>1. CASE Tick
    <2>1. Refilled' = AtMost(capacity, Refilled + Rate)
      BY <1>1, RefilledTick
    <2>2. /\ Given' = Given + Rate /\ Used' = Used
          /\ (capacity * resets)' = capacity * resets
      <3>1. /\ now' - since' = (now - since) + 1
            /\ at_start' = at_start /\ granted' = granted /\ resets' = resets
        BY <1>1 DEF Tick, window, TypeOK
      <3>2. Given' = at_start + Rate * ((now - since) + 1)
        BY <3>1 DEF Given
      <3>3. Given' = Given + Rate
        BY <3>2, <1>p, <1>c DEF Given, TypeOK
      <3> QED
        BY <3>1, <3>3, <1>c DEF Used
    <2> QED
      BY <2>1, <2>2, <1>c, <1>t, <1>p, <1>g DEF Account, AtMost
  <1>2. CASE Acquire
    <2>1. Refilled' = Refilled - Cost
      BY <1>2, <1>c, <1>t DEF Acquire, Refilled, TypeOK
    <2>2. Given' = Given /\ Used' = Used + Cost /\ (capacity * resets)' = capacity * resets
      BY <1>2, <1>p, <1>c DEF Acquire, Given, Used
    <2> QED
      BY <2>1, <2>2, <1>c, <1>t, <1>p, <1>g DEF Account, AtMost
  <1>3. CASE Refuse
    <2>1. Refilled' = Refilled
      BY <1>3, <1>c, <1>t DEF Refuse, Refilled, TypeOK
    <2>2. Given' = Given /\ Used' = Used /\ (capacity * resets)' = capacity * resets
      BY <1>3, <1>c DEF Refuse, window, Given, Used
    <2> QED
      BY <2>1, <2>2, <1>c DEF Account, AtMost
  <1>4. CASE Reset
    <2>1. Refilled' = capacity
      BY <1>4, <1>c DEF Reset, Refilled
    <2>2. /\ Given' = Given /\ Used' = Used
          /\ (capacity * resets)' = capacity * resets + capacity
      BY <1>4, <1>c, <1>p DEF Reset, Given, Used
    <2> QED
      BY <2>1, <2>2, <1>c, <1>t, <1>p, <1>g DEF Account, AtMost
  <1>5. CASE StartWindow
    <2>1. Refilled' = Refilled
      BY <1>5, <1>c DEF StartWindow, bucket, Refilled
    <2>2. Given' = Refilled /\ Used' = 0 /\ (capacity * resets)' = 0
      <3>1. /\ at_start' = Refilled /\ now' - since' = 0
            /\ granted' = 0 /\ resets' = 0
        BY <1>5 DEF StartWindow, TypeOK
      <3>2. Given' = Refilled + Rate * 0
        BY <3>1 DEF Given
      <3> QED
        BY <3>1, <3>2, <1>c, <1>t, ZeroTimes DEF Used
    <2> QED
      BY <2>1, <2>2, <1>c, <1>t DEF Account, AtMost
  <1>6. CASE UNCHANGED vars
    BY <1>6, <1>c DEF vars, bucket, window, Account, AtMost, Refilled, Given, Used
  <1> QED
    BY <1>1, <1>2, <1>3, <1>4, <1>5, <1>6 DEF Next

LEMMA InitAccount == Init => IInv
  <1> SUFFICES ASSUME Init PROVE IInv
    OBVIOUS
  <1>1. capacity \in Nat /\ Rate \in Nat /\ Cost \in Nat
    BY CapacityNat, LimiterAssumption
  <1>2. Refilled = capacity
    BY <1>1 DEF Init, Refilled
  <1>3. Given = capacity /\ Used = 0 /\ capacity * resets = 0
    <2>1. /\ now - since = 0 /\ granted = 0 /\ resets = 0 /\ at_start = capacity
      BY DEF Init
    <2>2. Given = capacity + Rate * 0
      BY <2>1 DEF Given
    <2> QED
      BY <2>1, <2>2, <1>1, ZeroTimes DEF Used
  <1>4. TypeOK
    <2>1. exists \in BOOLEAN
      BY Zenon DEF Init
    <2> QED
      BY <1>1, <2>1, ZeroInRange DEF Init, TypeOK
  <1> QED
    BY <1>1, <1>2, <1>3, <1>4 DEF IInv, Account, AtMost

LEMMA AccountAlways == Spec => []IInv
  <1>1. Init => IInv
    BY InitAccount
  <1>2. IInv /\ [Next]_vars => IInv'
    BY TypeStep, AccountStep DEF IInv
  <1> QED
    BY <1>1, <1>2, PTL DEF Spec

-----------------------------------------------------------------------------
\* The state of a bucket stays in range: no more tokens than the burst and
\* never fewer than none, and no refill time in the future.
THEOREM TypeCorrect == Spec => []TypeOK
  <1>1. IInv => TypeOK
    BY DEF IInv
  <1> QED
    BY <1>1, AccountAlways, PTL

\* In any window one address gets through at most the burst, the refill of
\* the window and one burst for each reset.
THEOREM WindowIsBounded == Spec => []WindowBound
  <1>1. IInv => WindowBound
    <2> SUFFICES ASSUME IInv PROVE WindowBound
      OBVIOUS
    <2>1. /\ capacity \in Nat /\ Rate \in Nat /\ Cost \in Nat
      BY CapacityNat, LimiterAssumption
    <2>2. Refilled \in 0..capacity
      BY RefilledType DEF IInv
    <2>3. /\ Rate * (now - since) \in Nat /\ Used \in Nat
          /\ capacity * resets \in Nat
          /\ capacity * (resets + 1) = capacity * resets + capacity
      BY <2>1, OneMore DEF IInv, TypeOK, Used
    <2>4. at_start <= capacity /\ at_start \in Nat
      BY <2>1 DEF IInv, TypeOK
    <2>5. Used <= capacity * (resets + 1) + Rate * (now - since)
      BY <2>1, <2>2, <2>3, <2>4 DEF IInv, Account, Given
    <2> QED
      BY <2>5 DEF WindowBound, Used
  <1> QED
    BY <1>1, AccountAlways, PTL

\* Nothing but what was let through is taken from a client's allowance: no
\* number of refused requests costs it a token.
THEOREM RefusalsAreFree == Spec => []NothingWithheld
  <1>1. IInv => NothingWithheld
    BY DEF IInv, Account, NothingWithheld, Given, Used
  <1> QED
    BY <1>1, AccountAlways, PTL

-----------------------------------------------------------------------------
\* Whatever check_request finds before it asks the limiter, and whatever the
\* circuit breaker says afterwards, the client's bucket behaves like the
\* limiter alone: the three theorems hold of the sequence of checks too.
THEOREM ChecksKeepLimiter == CheckSpec => Spec
  <1>1. CheckInit => Init
    BY DEF CheckInit
  <1>2. [CheckNext]_checkVars => [Next]_vars
    <2> SUFFICES ASSUME [CheckNext]_checkVars PROVE Next \/ UNCHANGED vars
      OBVIOUS
    <2>1. CASE UNCHANGED checkVars
      BY <2>1 DEF checkVars
    <2>2. CASE BetweenRequests
      BY <2>2 DEF BetweenRequests, Next
    <2>3. ASSUME NEW known_key \in BOOLEAN, CheckRequest(known_key)
          PROVE  Next \/ UNCHANGED vars
      BY <2>3 DEF CheckRequest, RefusedByFilter, RefusedByKey, RefusedByLimiter,
                  PassesLimiter, Next
    <2> QED
      BY <2>1, <2>2, <2>3 DEF CheckNext
  <1> QED
    BY <1>1, <1>2, PTL DEF CheckSpec, Spec

-----------------------------------------------------------------------------
(* The filter: what it compiles the lists to, and what it says of a client. *)

\* An address has the bits of a network under its mask exactly if it agrees
\* with it in each of its first bits.
LEMMA MaskCompares ==
  ASSUME NEW ip, NEW cidr
  PROVE  ip \cap Mask(cidr.prefix) = cidr.ip \cap Mask(cidr.prefix) <=> InNetwork(ip, cidr)
  <1>1. ASSUME ip \cap Mask(cidr.prefix) = cidr.ip \cap Mask(cidr.prefix)
        PROVE  InNetwork(ip, cidr)
    BY <1>1 DEF Mask, InNetwork
  <1>2. ASSUME InNetwork(ip, cidr)
        PROVE  ip \cap Mask(cidr.prefix) = cidr.ip \cap Mask(cidr.prefix)
    BY <1>2 DEF Mask, InNetwork
  <1> QED
    BY <1>1, <1>2

LEMMA MatchesIsMembership ==
  ASSUME NEW list, Readable(list), NEW ip
  PROVE  Matches(ip, list) <=> \E cidr \in list : InNetwork(ip, cidr)
  <1>1. \A cidr \in list :
          /\ ParseCidr(cidr).mask = Mask(cidr.prefix)
          /\ ParseCidr(cidr).network = cidr.ip \cap Mask(cidr.prefix)
    BY DEF Readable, ParseCidr, ParseIp
  <1>2. Matches(ip, list) <=>
          \E cidr \in list : ip \cap Mask(cidr.prefix) = cidr.ip \cap Mask(cidr.prefix)
    BY <1>1, Zenon DEF Matches
  <1> QED
    BY <1>2, MaskCompares, Zenon

\* The filter does not change, and says the same of each of the client's requests.
FilterInv ==
    /\ filter \in Started
    /\ verdict # "none" => (verdict = "FORBIDDEN" <=> Forbidden)

LEMMA FilterStep ==
  ASSUME FilterInv, [CheckNext]_checkVars
  PROVE  FilterInv'
  <1>1. filter' = filter /\ client' = client
    BY DEF CheckNext, CheckRequest, RefusedByFilter, RefusedByKey, RefusedByLimiter,
           PassesLimiter, BetweenRequests, checkVars, setup
  <1>2. Forbidden' = Forbidden
    BY <1>1 DEF Forbidden, IsAllowed, Matches, ParseIp
  <1>3. Started' = Started
    BY DEF Started, Built, Compiles, WithIpWhitelist, WithIpBlacklist
  <1>4. \/ verdict' = verdict \/ verdict' = "none"
        \/ verdict' = "FORBIDDEN" /\ Forbidden
        \/ verdict' # "FORBIDDEN" /\ ~Forbidden
    BY DEF CheckNext, CheckRequest, RefusedByFilter, RefusedByKey, RefusedByLimiter,
           PassesLimiter, BetweenRequests, checkVars
  <1> QED
    BY <1>1, <1>2, <1>3, <1>4 DEF FilterInv

\* A list set by with_ip_whitelist turns default_allow off; without one it stays on.
LEMMA BuiltFilters ==
  ASSUME NEW f \in Started
  PROVE  f.default_allow => f.whitelist = {}
  <1>1. CASE \E b \in Blacklists : f = WithIpBlacklist(NoFilter, b)
    BY <1>1 DEF WithIpBlacklist, NoFilter
  <1>2. CASE \E w \in Whitelists, b \in Blacklists :
               f = WithIpBlacklist(WithIpWhitelist(NoFilter, w), b)
    <2>1. PICK w \in Whitelists, b \in Blacklists :
            f = WithIpBlacklist(WithIpWhitelist(NoFilter, w), b)
      BY <1>2
    <2> DEFINE whitelisted == WithIpWhitelist(NoFilter, w)
    <2>2. ~whitelisted.default_allow /\ "default_allow" \in DOMAIN whitelisted
      BY DEF WithIpWhitelist, NoFilter
    <2>3. f.default_allow = whitelisted.default_allow
      BY <2>1, <2>2 DEF WithIpBlacklist
    <2> QED
      BY <2>2, <2>3
  <1> QED
    BY <1>1, <1>2 DEF Started, Built

\* Whoever check_request turns away for an address that can be read is in a
\* network of the blacklist or, if with_ip_whitelist was called, in none of the whitelist's;
\* and nobody else is.  For every pair of lists, every prefix length and
\* every width of an address; entries that cannot be read excepted.
THEOREM FilterIsExact == CheckSpec => []FilterMatchesLists
  <1>1. CheckInit => FilterInv
    BY DEF CheckInit, FilterInv
  <1>2. FilterInv /\ [CheckNext]_checkVars => FilterInv'
    BY FilterStep
  <1>3. FilterInv => FilterMatchesLists
    <2> SUFFICES ASSUME FilterInv, verdict # "none", client \notin {NoIp, Unparsed},
                        Readable(filter.whitelist \cup filter.blacklist)
                 PROVE  verdict = "FORBIDDEN" <=>
                          \/ InList(filter.blacklist)
                          \/ ~filter.default_allow /\ ~InList(filter.whitelist)
      BY DEF FilterMatchesLists
    <2>1. Readable(filter.whitelist) /\ Readable(filter.blacklist)
      BY DEF Readable
    <2>2. filter.default_allow => filter.whitelist = {}
      BY BuiltFilters DEF FilterInv
    <2>3. verdict = "FORBIDDEN" <=> ~IsAllowed(filter, client)
      BY DEF FilterInv, Forbidden
    <2>4. client \notin {NoIp, Unparsed} /\ ParseIp(client) = client
      BY DEF ParseIp
    <2>5. /\ Matches(client, filter.blacklist) <=> InList(filter.blacklist)
          /\ Matches(client, filter.whitelist) <=> InList(filter.whitelist)
      BY <2>1, MatchesIsMembership DEF InList
    <2>6. filter.whitelist = {} => ~InList(filter.whitelist)
      BY DEF InList
    <2> QED
      BY <2>2, <2>3, <2>4, <2>5, <2>6 DEF IsAllowed
  <1> QED
    BY <1>1, <1>2, <1>3, PTL DEF CheckSpec
=============================================================================
