--------------------------- MODULE CircuitBreaker ---------------------------
(***************************************************************************)
(* PerIpCircuitBreaker (include/mcp/security/circuit_breaker.hh) for one   *)
(* client address on one shard, and the handlers that use it: each passes  *)
(* check_request, suspends in dispatch and then calls record_outcome, so   *)
(* outcomes arrive in any order and in any later state of the breaker.     *)
(* The entries of _states do not influence each other; an absent entry is  *)
(* one in its initial state.                                               *)
(***************************************************************************)
EXTENDS Integers, FiniteSets

CONSTANTS
    FailureThreshold, \* CircuitBreakerConfig::failure_threshold
    SuccessThreshold, \* CircuitBreakerConfig::success_threshold
    HalfOpenMax,      \* CircuitBreakerConfig::half_open_max_reqs
    Timeout,          \* CircuitBreakerConfig::timeout_seconds
    Reqs,             \* the requests a client has in dispatch at once (bound)
    Unreported        \* ways a request ends without record_outcome (bound)

ASSUME ThresholdAssumption ==
    /\ FailureThreshold \in Nat \ {0}
    /\ SuccessThreshold \in Nat \ {0}
    /\ HalfOpenMax \in Nat \ {0}
    /\ Timeout \in Nat
ASSUME UnreportedAssumption == Unreported \subseteq {"stream", "exception"}
ASSUME ReqsAssumption == IsFiniteSet(Reqs)

CbState == {"CLOSED", "OPEN", "HALF_OPEN"}

VARIABLES
    state,           \* CircuitState::state
    failure_count,   \* CircuitState::failure_count
    success_count,   \* CircuitState::success_count
    half_open_reqs,  \* CircuitState::half_open_reqs
    open_age,        \* whole seconds since open_time, Timeout standing for more
    flight,          \* when each request in dispatch was admitted:
                     \* "probe" in the present HALF_OPEN period, "other" before it
    lost_probes      \* (history) the probes of the present HALF_OPEN period
                     \* that record no outcome

circuit == <<state, failure_count, success_count, half_open_reqs, open_age>>
vars == <<circuit, flight, lost_probes>>
-----------------------------------------------------------------------------
Init ==
    /\ state = "CLOSED"
    /\ failure_count = 0
    /\ success_count = 0
    /\ half_open_reqs = 0
    /\ open_age = 0
    /\ flight = [r \in Reqs |-> "none"]
    /\ lost_probes = 0

InFlight(tag) == {r \in Reqs : flight[r] = tag}

\* A request that leaves the period it was admitted in is no probe any more.
Aged == [r \in Reqs |-> IF flight[r] = "probe" THEN "other" ELSE flight[r]]

Tick ==
    /\ state = "OPEN"
    /\ open_age < Timeout
    /\ open_age' = open_age + 1
    /\ UNCHANGED <<state, failure_count, success_count, half_open_reqs, flight,
                   lost_probes>>

-----------------------------------------------------------------------------
(* allow: the ways it returns true.  When it returns false nothing changes. *)

AllowClosed ==
    /\ state = "CLOSED"
    /\ UNCHANGED circuit

\* Mutant: the request that ends the cooling period is not counted.
AllowOpenUncounted ==
    /\ state = "OPEN"
    /\ open_age >= Timeout
    /\ state' = "HALF_OPEN"
    /\ success_count' = 0
    /\ half_open_reqs' = 0
    /\ UNCHANGED <<failure_count, open_age>>

AllowOpen ==
    /\ state = "OPEN"
    /\ open_age >= Timeout
    /\ state' = "HALF_OPEN"
    /\ success_count' = 0
    /\ half_open_reqs' = 1
    /\ UNCHANGED <<failure_count, open_age>>

\* Mutant: one probe too many.
AllowHalfOpenOffByOne ==
    /\ state = "HALF_OPEN"
    /\ half_open_reqs <= HalfOpenMax
    /\ half_open_reqs' = half_open_reqs + 1
    /\ UNCHANGED <<state, failure_count, success_count, open_age>>

AllowHalfOpen ==
    /\ state = "HALF_OPEN"
    /\ half_open_reqs < HalfOpenMax
    /\ half_open_reqs' = half_open_reqs + 1
    /\ UNCHANGED <<state, failure_count, success_count, open_age>>

-----------------------------------------------------------------------------
(* record_success and record_failure; neither acts on an OPEN circuit. *)

Closed ==
    /\ state' = "CLOSED"
    /\ failure_count' = 0
    /\ success_count' = 0
    /\ half_open_reqs' = 0
    /\ open_age' = 0

\* Mutant: recovery keeps the probe counters of the period that ends.
RecordSuccessKeepsCounts ==
    \/ /\ state = "CLOSED"
       /\ failure_count' = 0
       /\ UNCHANGED <<state, success_count, half_open_reqs, open_age>>
    \/ /\ state = "HALF_OPEN"
       /\ success_count' = success_count + 1
       /\ state' = IF success_count + 1 < SuccessThreshold THEN "HALF_OPEN" ELSE "CLOSED"
       /\ failure_count' = IF success_count + 1 < SuccessThreshold THEN failure_count ELSE 0
       /\ UNCHANGED <<half_open_reqs, open_age>>
    \/ /\ state = "OPEN"
       /\ UNCHANGED circuit

\* Mutant: a probe's success is counted only while the circuit is closed.
RecordSuccessClosedOnly ==
    \/ /\ state = "CLOSED"
       /\ failure_count' = 0
       /\ UNCHANGED <<state, success_count, half_open_reqs, open_age>>
    \/ /\ state \in {"OPEN", "HALF_OPEN"}
       /\ UNCHANGED circuit

RecordSuccess ==
    \/ /\ state = "CLOSED"
       /\ failure_count' = 0
       /\ UNCHANGED <<state, success_count, half_open_reqs, open_age>>
    \/ /\ state = "HALF_OPEN"
       /\ success_count + 1 < SuccessThreshold
       /\ success_count' = success_count + 1
       /\ UNCHANGED <<state, failure_count, half_open_reqs, open_age>>
    \/ /\ state = "HALF_OPEN"
       /\ success_count + 1 >= SuccessThreshold
       /\ Closed
    \/ /\ state = "OPEN"
       /\ UNCHANGED circuit

\* Mutant: a failure in HALF_OPEN reopens without restarting the clock.
RecordFailureKeepsClock ==
    \/ /\ state = "CLOSED"
       /\ failure_count' = failure_count + 1
       /\ IF failure_count + 1 >= FailureThreshold
          THEN state' = "OPEN" /\ open_age' = 0
          ELSE UNCHANGED <<state, open_age>>
       /\ UNCHANGED <<success_count, half_open_reqs>>
    \/ /\ state = "HALF_OPEN"
       /\ state' = "OPEN"
       /\ success_count' = 0
       /\ half_open_reqs' = 0
       /\ UNCHANGED <<failure_count, open_age>>
    \/ /\ state = "OPEN"
       /\ UNCHANGED circuit

RecordFailure ==
    \/ /\ state = "CLOSED"
       /\ failure_count' = failure_count + 1
       /\ IF failure_count + 1 >= FailureThreshold
          THEN state' = "OPEN" /\ open_age' = 0
          ELSE UNCHANGED <<state, open_age>>
       /\ UNCHANGED <<success_count, half_open_reqs>>
    \/ /\ state = "HALF_OPEN"
       /\ state' = "OPEN"
       /\ open_age' = 0
       /\ success_count' = 0
       /\ half_open_reqs' = 0
       /\ UNCHANGED failure_count
    \/ /\ state = "OPEN"
       /\ UNCHANGED circuit

-----------------------------------------------------------------------------
(* The handlers. *)

\* POST /message and POST /mcp: admitted, then suspended in dispatch.
Admit(r) ==
    /\ flight[r] = "none"
    /\ AllowClosed \/ AllowOpen \/ AllowHalfOpen
    /\ flight' = [flight EXCEPT ![r] = IF state = "CLOSED" THEN "other" ELSE "probe"]
    /\ UNCHANGED lost_probes

\* GET /sse and GET /mcp: admitted, and no outcome is ever recorded.
AdmitStream ==
    /\ "stream" \in Unreported
    /\ AllowClosed \/ AllowOpen \/ AllowHalfOpen
    /\ lost_probes' = IF state = "CLOSED" THEN 0 ELSE lost_probes + 1
    /\ UNCHANGED flight

\* dispatch returned: record_outcome, by whether the response holds "error".
Report(r) ==
    /\ flight[r] # "none"
    /\ RecordSuccess \/ RecordFailure
    /\ flight' = IF state' = state THEN [flight EXCEPT ![r] = "none"]
                 ELSE [Aged EXCEPT ![r] = "none"]
    /\ lost_probes' = IF state' = state THEN lost_probes ELSE 0

\* dispatch threw: the handler ends before record_outcome.
Throw(r) ==
    /\ "exception" \in Unreported
    /\ flight[r] # "none"
    /\ flight' = [flight EXCEPT ![r] = "none"]
    /\ lost_probes' = IF flight[r] = "probe" THEN lost_probes + 1 ELSE lost_probes
    /\ UNCHANGED circuit

\* The management operation reset.
Reset ==
    /\ Closed
    /\ flight' = Aged
    /\ lost_probes' = 0

-----------------------------------------------------------------------------
Next ==
    \/ Tick
    \/ \E r \in Reqs : Admit(r) \/ Report(r) \/ Throw(r)
    \/ AdmitStream
    \/ Reset

Spec == Init /\ [][Next]_vars

\* Time passes, handlers return, and the client goes on sending requests.
Fairness ==
    /\ WF_vars(Tick)
    /\ WF_vars(\E r \in Reqs : Admit(r))
    /\ \A r \in Reqs : WF_vars(Report(r) \/ Throw(r))

FairSpec == Spec /\ Fairness
-----------------------------------------------------------------------------
(* Properties. *)

TypeOK ==
    /\ state \in CbState
    /\ failure_count \in 0..FailureThreshold
    /\ success_count \in 0..SuccessThreshold
    /\ half_open_reqs \in 0..HalfOpenMax
    /\ open_age \in 0..Timeout
    /\ flight \in [Reqs -> {"none", "other", "probe"}]
    /\ lost_probes \in 0..HalfOpenMax

\* Every period starts from fresh counters, whatever order outcomes arrive in
\* and whichever way the last period ended: a closed circuit has no successes
\* or probes left over and fewer failures than the threshold; a half-open one
\* has admitted at least the request that opened it.
CountersMatchState ==
    /\ state = "CLOSED" =>
         failure_count < FailureThreshold /\ success_count = 0 /\ half_open_reqs = 0
    /\ state = "OPEN" =>
         failure_count = FailureThreshold /\ success_count = 0 /\ half_open_reqs = 0
    /\ state = "HALF_OPEN" =>
         /\ failure_count = FailureThreshold
         /\ success_count < SuccessThreshold
         /\ half_open_reqs \in 1..HalfOpenMax

\* While a recovery is being tested, the requests being served that were
\* admitted since the test began, and those that will never report, are no
\* more than half_open_max_reqs, however many still run from before it; and
\* outside a test there are none.
ProbesBounded ==
    IF state = "HALF_OPEN"
    THEN Cardinality(InFlight("probe")) + lost_probes <= HalfOpenMax
    ELSE InFlight("probe") = {} /\ lost_probes = 0

\* A circuit that opens, each time it does, stays shut for the whole of
\* timeout_seconds unless it is reset by hand: no late outcome of an earlier
\* request shortens it, and a failed recovery test costs the full time again.
OpenLastsTimeout ==
    [][/\ state = "OPEN" /\ state' # "OPEN" => open_age = Timeout \/ Reset
       /\ state # "OPEN" /\ state' = "OPEN" => open_age' = 0]_vars

\* A recovery test never locks the client out while it can still succeed: as
\* long as so few probes were lost that success_threshold can be reached, a
\* probe is being served or allow admits another.
TestNotStuck ==
    state = "HALF_OPEN" /\ HalfOpenMax - lost_probes >= SuccessThreshold =>
        InFlight("probe") # {} \/ half_open_reqs < HalfOpenMax

\* The slots of a recovery test are counted right both ways: there are never
\* more probes than slots, and no slot is used up but by a probe that is being
\* served, was lost or succeeded.  CircuitBreaker::allow and record_success.
ProbeSlotsExact == ProbesBounded /\ TestNotStuck

\* A recovery test comes to a result as long as enough of its probes report.
\* (Without the exception it fails: streams take probes and never report, while
\* include/mcp/core/builder.hh says that success_threshold successes end a test.)
HalfOpenResolvesUnlessLost ==
    state = "HALF_OPEN" ~>
        state # "HALF_OPEN" \/ HalfOpenMax - lost_probes < SuccessThreshold
=============================================================================
