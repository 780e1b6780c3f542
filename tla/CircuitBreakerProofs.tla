------------------------ MODULE CircuitBreakerProofs ------------------------
(***************************************************************************)
(* Proofs about CircuitBreaker: for every threshold, timeout and set of    *)
(* requests, the counters match the state, the probes of a recovery test   *)
(* are bounded, and an open circuit stays shut for its whole timeout.      *)
(***************************************************************************)
EXTENDS CircuitBreaker, FiniteSetTheorems, TLAPS

\* ProbesBounded is not inductive: half_open_reqs is what bounds the probes
\* at the next admission.
ProbeInv ==
    IF state = "HALF_OPEN"
    THEN Cardinality(InFlight("probe")) + lost_probes <= half_open_reqs
    ELSE InFlight("probe") = {} /\ lost_probes = 0

FlightOK == flight \in [Reqs -> {"none", "other", "probe"}] /\ lost_probes \in Nat

CircuitOK ==
    /\ state \in CbState
    /\ failure_count \in 0..FailureThreshold
    /\ success_count \in 0..SuccessThreshold
    /\ half_open_reqs \in 0..HalfOpenMax
    /\ open_age \in 0..Timeout

Inv == CircuitOK /\ CountersMatchState /\ FlightOK /\ ProbeInv

Allow == AllowClosed \/ AllowOpen \/ AllowHalfOpen
Record == RecordSuccess \/ RecordFailure

-----------------------------------------------------------------------------
(* The breaker by itself: whatever calls it in whatever order. *)

LEMMA CircuitStep ==
  ASSUME CircuitOK, CountersMatchState,
         \/ Allow \/ Record \/ Closed \/ UNCHANGED circuit
         \/ Tick
  PROVE  CircuitOK' /\ CountersMatchState'
<1> USE ThresholdAssumption DEF CircuitOK, CountersMatchState, CbState
<1>1. CASE Allow
  <2>1. CASE AllowClosed
    BY <2>1 DEF AllowClosed, circuit
  <2>2. CASE AllowOpen
    BY <2>2 DEF AllowOpen
  <2>3. CASE AllowHalfOpen
    BY <2>3 DEF AllowHalfOpen
  <2>. QED
    BY <1>1, <2>1, <2>2, <2>3 DEF Allow
<1>2. CASE RecordSuccess
  BY <1>2 DEF RecordSuccess, Closed, circuit
<1>3. CASE RecordFailure
  BY <1>3 DEF RecordFailure, circuit
<1>4. CASE Closed
  BY <1>4 DEF Closed
<1>5. CASE UNCHANGED circuit
  BY <1>5 DEF circuit
<1>6. CASE Tick
  BY <1>6 DEF Tick
<1>. QED
  BY <1>1, <1>2, <1>3, <1>4, <1>5, <1>6 DEF Record

\* Every step of the system is such a call.
LEMMA NextIsCircuitStep ==
  ASSUME [Next]_vars
  PROVE  Allow \/ Record \/ Closed \/ UNCHANGED circuit \/ Tick
  BY DEF Next, vars, Allow, Record, Admit, AdmitStream, Report, Throw, Reset

-----------------------------------------------------------------------------
(* The probes. *)

LEMMA InFlightFinite ==
  ASSUME NEW tag
  PROVE  IsFiniteSet(InFlight(tag)) /\ Cardinality(InFlight(tag)) \in Nat
<1>1. InFlight(tag) \subseteq Reqs
  BY DEF InFlight
<1>. QED
  BY <1>1, ReqsAssumption, FS_Subset, FS_CardinalityType

\* A request that returns or throws is one probe less, if it was one.
LEMMA ProbeLeaves ==
  ASSUME FlightOK, NEW r \in Reqs, flight[r] # "none",
         flight' = [flight EXCEPT ![r] = "none"]
  PROVE  Cardinality(InFlight("probe"))' =
           IF flight[r] = "probe" THEN Cardinality(InFlight("probe")) - 1
                                  ELSE Cardinality(InFlight("probe"))
<1>1. CASE flight[r] = "probe"
  <2>1. InFlight("probe")' = InFlight("probe") \ {r} /\ r \in InFlight("probe")
    BY <1>1 DEF InFlight, FlightOK
  <2>. QED
    BY <1>1, <2>1, InFlightFinite, FS_RemoveElement
<1>2. CASE flight[r] # "probe"
  <2>1. InFlight("probe")' = InFlight("probe")
    BY <1>2 DEF InFlight, FlightOK
  <2>. QED
    BY <1>2, <2>1
<1>. QED
  BY <1>1, <1>2

\* After a change of state every request still running is an old one.
LEMMA NoProbeAfterAged ==
  ASSUME FlightOK, flight' = Aged \/ \E r \in Reqs : flight' = [Aged EXCEPT ![r] = "none"]
  PROVE  InFlight("probe")' = {} /\ flight' \in [Reqs -> {"none", "other", "probe"}]
  BY DEF InFlight, Aged, FlightOK

LEMMA AdmitStep ==
  ASSUME Inv, NEW r \in Reqs, Admit(r)
  PROVE  FlightOK' /\ ProbeInv'
<1>1. FlightOK'
  BY DEF Admit, FlightOK, Inv
<1>2. CASE AllowClosed
  <2>1. state = "CLOSED" /\ state' = "CLOSED"
    BY <1>2 DEF AllowClosed, circuit
  <2>2. InFlight("probe")' = {} /\ lost_probes' = 0
    BY <2>1 DEF Inv, ProbeInv, InFlight, Admit, FlightOK
  <2>. QED
    BY <1>1, <2>1, <2>2 DEF ProbeInv
<1>3. ASSUME state # "CLOSED"
      PROVE  Cardinality(InFlight("probe"))' = Cardinality(InFlight("probe")) + 1
  <2>1. InFlight("probe")' = InFlight("probe") \cup {r} /\ r \notin InFlight("probe")
    BY <1>3 DEF Inv, InFlight, Admit, FlightOK
  <2>. QED
    BY <2>1, InFlightFinite, FS_AddElement
<1>4. CASE AllowOpen
  <2>1. Cardinality(InFlight("probe")) = 0 /\ lost_probes = 0 /\ lost_probes' = 0
    BY <1>4, FS_EmptySet DEF AllowOpen, Inv, ProbeInv, Admit
  <2>2. state # "CLOSED" /\ state' = "HALF_OPEN" /\ half_open_reqs' = 1
    BY <1>4 DEF AllowOpen
  <2>3. Cardinality(InFlight("probe"))' = 1
    BY <1>3, <2>1, <2>2
  <2>. QED
    BY <1>1, <2>1, <2>2, <2>3 DEF ProbeInv
<1>5. CASE AllowHalfOpen
  <2>1. /\ state = "HALF_OPEN" /\ state' = "HALF_OPEN"
        /\ half_open_reqs' = half_open_reqs + 1
        /\ half_open_reqs \in Int
        /\ lost_probes' = lost_probes
        /\ lost_probes \in Nat
    BY <1>5, ThresholdAssumption DEF AllowHalfOpen, Inv, CircuitOK, FlightOK, Admit
  <2>2. Cardinality(InFlight("probe")) + lost_probes <= half_open_reqs
    BY <2>1 DEF Inv, ProbeInv
  <2>3. Cardinality(InFlight("probe"))' = Cardinality(InFlight("probe")) + 1
    BY <1>3, <2>1
  <2>. QED
    BY <1>1, <2>1, <2>2, <2>3, InFlightFinite DEF ProbeInv
<1>. QED
  BY <1>2, <1>4, <1>5 DEF Admit

LEMMA AdmitStreamStep ==
  ASSUME Inv, AdmitStream
  PROVE  FlightOK' /\ ProbeInv'
<1>1. FlightOK' /\ InFlight("probe")' = InFlight("probe")
  BY DEF AdmitStream, FlightOK, Inv, InFlight
<1>2. CASE AllowClosed
  BY <1>1, <1>2 DEF AllowClosed, circuit, AdmitStream, Inv, ProbeInv
<1>3. CASE AllowOpen
  <2>1. Cardinality(InFlight("probe")) = 0 /\ lost_probes = 0
    BY <1>3, FS_EmptySet DEF AllowOpen, Inv, ProbeInv
  <2>. QED
    BY <1>1, <1>3, <2>1 DEF AllowOpen, AdmitStream, ProbeInv
<1>4. CASE AllowHalfOpen
  <2>1. /\ Cardinality(InFlight("probe")) + lost_probes <= half_open_reqs
        /\ half_open_reqs \in Int /\ lost_probes \in Nat
    BY <1>4, ThresholdAssumption DEF AllowHalfOpen, Inv, ProbeInv, CircuitOK, FlightOK
  <2>. QED
    BY <1>1, <1>4, <2>1, InFlightFinite DEF AllowHalfOpen, AdmitStream, ProbeInv
<1>. QED
  BY <1>2, <1>3, <1>4 DEF AdmitStream

LEMMA ReportStep ==
  ASSUME Inv, NEW r \in Reqs, Report(r)
  PROVE  FlightOK' /\ ProbeInv'
<1>1. CASE state' = state
  <2>1. flight' = [flight EXCEPT ![r] = "none"] /\ lost_probes' = lost_probes
    BY <1>1 DEF Report
  <2>2. FlightOK'
    BY <2>1 DEF Inv, FlightOK
  <2>3. CASE state = "HALF_OPEN"
    <3>1. half_open_reqs' = half_open_reqs
      BY <1>1, <2>3 DEF Report, RecordSuccess, RecordFailure, Closed, circuit
    <3>2. Cardinality(InFlight("probe")) + lost_probes <= half_open_reqs
      BY <2>3 DEF Inv, ProbeInv
    <3>3. Cardinality(InFlight("probe"))' =
            IF flight[r] = "probe" THEN Cardinality(InFlight("probe")) - 1
                                   ELSE Cardinality(InFlight("probe"))
      BY <2>1, ProbeLeaves DEF Inv, Report
    <3>4. half_open_reqs \in Int /\ lost_probes \in Nat
      BY ThresholdAssumption DEF Inv, CircuitOK, FlightOK
    <3>. QED
      BY <1>1, <2>1, <2>2, <2>3, <3>1, <3>2, <3>3, <3>4, InFlightFinite DEF ProbeInv
  <2>4. CASE state # "HALF_OPEN"
    <3>1. InFlight("probe")' = {} /\ lost_probes' = 0
      BY <2>1, <2>4 DEF Inv, ProbeInv, InFlight, FlightOK
    <3>. QED
      BY <1>1, <2>2, <2>4, <3>1 DEF ProbeInv
  <2>. QED
    BY <2>3, <2>4
<1>2. CASE state' # state
  <2>1. InFlight("probe")' = {} /\ FlightOK' /\ lost_probes' = 0
    BY <1>2, NoProbeAfterAged DEF Report, Inv, FlightOK
  <2>2. state' # "HALF_OPEN"
    BY <1>2 DEF Report, RecordSuccess, RecordFailure, Closed, circuit
  <2>. QED
    BY <2>1, <2>2 DEF ProbeInv
<1>. QED
  BY <1>1, <1>2

LEMMA ThrowStep ==
  ASSUME Inv, NEW r \in Reqs, Throw(r)
  PROVE  FlightOK' /\ ProbeInv'
<1>1. /\ state' = state /\ half_open_reqs' = half_open_reqs
      /\ flight' = [flight EXCEPT ![r] = "none"]
      /\ lost_probes' = IF flight[r] = "probe" THEN lost_probes + 1 ELSE lost_probes
  BY DEF Throw, circuit
<1>2. FlightOK'
  BY <1>1 DEF Inv, FlightOK
<1>3. CASE state = "HALF_OPEN"
  <2>1. /\ Cardinality(InFlight("probe")) + lost_probes <= half_open_reqs
        /\ lost_probes \in Nat /\ half_open_reqs \in Int
    BY <1>3, ThresholdAssumption DEF Inv, ProbeInv, FlightOK, CircuitOK
  <2>2. Cardinality(InFlight("probe"))' =
          IF flight[r] = "probe" THEN Cardinality(InFlight("probe")) - 1
                                 ELSE Cardinality(InFlight("probe"))
    BY <1>1, ProbeLeaves DEF Inv, Throw
  <2>. QED
    BY <1>1, <1>2, <1>3, <2>1, <2>2, InFlightFinite DEF ProbeInv
<1>4. CASE state # "HALF_OPEN"
  <2>1. InFlight("probe")' = {} /\ lost_probes' = 0
    BY <1>1, <1>4 DEF Inv, ProbeInv, InFlight, FlightOK
  <2>. QED
    BY <1>1, <1>2, <1>4, <2>1 DEF ProbeInv
<1>. QED
  BY <1>3, <1>4

-----------------------------------------------------------------------------
(* The theorems. *)

LEMMA Invariance == Spec => []Inv
<1>1. Init => Inv
  <2> SUFFICES ASSUME Init PROVE Inv
    OBVIOUS
  <2>1. CircuitOK /\ CountersMatchState /\ FlightOK
    BY ThresholdAssumption DEF Init, CircuitOK, CbState, CountersMatchState, FlightOK
  <2>2. InFlight("probe") = {}
    BY DEF Init, InFlight
  <2>. QED
    BY <2>1, <2>2 DEF Init, Inv, ProbeInv
<1>2. Inv /\ [Next]_vars => Inv'
  <2> SUFFICES ASSUME Inv, [Next]_vars PROVE Inv'
    OBVIOUS
  <2>1. CircuitOK' /\ CountersMatchState'
    BY CircuitStep, NextIsCircuitStep DEF Inv
  <2>2. FlightOK' /\ ProbeInv'
    <3>1. ASSUME NEW r \in Reqs, Admit(r) \/ Report(r) \/ Throw(r)
          PROVE  FlightOK' /\ ProbeInv'
      BY <3>1, AdmitStep, ReportStep, ThrowStep
    <3>2. CASE Reset
      <4>1. InFlight("probe")' = {} /\ FlightOK' /\ lost_probes' = 0 /\ state' = "CLOSED"
        BY <3>2, NoProbeAfterAged DEF Reset, Closed, Inv, FlightOK
      <4>. QED
        BY <4>1 DEF ProbeInv
    <3>3. CASE Tick \/ UNCHANGED vars
      BY <3>3 DEF Tick, vars, circuit, Inv, FlightOK, ProbeInv, InFlight
    <3>. QED
      BY <3>1, <3>2, <3>3, AdmitStreamStep DEF Next
  <2>. QED
    BY <2>1, <2>2 DEF Inv
<1>. QED
  BY <1>1, <1>2, PTL DEF Spec

LEMMA InvImpliesBound == Inv => ProbesBounded /\ TypeOK
<1> SUFFICES ASSUME Inv PROVE ProbesBounded /\ TypeOK
  OBVIOUS
<1>1. half_open_reqs \in 0..HalfOpenMax /\ lost_probes \in Nat
  BY DEF Inv, CircuitOK, FlightOK
<1>2. ProbesBounded
  BY <1>1, ThresholdAssumption, InFlightFinite DEF Inv, ProbeInv, ProbesBounded
<1>3. lost_probes \in 0..HalfOpenMax
  BY <1>1, <1>2, ThresholdAssumption, InFlightFinite DEF ProbesBounded
<1>. QED
  BY <1>2, <1>3 DEF Inv, CircuitOK, FlightOK, TypeOK

\* Every variable keeps its type; the counters stay within their thresholds.
THEOREM TypeCorrect == Spec => []TypeOK
  BY Invariance, InvImpliesBound, PTL

\* Each state of the breaker starts from fresh counters.
THEOREM CountersAreFresh == Spec => []CountersMatchState
<1>1. Inv => CountersMatchState
  BY DEF Inv
<1>. QED
  BY <1>1, Invariance, PTL

\* The probes of a recovery test never exceed half_open_max_reqs.
THEOREM ProbesAreBounded == Spec => []ProbesBounded
  BY Invariance, InvImpliesBound, PTL

\* No outcome, however late, shortens the time an open circuit stays shut.
THEOREM OpenIsNotShortened == Spec => OpenLastsTimeout
<1>1. Inv /\ [Next]_vars =>
        [/\ state = "OPEN" /\ state' # "OPEN" => open_age = Timeout \/ Reset
         /\ state # "OPEN" /\ state' = "OPEN" => open_age' = 0]_vars
  <2> SUFFICES ASSUME Inv, [Next]_vars, vars' # vars
               PROVE  /\ state = "OPEN" /\ state' # "OPEN" => open_age = Timeout \/ Reset
                      /\ state # "OPEN" /\ state' = "OPEN" => open_age' = 0
    OBVIOUS
  <2>1. open_age \in 0..Timeout /\ Timeout \in Nat
    BY ThresholdAssumption DEF Inv, CircuitOK
  <2>2. CASE Allow
    BY <2>1, <2>2 DEF Allow, AllowClosed, AllowOpen, AllowHalfOpen, circuit
  <2>3. CASE Record
    BY <2>3 DEF Record, RecordSuccess, RecordFailure, Closed, circuit
  <2>4. CASE Reset
    BY <2>4 DEF Reset, Closed
  <2>5. CASE Tick \/ UNCHANGED circuit
    BY <2>5 DEF Tick, circuit
  <2>. QED
    BY <2>2, <2>3, <2>4, <2>5
       DEF Next, vars, Allow, Record, Admit, AdmitStream, Report, Throw
<1>. QED
  BY <1>1, Invariance, PTL DEF Spec, OpenLastsTimeout

-----------------------------------------------------------------------------
(* A recovery test is not stuck. *)

\* Every probe admitted in this test is still served, was lost, or has
\* reported a success: a failure ends the test.
ProbesAccounted ==
    state = "HALF_OPEN" =>
        half_open_reqs <= Cardinality(InFlight("probe")) + lost_probes + success_count

LEMMA CountsType ==
  ASSUME Inv
  PROVE  /\ half_open_reqs \in Nat /\ success_count \in Nat /\ lost_probes \in Nat
         /\ Cardinality(InFlight("probe")) \in Nat
  BY InFlightFinite, ThresholdAssumption DEF Inv, CircuitOK, FlightOK

\* The request that is admitted is served; a stream's is lost at once.
LEMMA AdmitAccounted ==
  ASSUME Inv, ProbesAccounted, NEW r \in Reqs, Admit(r)
  PROVE  ProbesAccounted'
<1>1. CASE AllowClosed
  BY <1>1 DEF AllowClosed, circuit, ProbesAccounted
<1>2. CASE ~AllowClosed
  <2>1. InFlight("probe")' = InFlight("probe") \cup {r} /\ r \notin InFlight("probe")
    BY <1>2 DEF Inv, InFlight, Admit, FlightOK, AllowOpen, AllowHalfOpen
  <2>2. Cardinality(InFlight("probe"))' = Cardinality(InFlight("probe")) + 1
    BY <2>1, InFlightFinite, FS_AddElement
  <2>. QED
    BY <1>2, <2>2, CountsType DEF Admit, AllowOpen, AllowHalfOpen, ProbesAccounted
<1>. QED
  BY <1>1, <1>2 DEF Admit

LEMMA StreamAccounted ==
  ASSUME Inv, ProbesAccounted, AdmitStream
  PROVE  ProbesAccounted'
<1>1. CASE AllowClosed
  BY <1>1 DEF AllowClosed, circuit, ProbesAccounted
<1>2. CASE ~AllowClosed
  <2>1. InFlight("probe")' = InFlight("probe") /\ lost_probes' = lost_probes + 1
    BY <1>2 DEF AdmitStream, InFlight, AllowOpen, AllowHalfOpen
  <2>. QED
    BY <1>2, <2>1, CountsType DEF AdmitStream, AllowOpen, AllowHalfOpen, ProbesAccounted
<1>. QED
  BY <1>1, <1>2

\* A probe that ends within the test was a success or is lost.
LEMMA EndAccounted ==
  ASSUME Inv, ProbesAccounted, NEW r \in Reqs, Report(r) \/ Throw(r)
  PROVE  ProbesAccounted'
<1> SUFFICES ASSUME state' = "HALF_OPEN" PROVE ProbesAccounted'
  BY DEF ProbesAccounted
<1>1. state = "HALF_OPEN" /\ half_open_reqs' = half_open_reqs
  BY DEF Report, Throw, RecordSuccess, RecordFailure, Closed, circuit
<1>2. flight' = [flight EXCEPT ![r] = "none"] /\ flight[r] # "none"
  BY <1>1 DEF Report, Throw
<1>3. Cardinality(InFlight("probe"))' =
        IF flight[r] = "probe" THEN Cardinality(InFlight("probe")) - 1
                               ELSE Cardinality(InFlight("probe"))
  BY <1>2, ProbeLeaves DEF Inv
<1>4. CASE Report(r)
  <2>1. success_count' = success_count + 1 /\ lost_probes' = lost_probes
    BY <1>1, <1>4 DEF Report, RecordSuccess, RecordFailure, Closed, circuit
  <2>. QED
    BY <1>1, <1>3, <2>1, CountsType DEF ProbesAccounted
<1>5. CASE Throw(r)
  <2>1. success_count' = success_count
    BY <1>5 DEF Throw, circuit
  <2>. QED
    BY <1>1, <1>3, <1>5, <2>1, CountsType DEF Throw, ProbesAccounted
<1>. QED
  BY <1>4, <1>5

\* While enough probes can still report to reach success_threshold, the test
\* goes on: one of them is being served, or another one is admitted.  What is
\* left of its liveness is that requests come and their handlers return.
THEOREM TestsAreNotStuck == Spec => []TestNotStuck
<1>1. Init => ProbesAccounted
  BY DEF Init, ProbesAccounted
<1>2. Inv /\ ProbesAccounted /\ [Next]_vars => ProbesAccounted'
  <2> SUFFICES ASSUME Inv, ProbesAccounted, [Next]_vars PROVE ProbesAccounted'
    OBVIOUS
  <2>1. ASSUME NEW r \in Reqs, Admit(r) \/ Report(r) \/ Throw(r)
        PROVE  ProbesAccounted'
    BY <2>1, AdmitAccounted, EndAccounted
  <2>2. CASE AdmitStream
    BY <2>2, StreamAccounted
  <2>3. CASE Reset
    BY <2>3 DEF Reset, Closed, ProbesAccounted
  <2>4. CASE Tick \/ UNCHANGED vars
    BY <2>4 DEF Tick, vars, circuit, ProbesAccounted, InFlight
  <2>. QED
    BY <2>1, <2>2, <2>3, <2>4 DEF Next
<1>3. Inv /\ ProbesAccounted => TestNotStuck
  <2> SUFFICES ASSUME Inv, ProbesAccounted, state = "HALF_OPEN",
                      HalfOpenMax - lost_probes >= SuccessThreshold,
                      InFlight("probe") = {}
               PROVE  half_open_reqs < HalfOpenMax
    BY DEF TestNotStuck
  <2>1. Cardinality(InFlight("probe")) = 0
    BY FS_EmptySet
  <2>2. success_count < SuccessThreshold
    BY DEF Inv, CountersMatchState
  <2>. QED
    BY <2>1, <2>2, CountsType, ThresholdAssumption DEF ProbesAccounted
<1>. QED
  BY <1>1, <1>2, <1>3, Invariance, PTL DEF Spec

\* The slots of a recovery test are counted right both ways.
THEOREM ProbeSlotsAreExact == Spec => []ProbeSlotsExact
  BY ProbesAreBounded, TestsAreNotStuck, PTL DEF ProbeSlotsExact
=============================================================================
