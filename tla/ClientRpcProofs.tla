--------------------------- MODULE ClientRpcProofs ---------------------------
(***************************************************************************)
(* Proofs about ClientRpc, for every number of shards and calls: the table *)
(* of pending requests is exactly the set of unresolved calls, from which  *)
(* follow that no promise is resolved twice and that a stop leaves no      *)
(* caller waiting.                                                         *)
(***************************************************************************)
EXTENDS ClientRpc, TLAPS

\* A stopped shard has nothing pending.
StoppedIsEmpty == \A sh \in stopped : pending[sh] = {}

\* A call that was not made yet is not resolved.
UnmadeUntouched ==
    \A sh \in Shards, n \in 1..MaxCalls :
        n > counter[sh] => outcome[<<sh, n>>] = "none"

RpcInv == TypeOK /\ PendingAreUnresolved /\ UnmadeUntouched /\ StoppedIsEmpty

-----------------------------------------------------------------------------
LEMMA CallParts ==
  ASSUME NEW c \in Calls
  PROVE  c[1] \in Shards /\ c[2] \in 1..MaxCalls /\ c = <<c[1], c[2]>>
  BY DEF Calls

LEMMA RpcInit == Init => RpcInv
<1> SUFFICES ASSUME Init PROVE RpcInv
  OBVIOUS
<1>1. TypeOK
  BY BoundAssumption DEF Init, TypeOK
<1>2. PendingAreUnresolved
  <2>1. \A sh \in Shards : Made(sh) = {}
    <3> TAKE sh \in Shards
    <3>1. counter[sh] = 0
      BY DEF Init
    <3>2. \A n \in 1..MaxCalls : ~ n <= counter[sh]
      BY <3>1, BoundAssumption
    <3>. QED
      BY <3>2 DEF Made
  <2>. QED
    BY <2>1 DEF Init, PendingAreUnresolved
<1>3. UnmadeUntouched
  <2>1. \A sh \in Shards, n \in 1..MaxCalls : <<sh, n>> \in Calls
    BY DEF Calls
  <2>. QED
    BY <2>1 DEF Init, UnmadeUntouched
<1>. QED
  BY <1>1, <1>2, <1>3 DEF Init, RpcInv, StoppedIsEmpty

\* A new call is pending and unresolved.
LEMMA SendRequestStep ==
  ASSUME RpcInv, NEW sh \in Shards, SendRequest(sh)
  PROVE  RpcInv'
<1> DEFINE new == NextId(sh)
<1>1. /\ counter \in [Shards -> 0..MaxCalls] /\ MaxCalls \in Nat
      /\ pending \in [Shards -> SUBSET (1..MaxCalls)]
      /\ outcome' = outcome /\ source' = source /\ stopped' = stopped
      /\ counter' = [counter EXCEPT ![sh] = new]
      /\ pending' = [pending EXCEPT ![sh] = @ \cup {new}]
      /\ sh \notin stopped /\ counter[sh] < MaxCalls
  BY BoundAssumption DEF RpcInv, TypeOK, SendRequest
<1>2. new = counter[sh] + 1
  BY DEF NextId
<1>3. /\ counter'[sh] = new /\ new \in 1..MaxCalls
      /\ \A s \in Shards \ {sh} : counter'[s] = counter[s]
      /\ counter' \in [Shards -> 0..MaxCalls]
  BY <1>1, <1>2
<1>4. <<sh, new>> \in Calls
  BY <1>3 DEF Calls
<1>5. TypeOK'
  <2>1. message' \in [Calls -> {"none", "pushing", "queued", "delivered",
                                "dropped", "failed"}]
    BY <1>4 DEF SendRequest, RpcInv, TypeOK
  <2>2. pending' \in [Shards -> SUBSET (1..MaxCalls)]
    BY <1>1, <1>3
  <2>. QED
    BY <1>1, <1>3, <2>1, <2>2 DEF RpcInv, TypeOK
<1>6. PendingAreUnresolved'
  <2> SUFFICES ASSUME NEW s \in Shards
               PROVE  pending'[s] = {n \in Made(s)' : outcome[<<s, n>>] = "none"}
    BY <1>1 DEF PendingAreUnresolved
  <2>1. pending[s] = {n \in Made(s) : outcome[<<s, n>>] = "none"}
    BY DEF RpcInv, PendingAreUnresolved
  <2>2. CASE s # sh
    BY <1>1, <1>3, <2>1, <2>2 DEF Made
  <2>3. CASE s = sh
    <3>1. Made(sh)' = Made(sh) \cup {new}
      BY <1>1, <1>2, <1>3 DEF Made
    <3>2. outcome[<<sh, new>>] = "none"
      BY <1>1, <1>2, <1>3 DEF RpcInv, UnmadeUntouched
    <3>. QED
      BY <1>1, <2>1, <2>3, <3>1, <3>2
  <2>. QED
    BY <2>2, <2>3
<1>7. UnmadeUntouched'
  <2> SUFFICES ASSUME NEW s \in Shards, NEW n \in 1..MaxCalls, n > counter'[s]
               PROVE  outcome[<<s, n>>] = "none"
    BY <1>1 DEF UnmadeUntouched
  <2>1. n > counter[s]
    BY <1>1, <1>2, <1>3
  <2>. QED
    BY <2>1 DEF RpcInv, UnmadeUntouched
<1>8. StoppedIsEmpty'
  BY <1>1 DEF RpcInv, TypeOK, StoppedIsEmpty
<1>. QED
  BY <1>5, <1>6, <1>7, <1>8 DEF RpcInv

\* What happens to a message leaves the table alone.
LEMMA MessageStep ==
  ASSUME RpcInv, NEW c \in Calls, PushEnds(c) \/ StreamDelivers(c)
  PROVE  RpcInv'
<1>1. UNCHANGED <<counter, pending, outcome, source, stopped>>
  BY DEF PushEnds, StreamDelivers
<1>2. TypeOK'
  BY <1>1 DEF RpcInv, TypeOK, PushEnds, StreamDelivers
<1>. QED
  BY <1>1, <1>2 DEF RpcInv, PendingAreUnresolved, UnmadeUntouched,
                    StoppedIsEmpty, Made

\* An answer that finds its call pending resolves it and takes it out of the
\* table, and touches no other call; any other answer changes nothing.
LEMMA AnswerEffect ==
  ASSUME RpcInv, NEW c \in Calls, NEW sh \in Shards, NEW answer \in Answers,
         AnswerArrives(c, sh, answer)
  PROVE  /\ UNCHANGED <<counter, message, stopped>> /\ sh \notin stopped
         /\ \/ UNCHANGED <<pending, outcome, source>>
            \/ /\ c[2] \in pending[sh] /\ answer \in {"result", "error"}
               /\ pending' = [pending EXCEPT ![sh] = @ \ {c[2]}]
               /\ outcome' = [outcome EXCEPT ![<<sh, c[2]>>] = answer]
               /\ source' = [source EXCEPT ![<<sh, c[2]>>] = @ \cup {c}]
  BY DEF AnswerArrives, HandleClientResponse, Resolve, Answers

LEMMA AnswerStep ==
  ASSUME RpcInv, NEW c \in Calls, NEW sh \in Shards, NEW answer \in Answers,
         AnswerArrives(c, sh, answer)
  PROVE  RpcInv'
<1>1. UNCHANGED <<counter, message, stopped>> /\ sh \notin stopped
  BY AnswerEffect
<1>2. CASE UNCHANGED <<pending, outcome, source>>
  BY <1>1, <1>2 DEF RpcInv, TypeOK, PendingAreUnresolved, UnmadeUntouched,
                    StoppedIsEmpty, Made
<1>3. CASE /\ c[2] \in pending[sh] /\ answer \in {"result", "error"}
           /\ pending' = [pending EXCEPT ![sh] = @ \ {c[2]}]
           /\ outcome' = [outcome EXCEPT ![<<sh, c[2]>>] = answer]
           /\ source' = [source EXCEPT ![<<sh, c[2]>>] = @ \cup {c}]
  <2> DEFINE n == c[2]
  <2>1. /\ n \in 1..MaxCalls /\ n \in Made(sh) /\ <<sh, n>> \in Calls
        /\ pending \in [Shards -> SUBSET (1..MaxCalls)]
    BY <1>3, CallParts DEF RpcInv, TypeOK, PendingAreUnresolved, Calls
  <2>2. /\ outcome'[<<sh, n>>] = answer
        /\ \A d \in Calls \ {<<sh, n>>} : outcome'[d] = outcome[d]
        /\ outcome' \in [Calls -> {"none", "result", "error", "stopped"}]
    BY <1>3, <2>1 DEF RpcInv, TypeOK
  <2>3. TypeOK'
    BY <1>1, <1>3, <2>1, <2>2 DEF RpcInv, TypeOK
  <2>4. PendingAreUnresolved'
    <3> SUFFICES ASSUME NEW s \in Shards
                 PROVE  pending'[s] = {m \in Made(s) : outcome'[<<s, m>>] = "none"}
      BY <1>1 DEF PendingAreUnresolved, Made
    <3>1. pending[s] = {m \in Made(s) : outcome[<<s, m>>] = "none"}
      BY DEF RpcInv, PendingAreUnresolved
    <3>2. \A m \in Made(s) : <<s, m>> \in Calls
      BY DEF Made, Calls
    <3>3. CASE s # sh
      <4>1. \A m \in Made(s) : outcome'[<<s, m>>] = outcome[<<s, m>>]
        BY <2>2, <3>2, <3>3
      <4>. QED
        BY <1>3, <2>1, <3>1, <3>3, <4>1
    <3>4. CASE s = sh
      <4>1. \A m \in Made(sh) \ {n} : outcome'[<<sh, m>>] = outcome[<<sh, m>>]
        BY <2>2, <3>2, <3>4
      <4>2. outcome'[<<sh, n>>] # "none"
        BY <1>3, <2>2
      <4>3. pending'[sh] = pending[sh] \ {n}
        BY <1>3, <2>1
      <4>. QED
        BY <2>1, <3>1, <3>4, <4>1, <4>2, <4>3
    <3>. QED
      BY <3>3, <3>4
  <2>5. UnmadeUntouched'
    <3> SUFFICES ASSUME NEW s \in Shards, NEW m \in 1..MaxCalls, m > counter[s]
                 PROVE  outcome'[<<s, m>>] = "none"
      BY <1>1 DEF UnmadeUntouched
    <3>1. <<s, m>> \in Calls /\ outcome[<<s, m>>] = "none"
      BY DEF Calls, RpcInv, UnmadeUntouched
    <3>2. <<s, m>> # <<sh, n>>
      BY <2>1, BoundAssumption DEF Made, RpcInv, TypeOK
    <3>. QED
      BY <2>2, <3>1, <3>2
  <2>6. StoppedIsEmpty'
    BY <1>1, <1>3, <2>1 DEF RpcInv, TypeOK, StoppedIsEmpty
  <2>. QED
    BY <2>3, <2>4, <2>5, <2>6 DEF RpcInv
<1>. QED
  BY <1>2, <1>3, AnswerEffect

-----------------------------------------------------------------------------
\* stop resolves what is pending, which is everything unresolved, and empties
\* the table.
LEMMA ShardStopStep ==
  ASSUME RpcInv, NEW sh \in Shards, ShardStop(sh)
  PROVE  RpcInv'
<1>1. /\ counter' = counter /\ message' = message /\ source' = source
      /\ stopped' = stopped \cup {sh}
      /\ pending' = [pending EXCEPT ![sh] = {}]
      /\ pending \in [Shards -> SUBSET (1..MaxCalls)]
  BY DEF ShardStop, RpcInv, TypeOK
<1>2. \A s \in Shards, n \in 1..MaxCalls :
         outcome'[<<s, n>>] = IF s = sh /\ n \in pending[sh]
                              THEN "stopped" ELSE outcome[<<s, n>>]
  BY DEF ShardStop, Calls
<1>3. TypeOK'
  <2>1. outcome' \in [Calls -> {"none", "result", "error", "stopped"}]
    BY DEF ShardStop, RpcInv, TypeOK
  <2>2. pending' \in [Shards -> SUBSET (1..MaxCalls)]
    BY <1>1
  <2>. QED
    BY <1>1, <2>1, <2>2 DEF RpcInv, TypeOK
<1>4. PendingAreUnresolved'
  <2> SUFFICES ASSUME NEW s \in Shards
               PROVE  pending'[s] = {m \in Made(s) : outcome'[<<s, m>>] = "none"}
    BY <1>1 DEF PendingAreUnresolved, Made
  <2>1. pending[s] = {m \in Made(s) : outcome[<<s, m>>] = "none"}
    BY DEF RpcInv, PendingAreUnresolved
  <2>2. \A m \in Made(s) : m \in 1..MaxCalls
    BY DEF Made
  <2>3. CASE s # sh
    BY <1>1, <1>2, <2>1, <2>2, <2>3
  <2>4. CASE s = sh
    <3>1. pending'[sh] = {}
      BY <1>1
    <3>2. \A m \in Made(sh) : outcome'[<<sh, m>>] # "none"
      BY <1>2, <2>1, <2>2, <2>4
    <3>. QED
      BY <2>4, <3>1, <3>2
  <2>. QED
    BY <2>3, <2>4
<1>5. UnmadeUntouched'
  <2> SUFFICES ASSUME NEW s \in Shards, NEW m \in 1..MaxCalls, m > counter[s]
               PROVE  outcome'[<<s, m>>] = "none"
    BY <1>1 DEF UnmadeUntouched
  <2>1. m \notin pending[s]
    <3>1. m \notin Made(s)
      BY BoundAssumption DEF RpcInv, TypeOK, Made
    <3>. QED
      BY <3>1 DEF RpcInv, PendingAreUnresolved
  <2>2. outcome[<<s, m>>] = "none"
    BY DEF RpcInv, UnmadeUntouched
  <2>. QED
    BY <1>2, <2>1, <2>2
<1>6. StoppedIsEmpty'
  BY <1>1 DEF RpcInv, TypeOK, StoppedIsEmpty
<1>. QED
  BY <1>3, <1>4, <1>5, <1>6 DEF RpcInv

LEMMA RpcIsInductive == RpcInv /\ [Next]_vars => RpcInv'
<1> SUFFICES ASSUME RpcInv, [Next]_vars PROVE RpcInv'
  OBVIOUS
<1>1. CASE \E sh \in Shards : SendRequest(sh)
  BY <1>1, SendRequestStep
<1>2. CASE \E sh \in Shards : ShardStop(sh)
  BY <1>2, ShardStopStep
<1>3. CASE \E c \in Calls : PushEnds(c) \/ StreamDelivers(c)
  BY <1>3, MessageStep
<1>4. CASE \E c \in Calls, sh \in Shards, answer \in Answers :
              AnswerArrives(c, sh, answer)
  BY <1>4, AnswerStep
<1>5. CASE UNCHANGED vars
  BY <1>5 DEF vars, RpcInv, TypeOK, PendingAreUnresolved, UnmadeUntouched,
              StoppedIsEmpty, Made
<1>. QED
  BY <1>1, <1>2, <1>3, <1>4, <1>5 DEF Next

LEMMA RpcInvariant == Spec => []RpcInv
  BY RpcInit, RpcIsInductive, PTL DEF Spec

-----------------------------------------------------------------------------
\* Every value stays in its type, for every number of shards and calls.
THEOREM TypeCorrect == Spec => []TypeOK
<1>1. RpcInv => TypeOK
  BY DEF RpcInv
<1>. QED
  BY <1>1, RpcInvariant, PTL

\* _pending_client_requests holds exactly the unresolved calls.
THEOREM PendingIsExact == Spec => []PendingAreUnresolved
<1>1. RpcInv => PendingAreUnresolved
  BY DEF RpcInv
<1>. QED
  BY <1>1, RpcInvariant, PTL

\* After McpShard::stop none of the shard's callers waits for an answer.
THEOREM StopLeavesNobodyWaiting == Spec => []StopResolvesAll
<1>1. RpcInv => StopResolvesAll
  <2> SUFFICES ASSUME RpcInv, NEW sh \in stopped, NEW n \in Made(sh)
               PROVE  outcome[<<sh, n>>] # "none"
    BY DEF StopResolvesAll
  <2>1. sh \in Shards /\ pending[sh] = {}
    BY DEF RpcInv, TypeOK, StoppedIsEmpty
  <2>. QED
    BY <2>1 DEF RpcInv, PendingAreUnresolved
<1>. QED
  BY <1>1, RpcInvariant, PTL

\* No step changes the outcome of a resolved call: no answer, duplicate or
\* stray, and no stop sets a promise twice.
THEOREM PromisesResolveOnce == Spec => ResolvedOnce
<1>1. RpcInv /\ [Next]_vars
      => [\A c \in Calls : outcome[c] # "none" => outcome'[c] = outcome[c]]_vars
  <2> SUFFICES ASSUME RpcInv, Next, NEW c \in Calls, outcome[c] # "none"
               PROVE  outcome'[c] = outcome[c]
    OBVIOUS
  <2> DEFINE sh == c[1]
             n  == c[2]
  <2>1. sh \in Shards /\ c = <<sh, n>> /\ n \notin pending[sh]
    BY CallParts DEF RpcInv, PendingAreUnresolved
  <2>2. CASE \E s \in Shards : SendRequest(s)
    BY <2>2 DEF SendRequest
  <2>3. CASE \E d \in Calls : PushEnds(d) \/ StreamDelivers(d)
    BY <2>3 DEF PushEnds, StreamDelivers
  <2>4. CASE \E s \in Shards : ShardStop(s)
    BY <2>1, <2>4 DEF ShardStop
  <2>5. ASSUME NEW d \in Calls, NEW s \in Shards, NEW answer \in Answers,
               AnswerArrives(d, s, answer)
        PROVE  outcome'[c] = outcome[c]
    <3>1. CASE outcome' = outcome
      BY <3>1
    <3>2. CASE /\ d[2] \in pending[s]
               /\ outcome' = [outcome EXCEPT ![<<s, d[2]>>] = answer]
      <4>1. <<s, d[2]>> # <<sh, n>>
        BY <2>1, <3>2
      <4>. QED
        BY <2>1, <3>2, <4>1 DEF RpcInv, TypeOK
    <3>. QED
      BY <2>5, <3>1, <3>2, AnswerEffect
  <2>. QED
    BY <2>2, <2>3, <2>4, <2>5 DEF Next
<1>. QED
  BY <1>1, RpcInvariant, PTL DEF Spec, ResolvedOnce
=============================================================================
