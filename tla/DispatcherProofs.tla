--------------------------- MODULE DispatcherProofs ---------------------------
(***************************************************************************)
(* Proofs about Dispatcher: it implements RequestReply, whatever the       *)
(* bodies, the sessions and the number of requests and shards.             *)
(***************************************************************************)
EXTENDS Dispatcher, TLAPS

USE DEF HandleRequestRejects

\* What has been answered when the elements before n have been handled.
AnsweredBefore(b, s, n) ==
    /\ Ascending(s)
    /\ Positions(s) = {i \in Answerable(b) : i < n}
    /\ \A i \in 1..Len(s) : b.elems[s[i].pos] = "refused" => s[i].error

\* A coroutine between two elements, or inside one.
Handling(r) ==
    pc[r] \in {"handling", "suspended"} =>
        IF Rejected(body[r])
        THEN pc[r] = "handling" /\ responses[r] = <<>>
        ELSE /\ AnsweredBefore(body[r], responses[r], next[r])
             /\ next[r] <= Len(body[r].elems) + 1
             /\ pc[r] = "suspended" => /\ next[r] <= Len(body[r].elems)
                                       /\ body[r].elems[next[r]] = "call"

Answered(r) == pc[r] \in {"answered", "done"} => IsAnswer(body[r], responses[r])

\* A request that has not been made has left no trace.
Unmade(r) ==
    /\ body[r] = NoBody <=> pc[r] = "none"
    /\ pc[r] = "none" => next[r] = 1 /\ responses[r] = <<>>

\* An answer is under way or handed over only when dispatch has returned, is
\* not empty, and has taken one way.
Posted(r) == \E sh \in Shards : <<sh, r>> \in posted

OneWay(r) ==
    /\ reply[r] = "answer" => pc[r] = "done" /\ responses[r] # <<>>
    /\ Received(r) \/ Posted(r) =>
         pc[r] = "done" /\ responses[r] # <<>> /\ reply[r] = "accepted"
    /\ ~(Received(r) /\ Posted(r))
    /\ \A sh1, sh2 \in Shards :
         <<sh1, r>> \in posted /\ <<sh2, r>> \in posted => sh1 = sh2

DispatchInv ==
    /\ TypeOK
    /\ \A r \in Reqs : Handling(r) /\ Answered(r) /\ Unmade(r) /\ OneWay(r)

-----------------------------------------------------------------------------
(* Sequences of responses. *)

LEMMA BodyType ==
  ASSUME NEW b \in Bodies
  PROVE  /\ b.elems \in Seq(Kinds)
         /\ ~Rejected(b) => Len(b.elems) <= MaxBatch
         /\ b # NoBody
<1>1. b \in [form : Forms, elems : Seq(Kinds)] /\ b # NoBody
  BY BodiesAssumption
<1>2. b.form \in Forms /\ b.elems \in Seq(Kinds) /\ Len(b.elems) \in Nat
  BY <1>1
<1>3. b.form = "single" => Len(b.elems) = 1
  BY BodiesAssumption
<1>4. ~Rejected(b) => Len(b.elems) <= MaxBatch
  <2> SUFFICES ASSUME ~Rejected(b) PROVE Len(b.elems) <= MaxBatch
    OBVIOUS
  <2>1. CASE b.form = "batch"
    BY <1>2, <2>1, MaxBatchAssumption DEF Rejected
  <2>2. CASE b.form = "single"
    <3>1. Len(b.elems) = 1
      BY <1>3, <2>2
    <3>2. 1 <= MaxBatch
      BY MaxBatchAssumption
    <3>. QED
      BY <3>1, <3>2
  <2>. QED
    BY <1>2, <2>1, <2>2 DEF Rejected, Forms
<1>. QED
  BY <1>1, <1>2, <1>4

\* A response appended for an element that asks for one keeps the responses
\* in order and complete.
LEMMA RespondsInOrder ==
  ASSUME NEW b \in Bodies, NEW s \in Seq(Responses), NEW n \in Nat, NEW e \in BOOLEAN,
         n \in Answerable(b), AnsweredBefore(b, s, n), b.elems[n] = "refused" => e
  PROVE  AnsweredBefore(b, Append(s, [pos |-> n, error |-> e]), n + 1)
<1> DEFINE t == Append(s, [pos |-> n, error |-> e])
<1>0. /\ Len(s) \in Nat /\ Len(t) = Len(s) + 1
      /\ \A i \in 1..Len(s) : t[i] = s[i]
      /\ t[Len(s) + 1].pos = n /\ t[Len(s) + 1].error = e
      /\ \A i \in 1..Len(s) : s[i].pos \in Nat
  <2>1. \A i \in 1..Len(s) : s[i] \in Responses
    OBVIOUS
  <2>2. \A i \in 1..Len(s) : s[i].pos \in Nat
    BY <2>1, MaxBatchAssumption DEF Responses
  <2>3. Len(s) \in Nat /\ Len(t) = Len(s) + 1 /\ \A i \in 1..Len(s) : t[i] = s[i]
    OBVIOUS
  <2>4. t[Len(s) + 1] = [pos |-> n, error |-> e]
    OBVIOUS
  <2>. QED
    BY <2>2, <2>3, <2>4
<1>1. \A i \in 1..Len(s) : s[i].pos < n
  BY DEF AnsweredBefore, Positions
<1>2. Ascending(t)
  <2> SUFFICES ASSUME NEW i \in 1..Len(t), NEW j \in 1..Len(t), i < j
               PROVE  t[i].pos < t[j].pos
    BY DEF Ascending
  <2>1. i \in 1..Len(s) /\ t[i] = s[i]
    BY <1>0
  <2>2. CASE j = Len(s) + 1
    BY <1>0, <1>1, <2>1, <2>2
  <2>3. CASE j \in 1..Len(s)
    BY <1>0, <2>1, <2>3 DEF AnsweredBefore, Ascending
  <2>. QED
    BY <1>0, <2>2, <2>3
<1>3. Positions(t) = {i \in Answerable(b) : i < n + 1}
  <2>1. Positions(t) = Positions(s) \cup {n}
    BY <1>0 DEF Positions
  <2>2. Answerable(b) \subseteq Nat
    BY DEF Answerable
  <2>. QED
    BY <2>1, <2>2 DEF AnsweredBefore
<1>4. \A i \in 1..Len(t) : b.elems[t[i].pos] = "refused" => t[i].error
  BY <1>0 DEF AnsweredBefore
<1>. QED
  BY <1>2, <1>3, <1>4 DEF AnsweredBefore

\* An element that asks for nothing leaves them so.
LEMMA NotificationIsSilent ==
  ASSUME NEW b \in Bodies, NEW s, NEW n \in Nat, n \notin Answerable(b),
         AnsweredBefore(b, s, n)
  PROVE  AnsweredBefore(b, s, n + 1)
<1>1. Answerable(b) \subseteq Nat
  BY DEF Answerable
<1>2. {i \in Answerable(b) : i < n + 1} = {i \in Answerable(b) : i < n}
  BY <1>1
<1>. QED
  BY <1>2 DEF AnsweredBefore

-----------------------------------------------------------------------------
(* Type correctness. *)

LEMMA RespondType ==
  ASSUME responses \in [Reqs -> Seq(Responses)], NEW r \in Reqs, NEW p, NEW e,
         [pos |-> p, error |-> e] \in Responses, Respond(r, p, e)
  PROVE  responses' \in [Reqs -> Seq(Responses)]
<1>1. Append(responses[r], [pos |-> p, error |-> e]) \in Seq(Responses)
  OBVIOUS
<1>. QED
  BY <1>1 DEF Respond

LEMMA PushType ==
  ASSUME open \subseteq Sessions, received \in [Sessions -> Seq(Reqs)],
         NEW r \in Reqs, NEW sh, NEW s, PushToSession(sh, s, r)
  PROVE  received' \in [Sessions -> Seq(Reqs)]
<1>1. CASE s \in Sessions
  <2>1. Append(received[s], r) \in Seq(Reqs)
    BY <1>1
  <2>. QED
    BY <2>1 DEF PushToSession
<1>. QED
  BY <1>1 DEF PushToSession

\* Every variable stays in its type; in particular the place of the next
\* element never runs past the batch limit.
LEMMA StepType ==
  ASSUME DispatchInv, [Next]_vars
  PROVE  TypeOK'
<1> USE DEF DispatchInv, TypeOK
<1>1. ASSUME NEW r \in Reqs, Receive(r)
      PROVE  TypeOK'
  <2>1. body' \in [Reqs -> Bodies \cup {NoBody}]
    BY <1>1 DEF Receive
  <2>2. request' \in [Reqs -> [endpoint : Endpoints, shard : Shards,
                               session : Sessions \cup {NoSession}]]
    <3> DEFINE R == [endpoint : Endpoints, shard : Shards, session : Sessions \cup {NoSession}]
    <3>1. NoRequest \in R
      BY ShardAssumption DEF NoRequest, Endpoints
    <3>2. ASSUME NEW e \in {"/message", "/mcp"}, NEW sh \in Shards,
                 NEW s \in Sessions \cup {NoSession}
          PROVE  [endpoint |-> e, shard |-> sh, session |-> s] \in R
      BY DEF Endpoints
    <3>3. \E q \in R : request' = [request EXCEPT ![r] = q]
      BY <1>1, <3>1, <3>2 DEF Receive
    <3>. QED
      BY <3>3
  <2>3. /\ pc' \in [Reqs -> {"none", "handling", "suspended", "answered", "done",
                             "failed", "refused"}]
        /\ reply' \in [Reqs -> {"none", "answer", "accepted", "exception", "refused"}]
    BY <1>1 DEF Receive, Dispatch, SecurityReject
  <2>. QED
    BY <1>1, <2>1, <2>2, <2>3 DEF Receive
<1>2. ASSUME NEW r \in Reqs, Reject(r)
      PROVE  TypeOK'
  <2>1. [pos |-> 0, error |-> TRUE] \in Responses
    BY MaxBatchAssumption DEF Responses
  <2>. QED
    BY <1>2, <2>1, RespondType DEF Reject
<1>3. ASSUME NEW r \in Reqs, HandleElement(r) \/ HandlerEnds(r)
      PROVE  TypeOK'
  <2>1. body[r] \in Bodies /\ ~Rejected(body[r]) /\ next[r] <= Len(body[r].elems)
    BY <1>3 DEF HandleElement, HandlerEnds, Handling, Unmade
  <2>2. next[r] \in 1..MaxBatch /\ next[r] + 1 \in 1..(MaxBatch + 1)
    BY <2>1, BodyType, MaxBatchAssumption
  <2>3. \A e \in BOOLEAN : [pos |-> next[r], error |-> e] \in Responses
    BY <2>2, MaxBatchAssumption DEF Responses
  <2>4. CASE HandleElement(r)
    <3> DEFINE kind == body[r].elems[next[r]]
    <3>1. CASE kind = "notification"
      BY <2>2, <2>4, <3>1 DEF HandleElement, HandleSingle, Fail
    <3>2. CASE kind = "refused"
      <4>1. Respond(r, next[r], TRUE)
        BY <2>4, <3>2 DEF HandleElement, HandleSingle
      <4>2. responses' \in [Reqs -> Seq(Responses)]
        BY <2>3, <4>1, RespondType
      <4>. QED
        BY <2>2, <2>4, <3>2, <4>2 DEF HandleElement, HandleSingle
    <3>3. CASE kind = "call"
      BY <2>4, <3>3 DEF HandleElement, HandleSingle, Fail
    <3>4. CASE kind = "unreadable"
      BY <2>4, <3>4 DEF HandleElement, HandleSingle, Fail
    <3>. QED
      BY <2>4, <3>1, <3>2, <3>3, <3>4 DEF HandleElement, HandleSingle
  <2>5. CASE HandlerEnds(r)
    <3>1. CASE Fail(r)
      BY <2>5, <3>1 DEF HandlerEnds, Fail
    <3>2. ASSUME NEW e \in BOOLEAN, Respond(r, next[r], e),
                 next' = [next EXCEPT ![r] = @ + 1],
                 pc' = [pc EXCEPT ![r] = "handling"], UNCHANGED reply
          PROVE  TypeOK'
      <4>1. responses' \in [Reqs -> Seq(Responses)]
        BY <2>3, <3>2, RespondType
      <4>. QED
        BY <2>2, <2>5, <3>2, <4>1 DEF HandlerEnds
    <3>. QED
      BY <2>5, <3>1, <3>2 DEF HandlerEnds
  <2>. QED
    BY <1>3, <2>4, <2>5
<1>4. ASSUME NEW r \in Reqs, HandleRequestReturns(r)
      PROVE  TypeOK'
  BY <1>4 DEF HandleRequestReturns
<1>5. ASSUME NEW r \in Reqs, DispatchReturns(r)
      PROVE  TypeOK'
  <2> DEFINE s == request[r].session
             target == ParseShard(request[r].endpoint, s)
  <2>0. s # NoSession => s \in Sessions
    OBVIOUS
  <2>1. s \in Sessions => target \in Shards
    <3>1. \A x \in Sessions : x.shard \in Shards
      BY SessionsAssumption
    <3>. QED
      BY <3>1, ShardAssumption DEF ParseShard
  <2>2. received' \in [Sessions -> Seq(Reqs)]
    BY <1>5, PushType DEF DispatchReturns, Route
  <2>3. posted' \subseteq Shards \X Reqs
    BY <1>5, <2>0, <2>1 DEF DispatchReturns, Route
  <2>4. reply' \in [Reqs -> {"none", "answer", "accepted", "exception", "refused"}]
    BY <1>5 DEF DispatchReturns, Route
  <2>. QED
    BY <1>5, <2>2, <2>3, <2>4 DEF DispatchReturns
<1>6. ASSUME NEW sh \in Shards, NEW r \in Reqs, AnswerArrives(sh, r)
      PROVE  TypeOK'
  BY <1>6, PushType DEF AnswerArrives
<1>7. ASSUME NEW s \in Sessions, SessionEnds(s)
      PROVE  TypeOK'
  BY <1>7 DEF SessionEnds
<1>8. CASE UNCHANGED vars
  BY <1>8 DEF vars
<1>. QED
  BY <1>1, <1>2, <1>3, <1>4, <1>5, <1>6, <1>7, <1>8 DEF Next, RequestStep

-----------------------------------------------------------------------------
(* Answers are complete and in order. *)

Untouched(q) == UNCHANGED <<body[q], pc[q], next[q], responses[q]>>

Progress(q) == Handling(q) /\ Answered(q) /\ Unmade(q)

LEMMA UntouchedProgress ==
  ASSUME NEW q \in Reqs, Progress(q), Untouched(q)
  PROVE  Progress(q)'
BY DEF Untouched, Progress, Handling, Answered, Unmade

LEMMA ElementProgress ==
  ASSUME DispatchInv, NEW r \in Reqs, HandleElement(r)
  PROVE  Progress(r)'
<1> DEFINE b == body[r]
           kind == b.elems[next[r]]
<1>1. /\ b \in Bodies /\ ~Rejected(b) /\ next[r] \in 1..Len(b.elems)
      /\ Len(b.elems) \in Nat /\ next[r] \in Nat /\ b # NoBody
      /\ AnsweredBefore(b, responses[r], next[r])
      /\ responses[r] \in Seq(Responses)
  BY BodyType DEF HandleElement, DispatchInv, TypeOK, Handling, Unmade
<1>2. body' = body /\ pc[r] = "handling"
  BY DEF HandleElement
<1>3. CASE kind = "notification"
  <2>1. pc' = pc /\ next'[r] = next[r] + 1 /\ responses' = responses
    BY <1>3 DEF HandleElement, HandleSingle, Fail, DispatchInv, TypeOK
  <2>2. AnsweredBefore(b, responses[r], next[r] + 1)
    BY <1>1, <1>3, NotificationIsSilent DEF Answerable
  <2>. QED
    BY <1>1, <1>2, <2>1, <2>2 DEF Progress, Handling, Answered, Unmade
<1>4. CASE kind = "refused"
  <2>1. /\ pc' = pc /\ next'[r] = next[r] + 1
        /\ responses'[r] = Append(responses[r], [pos |-> next[r], error |-> TRUE])
    BY <1>4 DEF HandleElement, HandleSingle, Respond, Fail, DispatchInv, TypeOK
  <2>2. AnsweredBefore(b, responses'[r], next[r] + 1)
    BY <1>1, <1>4, <2>1, RespondsInOrder DEF Answerable
  <2>. QED
    BY <1>1, <1>2, <2>1, <2>2 DEF Progress, Handling, Answered, Unmade
<1>5. CASE kind = "call"
  <2>1. pc'[r] = "suspended" /\ next' = next /\ responses' = responses
    BY <1>5 DEF HandleElement, HandleSingle, Fail, DispatchInv, TypeOK
  <2>. QED
    BY <1>1, <1>2, <1>5, <2>1 DEF Progress, Handling, Answered, Unmade
<1>6. CASE kind = "unreadable"
  <2>1. pc'[r] = "failed"
    BY <1>6 DEF HandleElement, HandleSingle, Fail, DispatchInv, TypeOK
  <2>. QED
    BY <1>1, <1>2, <2>1 DEF Progress, Handling, Answered, Unmade
<1>. QED
  BY <1>3, <1>4, <1>5, <1>6 DEF HandleElement, HandleSingle

LEMMA HandlerProgress ==
  ASSUME DispatchInv, NEW r \in Reqs, HandlerEnds(r)
  PROVE  Progress(r)'
<1> DEFINE b == body[r]
<1>1. /\ b \in Bodies /\ ~Rejected(b) /\ next[r] \in 1..Len(b.elems)
      /\ Len(b.elems) \in Nat /\ next[r] \in Nat /\ b # NoBody
      /\ b.elems[next[r]] = "call"
      /\ AnsweredBefore(b, responses[r], next[r])
      /\ responses[r] \in Seq(Responses)
  BY BodyType DEF HandlerEnds, DispatchInv, TypeOK, Handling, Unmade
<1>2. body' = body
  BY DEF HandlerEnds
<1>3. CASE Fail(r)
  <2>1. pc'[r] = "failed"
    BY <1>3 DEF Fail, DispatchInv, TypeOK
  <2>. QED
    BY <1>1, <1>2, <2>1 DEF Progress, Handling, Answered, Unmade
<1>4. ASSUME NEW e \in BOOLEAN, Respond(r, next[r], e),
             next' = [next EXCEPT ![r] = @ + 1], pc' = [pc EXCEPT ![r] = "handling"]
      PROVE  Progress(r)'
  <2>1. /\ pc'[r] = "handling" /\ next'[r] = next[r] + 1
        /\ responses'[r] = Append(responses[r], [pos |-> next[r], error |-> e])
    BY <1>4 DEF Respond, DispatchInv, TypeOK
  <2>2. AnsweredBefore(b, responses'[r], next[r] + 1)
    BY <1>1, <2>1, RespondsInOrder DEF Answerable
  <2>. QED
    BY <1>1, <1>2, <2>1, <2>2 DEF Progress, Handling, Answered, Unmade
<1>. QED
  BY <1>3, <1>4 DEF HandlerEnds

\* When the last element has been handled, the responses are the answer.
LEMMA ReturnsAnswer ==
  ASSUME DispatchInv, NEW r \in Reqs, HandleRequestReturns(r)
  PROVE  IsAnswer(body[r], responses[r])
<1> DEFINE b == body[r]
<1>1. /\ ~Rejected(b) /\ Len(b.elems) \in Nat
      /\ AnsweredBefore(b, responses[r], next[r])
      /\ next[r] > Len(b.elems) /\ next[r] \in Nat
  BY BodyType DEF HandleRequestReturns, DispatchInv, TypeOK, Handling, Unmade
<1>2. {i \in Answerable(b) : i < next[r]} = Answerable(b)
  BY <1>1 DEF Answerable
<1>. QED
  BY <1>1, <1>2 DEF IsAnswer, AnsweredBefore

LEMMA RejectAnswers ==
  ASSUME DispatchInv, NEW r \in Reqs, Reject(r)
  PROVE  IsAnswer(body[r], responses'[r])
<1>1. responses[r] = <<>> /\ Rejected(body[r])
  BY DEF Reject, DispatchInv, Handling
<1>2. responses'[r] = Append(<<>>, [pos |-> 0, error |-> TRUE])
  BY <1>1 DEF Reject, Respond, DispatchInv, TypeOK
<1>. QED
  BY <1>1, <1>2 DEF IsAnswer

LEMMA StepProgress ==
  ASSUME DispatchInv, [Next]_vars, NEW q \in Reqs
  PROVE  Progress(q)'
<1>0. Progress(q)
  BY DEF DispatchInv, Progress
<1>1. ASSUME NEW r \in Reqs, Receive(r)
      PROVE  Progress(q)'
  <2>1. CASE q = r
    <3>1. /\ pc'[r] \in {"handling", "refused"} /\ body'[r] \in Bodies
          /\ next'[r] = 1 /\ responses'[r] = <<>>
      BY <1>1 DEF Receive, Dispatch, SecurityReject, DispatchInv, TypeOK, Unmade
    <3>2. AnsweredBefore(body'[r], <<>>, 1)
      BY DEF AnsweredBefore, Ascending, Positions, Answerable
    <3>. QED
      BY <2>1, <3>1, <3>2, BodyType DEF Progress, Handling, Answered, Unmade
  <2>2. CASE q # r
    BY <1>0, <1>1, <2>2, UntouchedProgress
       DEF Receive, Dispatch, SecurityReject, Untouched, DispatchInv, TypeOK
  <2>. QED
    BY <2>1, <2>2
<1>2. ASSUME NEW r \in Reqs,
             \/ Reject(r) \/ HandleElement(r) \/ HandlerEnds(r)
             \/ HandleRequestReturns(r) \/ DispatchReturns(r)
      PROVE  Progress(q)'
  <2>1. CASE q # r
    <3>1. Untouched(q)
      BY <1>2, <2>1 DEF Reject, HandleElement, HandlerEnds, HandleRequestReturns,
         DispatchReturns, HandleSingle, Fail, Respond, Untouched, DispatchInv, TypeOK
    <3>. QED
      BY <1>0, <3>1, UntouchedProgress
  <2>2. CASE q = r /\ Reject(r)
    <3>1. pc'[r] = "answered" /\ pc[r] = "handling" /\ body' = body
      BY <2>2 DEF Reject, DispatchInv, TypeOK
    <3>. QED
      BY <1>0, <2>2, <3>1, RejectAnswers DEF Progress, Handling, Answered, Unmade
  <2>3. CASE q = r /\ HandleRequestReturns(r)
    <3>1. /\ pc'[r] = "answered" /\ pc[r] = "handling" /\ body' = body
          /\ responses' = responses
      BY <2>3 DEF HandleRequestReturns, DispatchInv, TypeOK
    <3>. QED
      BY <1>0, <2>3, <3>1, ReturnsAnswer DEF Progress, Handling, Answered, Unmade
  <2>4. CASE q = r /\ DispatchReturns(r)
    <3>1. /\ pc'[r] = "done" /\ pc[r] = "answered" /\ body' = body
          /\ responses' = responses
      BY <2>4 DEF DispatchReturns, DispatchInv, TypeOK
    <3>. QED
      BY <1>0, <2>4, <3>1 DEF Progress, Handling, Answered, Unmade
  <2>. QED
    BY <1>2, <2>1, <2>2, <2>3, <2>4, ElementProgress, HandlerProgress
<1>3. CASE \/ \E sh \in Shards, r \in Reqs : AnswerArrives(sh, r)
           \/ \E s \in Sessions : SessionEnds(s)
           \/ UNCHANGED vars
  BY <1>0, <1>3, UntouchedProgress DEF AnswerArrives, SessionEnds, vars, Untouched
<1>. QED
  BY <1>1, <1>2, <1>3 DEF Next, RequestStep

-----------------------------------------------------------------------------
(* Answers take one way. *)

LEMMA PushReceives ==
  ASSUME open \subseteq Sessions, received \in [Sessions -> Seq(Reqs)],
         NEW r \in Reqs, NEW sh, NEW s, PushToSession(sh, s, r),
         NEW q \in Reqs, q # r
  PROVE  Received(q)' <=> Received(q)
<1>1. CASE received' = received
  BY <1>1 DEF Received
<1>2. CASE s \in Sessions /\ received' = [received EXCEPT ![s] = Append(@, r)]
  <2>1. \A t \in Sessions : t # s => received'[t] = received[t]
    BY <1>2
  <2>2. /\ Len(received[s]) \in Nat /\ Len(received'[s]) = Len(received[s]) + 1
        /\ \A i \in 1..Len(received[s]) : received'[s][i] = received[s][i]
        /\ received'[s][Len(received[s]) + 1] = r
    <3>1. received'[s] = Append(received[s], r) /\ received[s] \in Seq(Reqs)
      BY <1>2
    <3>. QED
      BY <3>1
  <2>3. \A i \in 1..Len(received'[s]) :
           i \in 1..Len(received[s]) \/ i = Len(received[s]) + 1
    BY <2>2
  <2>4. \A i \in 1..Len(received[s]) : i \in 1..Len(received'[s])
    BY <2>2
  <2>5. (\E i \in 1..Len(received'[s]) : received'[s][i] = q)
           <=> (\E i \in 1..Len(received[s]) : received[s][i] = q)
    BY <2>2, <2>3, <2>4
  <2>. QED
    BY <2>1, <2>5 DEF Received
<1>. QED
  BY <1>1, <1>2 DEF PushToSession

Still(q) ==
    /\ UNCHANGED <<pc[q], responses[q], reply[q]>>
    /\ Received(q)' <=> Received(q)
    /\ \A sh \in Shards : <<sh, q>> \in posted' <=> <<sh, q>> \in posted

LEMMA StillOneWay ==
  ASSUME NEW q \in Reqs, OneWay(q), Still(q)
  PROVE  OneWay(q)'
BY DEF OneWay, Still, Posted

\* Until dispatch has returned, nothing of an answer is anywhere.
LEMMA HandlingOneWay ==
  ASSUME NEW q \in Reqs, OneWay(q), pc[q] # "done", UNCHANGED <<received, posted>>,
         reply'[q] # "answer"
  PROVE  OneWay(q)'
BY DEF OneWay, Posted, Received

LEMMA DispatchReturnsOneWay ==
  ASSUME DispatchInv, NEW r \in Reqs, DispatchReturns(r)
  PROVE  OneWay(r)'
<1> DEFINE s == request[r].session
           target == ParseShard(request[r].endpoint, s)
<1>1. /\ pc'[r] = "done" /\ responses' = responses
      /\ ~Received(r) /\ ~Posted(r)
  BY DEF DispatchReturns, DispatchInv, TypeOK, OneWay
<1>2. CASE UNCHANGED <<posted, received>> /\ (reply'[r] = "answer" => responses[r] # <<>>)
  BY <1>1, <1>2 DEF OneWay, Received, Posted
<1>3. CASE /\ reply'[r] = "accepted" /\ responses[r] # <<>>
           /\ UNCHANGED posted
  BY <1>1, <1>3 DEF OneWay, Posted
<1>4. CASE /\ reply'[r] = "accepted" /\ responses[r] # <<>>
           /\ posted' = posted \cup {<<target, r>>} /\ UNCHANGED received
  BY <1>1, <1>4 DEF OneWay, Posted, Received
<1>5. r \in DOMAIN reply
  BY DEF DispatchInv, TypeOK
<1>. QED
  BY <1>2, <1>3, <1>4, <1>5 DEF DispatchReturns, Route

LEMMA AnswerArrivesOneWay ==
  ASSUME DispatchInv, NEW r \in Reqs, NEW sh \in Shards, AnswerArrives(sh, r)
  PROVE  OneWay(r)'
<1>1. OneWay(r) /\ Posted(r) /\ pc[r] = "done" /\ responses[r] # <<>> /\ reply[r] = "accepted"
  BY DEF AnswerArrives, DispatchInv, OneWay, Posted
<1>2. ~Posted(r)'
  BY <1>1 DEF AnswerArrives, OneWay, Posted
<1>. QED
  BY <1>1, <1>2 DEF AnswerArrives, OneWay, Posted

LEMMA StepOneWay ==
  ASSUME DispatchInv, [Next]_vars, NEW q \in Reqs
  PROVE  OneWay(q)'
<1>0. OneWay(q)
  BY DEF DispatchInv
<1>1. ASSUME NEW r \in Reqs,
             \/ Receive(r) \/ Reject(r) \/ HandleElement(r) \/ HandlerEnds(r)
             \/ HandleRequestReturns(r)
      PROVE  OneWay(q)'
  <2>1. UNCHANGED <<received, posted>>
    BY <1>1 DEF Receive, Reject, HandleElement, HandlerEnds, HandleRequestReturns
  <2>2. CASE q = r
    <3>1. pc[r] # "done"
      BY <1>1 DEF Receive, Reject, HandleElement, HandlerEnds, HandleRequestReturns,
         DispatchInv, Unmade
    <3>2. reply'[r] # "answer"
      BY <1>0, <1>1, <2>2, <3>1 DEF Receive, Reject, HandleElement, HandlerEnds,
         HandleRequestReturns, Dispatch, SecurityReject, HandleSingle, Fail, OneWay,
         DispatchInv, TypeOK
    <3>. QED
      BY <1>0, <2>1, <2>2, <3>1, <3>2, HandlingOneWay
  <2>3. CASE q # r
    <3>1. UNCHANGED <<pc[q], responses[q], reply[q]>>
      BY <1>1, <2>3 DEF Receive, Reject, HandleElement, HandlerEnds,
         HandleRequestReturns, Dispatch, SecurityReject, HandleSingle, Fail, Respond,
         DispatchInv, TypeOK
    <3>2. Still(q)
      BY <2>1, <3>1 DEF Still, Received
    <3>. QED
      BY <1>0, <3>2, StillOneWay
  <2>. QED
    BY <2>2, <2>3
<1>2. ASSUME NEW r \in Reqs, DispatchReturns(r)
      PROVE  OneWay(q)'
  <2>1. CASE q # r
    <3>1. UNCHANGED <<pc[q], responses[q], reply[q]>>
      BY <1>2, <2>1 DEF DispatchReturns, Route, DispatchInv, TypeOK
    <3>2. Received(q)' <=> Received(q)
      <4>1. CASE UNCHANGED received
        BY <4>1 DEF Received
      <4>2. ASSUME NEW sh, NEW s, PushToSession(sh, s, r)
            PROVE  Received(q)' <=> Received(q)
        BY <2>1, <4>2, PushReceives DEF DispatchInv, TypeOK
      <4>. QED
        BY <1>2, <4>1, <4>2 DEF DispatchReturns, Route
    <3>3. \A sh \in Shards : <<sh, q>> \in posted' <=> <<sh, q>> \in posted
      BY <1>2, <2>1 DEF DispatchReturns, Route
    <3>. QED
      BY <1>0, <3>1, <3>2, <3>3, StillOneWay DEF Still
  <2>. QED
    BY <1>2, <2>1, DispatchReturnsOneWay
<1>3. ASSUME NEW r \in Reqs, NEW sh \in Shards, AnswerArrives(sh, r)
      PROVE  OneWay(q)'
  <2>1. CASE q # r
    <3>1. Received(q)' <=> Received(q)
      BY <1>3, <2>1, PushReceives DEF AnswerArrives, DispatchInv, TypeOK
    <3>2. Still(q)
      BY <1>3, <2>1, <3>1 DEF AnswerArrives, Still
    <3>. QED
      BY <1>0, <3>2, StillOneWay
  <2>. QED
    BY <1>3, <2>1, AnswerArrivesOneWay
<1>4. CASE (\E s \in Sessions : SessionEnds(s)) \/ UNCHANGED vars
  <2>1. Still(q)
    BY <1>4 DEF SessionEnds, vars, Still, Received
  <2>. QED
    BY <1>0, <2>1, StillOneWay
<1>. QED
  BY <1>1, <1>2, <1>3, <1>4 DEF Next, RequestStep

-----------------------------------------------------------------------------
(* The theorems. *)

LEMMA InitInv == Init => DispatchInv
<1> SUFFICES ASSUME Init PROVE DispatchInv
  OBVIOUS
<1>1. TypeOK
  BY ShardAssumption, MaxBatchAssumption
     DEF Init, TypeOK, NoRequest, Endpoints
<1>2. \A r \in Reqs : Handling(r) /\ Answered(r) /\ Unmade(r) /\ OneWay(r)
  <2> SUFFICES ASSUME NEW r \in Reqs
               PROVE  Handling(r) /\ Answered(r) /\ Unmade(r) /\ OneWay(r)
    OBVIOUS
  <2>1. /\ pc[r] = "none" /\ body[r] = NoBody /\ next[r] = 1 /\ responses[r] = <<>>
        /\ reply[r] = "none" /\ posted = {}
    BY DEF Init
  <2>2. ~Received(r)
    BY DEF Init, Received
  <2>. QED
    BY <2>1, <2>2 DEF Handling, Answered, Unmade, OneWay, Posted
<1>. QED
  BY <1>1, <1>2 DEF DispatchInv

LEMMA Invariance == Spec => []DispatchInv
<1>1. DispatchInv /\ [Next]_vars => DispatchInv'
  BY StepType, StepProgress, StepOneWay DEF DispatchInv, Progress
<1>. QED
  BY <1>1, InitInv, PTL DEF Spec

\* Every variable of the dispatcher keeps its type: no batch is worked on past
\* its limit, and responses are responses.
THEOREM TypeCorrect == Spec => []TypeOK
<1>1. DispatchInv => TypeOK
  BY DEF DispatchInv
<1>. QED
  BY <1>1, Invariance, PTL

\* A step that changes what requests have been answered answers one of them,
\* all other steps leave the answers as they are.
LEMMA AnswersStay ==
  ASSUME DispatchInv,
         \A q \in Reqs : /\ pc'[q] \in {"answered", "done"} <=> pc[q] \in {"answered", "done"}
                         /\ pc[q] \in {"answered", "done"} => responses'[q] = responses[q]
  PROVE  Answers' = Answers
BY DEF Answers

LEMMA HandedStay ==
  ASSUME UNCHANGED received,
         \A q \in Reqs : reply'[q] = "answer" <=> reply[q] = "answer"
  PROVE  Handed' = Handed
BY DEF Handed, Received

\* Both modules take their vocabulary from RequestBodies.
LEMMA SameAnswer ==
  ASSUME NEW b, NEW s
  PROVE  Promise!IsAnswer(b, s) <=> IsAnswer(b, s)
BY DEF IsAnswer, Rejected, Ascending, Positions, Answerable, Promise!IsAnswer,
   Promise!Rejected, Promise!Ascending, Promise!Positions, Promise!Answerable

LEMMA StepAnswers ==
  ASSUME DispatchInv, NEW r \in Reqs, Reject(r) \/ HandleRequestReturns(r)
  PROVE  Promise!Answer(r)
<1>1. /\ pc[r] = "handling" /\ pc' = [pc EXCEPT ![r] = "answered"]
      /\ UNCHANGED <<body, reply, received>>
      /\ \A q \in Reqs : q # r => responses'[q] = responses[q]
  BY DEF Reject, HandleRequestReturns, Respond, DispatchInv, TypeOK
<1>2. body[r] # NoBody
  BY <1>1 DEF DispatchInv, Unmade
<1>3. IsAnswer(body[r], responses'[r])
  BY RejectAnswers, ReturnsAnswer DEF HandleRequestReturns
<1>4. Answers[r] = {} /\ Answers'[r] = {responses'[r]}
  BY <1>1 DEF Answers, DispatchInv, TypeOK
<1>5. Answers' = [Answers EXCEPT ![r] = {responses'[r]}]
  BY <1>1, <1>4 DEF Answers, DispatchInv, TypeOK
<1>6. Handed' = Handed
  BY <1>1, HandedStay
<1>. QED
  BY <1>1, <1>2, <1>3, <1>4, <1>5, <1>6, SameAnswer DEF Promise!Answer

LEMMA StepHandsOver ==
  ASSUME DispatchInv, NEW r \in Reqs,
         DispatchReturns(r) \/ \E sh \in Shards : AnswerArrives(sh, r)
  PROVE  Promise!HandOver(r) \/ UNCHANGED <<body, Answers, Handed>>
<1>1. /\ pc[r] \in {"answered", "done"} /\ pc'[r] \in {"answered", "done"}
      /\ \A q \in Reqs : q # r => pc'[q] = pc[q] /\ reply'[q] = reply[q]
      /\ UNCHANGED <<body, responses>>
  BY DEF DispatchReturns, Route, AnswerArrives, DispatchInv, TypeOK, OneWay, Posted
<1>2. Answers' = Answers
  BY <1>1, AnswersStay
<1>3. r \notin Handed
  BY DEF Handed, DispatchReturns, AnswerArrives, DispatchInv, OneWay, Posted
<1>4. \A q \in Reqs : q # r => (Received(q)' <=> Received(q))
  <2>1. CASE UNCHANGED received
    BY <2>1 DEF Received
  <2>2. ASSUME NEW sh, NEW s, PushToSession(sh, s, r)
        PROVE  \A q \in Reqs : q # r => (Received(q)' <=> Received(q))
    BY <2>2, PushReceives DEF DispatchInv, TypeOK
  <2>. QED
    BY <2>1, <2>2 DEF DispatchReturns, Route, AnswerArrives
<1>5. Handed' = Handed \/ Handed' = Handed \cup {r}
  BY <1>1, <1>3, <1>4 DEF Handed
<1>6. Handed' = Handed \cup {r} => responses[r] # <<>>
  <2> SUFFICES ASSUME r \in Handed' PROVE responses[r] # <<>>
    OBVIOUS
  <2>1. OneWay(r)'
    BY DispatchReturnsOneWay, AnswerArrivesOneWay
  <2>. QED
    BY <1>1, <2>1 DEF Handed, OneWay
<1>7. Answers[r] = {responses[r]}
  BY <1>1 DEF Answers
<1>. QED
  BY <1>1, <1>2, <1>3, <1>5, <1>6, <1>7 DEF Promise!HandOver

LEMMA StepKeepsPromise ==
  ASSUME DispatchInv, [Next]_vars
  PROVE  [Promise!RRNext]_(Promise!rrVars)
<1> USE DEF Promise!rrVars
<1>1. ASSUME NEW r \in Reqs, Receive(r)
      PROVE  Promise!Ask(r)
  <2>1. \A q \in Reqs : /\ pc'[q] \in {"answered", "done"} <=> pc[q] \in {"answered", "done"}
                        /\ responses'[q] = responses[q]
    BY <1>1 DEF Receive, Dispatch, SecurityReject, DispatchInv, TypeOK, Unmade
  <2>2. \A q \in Reqs : reply'[q] = "answer" <=> reply[q] = "answer"
    BY <1>1 DEF Receive, Dispatch, SecurityReject, DispatchInv, TypeOK, Unmade, OneWay
  <2>3. Answers' = Answers /\ Handed' = Handed
    BY <1>1, <2>1, <2>2, AnswersStay, HandedStay DEF Receive
  <2>. QED
    BY <1>1, <2>3 DEF Receive, Promise!Ask
<1>2. ASSUME NEW r \in Reqs, HandleElement(r) \/ HandlerEnds(r)
      PROVE  UNCHANGED <<body, Answers, Handed>>
  <2>1. \A q \in Reqs : /\ pc'[q] \in {"answered", "done"} <=> pc[q] \in {"answered", "done"}
                        /\ pc[q] \in {"answered", "done"} => responses'[q] = responses[q]
    BY <1>2 DEF HandleElement, HandlerEnds, HandleSingle, Respond, Fail, DispatchInv, TypeOK
  <2>2. \A q \in Reqs : reply'[q] = "answer" <=> reply[q] = "answer"
    BY <1>2 DEF HandleElement, HandlerEnds, HandleSingle, Fail, DispatchInv, TypeOK, OneWay
  <2>. QED
    BY <1>2, <2>1, <2>2, AnswersStay, HandedStay DEF HandleElement, HandlerEnds
<1>3. ASSUME NEW s \in Sessions, SessionEnds(s)
      PROVE  UNCHANGED <<body, Answers, Handed>>
  BY <1>3 DEF SessionEnds, Answers, Handed, Received
<1>4. CASE UNCHANGED vars
  BY <1>4 DEF vars, Answers, Handed, Received
<1>. QED
  BY <1>1, <1>2, <1>3, <1>4, StepAnswers, StepHandsOver DEF Next, RequestStep, Promise!RRNext

\* The server keeps RequestReply's promise for any requests, bodies, shards
\* and sessions: no response missing, extra or out of order, an answer handed
\* over at most once, and nothing of a request that failed or was refused.
THEOREM PromiseIsKept == Spec => KeepsPromise
<1>1. Init => Promise!RRInit
  <2> SUFFICES ASSUME Init PROVE Promise!RRInit
    OBVIOUS
  <2>1. \A r \in Reqs : Answers[r] = {}
    BY DEF Init, Answers
  <2>2. Answers = [r \in Reqs |-> {}]
    BY <2>1 DEF Answers
  <2>3. Handed = {}
    BY DEF Init, Handed, Received
  <2>. QED
    BY <2>2, <2>3 DEF Init, Promise!RRInit
<1>. QED
  BY <1>1, StepKeepsPromise, Invariance, PTL DEF Spec, KeepsPromise, Promise!RRSpec

-----------------------------------------------------------------------------
(* Answers are received by the session that asked, once. *)

Home(s) ==
    /\ \A i \in 1..Len(received[s]) : request[received[s][i]].session = s
    /\ \A i, j \in 1..Len(received[s]) : received[s][i] = received[s][j] => i = j

Homes == \A s \in Sessions : Home(s)

\* An answer that has been received nowhere may be pushed to its own session.
LEMMA PushGoesHome ==
  ASSUME DispatchInv, Homes, NEW r \in Reqs, NEW sh, PushToSession(sh, request[r].session, r),
         ~Received(r), UNCHANGED request
  PROVE  Homes'
<1> DEFINE t == request[r].session
<1> SUFFICES ASSUME NEW s \in Sessions PROVE Home(s)'
  BY DEF Homes
<1>1. Home(s) /\ received[s] \in Seq(Reqs) /\ received \in [Sessions -> Seq(Reqs)]
  BY DEF Homes, DispatchInv, TypeOK
<1>2. CASE received'[s] = received[s]
  BY <1>1, <1>2 DEF Home
<1>3. CASE s = t /\ received'[s] = Append(received[s], r)
  <2> DEFINE n == Len(received[s])
  <2>1. /\ n \in Nat /\ Len(received'[s]) = n + 1 /\ received'[s][n + 1] = r
        /\ \A i \in 1..n : received'[s][i] = received[s][i]
    BY <1>1, <1>3
  <2>2. \A i \in 1..(n + 1) : i \in 1..n \/ i = n + 1
    BY <2>1
  <2>3. \A i \in 1..n : received[s][i] # r
    BY DEF Received
  <2>. QED
    BY <1>1, <1>3, <2>1, <2>2, <2>3 DEF Home
<1>. QED
  BY <1>1, <1>2, <1>3 DEF PushToSession

LEMMA HomesStay ==
  ASSUME Homes, UNCHANGED received,
         \A q \in Reqs : Received(q) => request'[q] = request[q],
         received \in [Sessions -> Seq(Reqs)]
  PROVE  Homes'
<1> SUFFICES ASSUME NEW s \in Sessions PROVE Home(s)'
  BY DEF Homes
<1>1. Home(s) /\ received[s] \in Seq(Reqs)
  BY DEF Homes
<1>2. \A i \in 1..Len(received[s]) : received[s][i] \in Reqs /\ Received(received[s][i])
  BY <1>1 DEF Received
<1>. QED
  BY <1>1, <1>2 DEF Home

LEMMA StepHomes ==
  ASSUME DispatchInv, Homes, [Next]_vars
  PROVE  Homes'
<1>0. received \in [Sessions -> Seq(Reqs)]
  BY DEF DispatchInv, TypeOK
<1>1. ASSUME NEW r \in Reqs, Receive(r)
      PROVE  Homes'
  <2>1. ~Received(r)
    BY <1>1 DEF Receive, DispatchInv, Unmade, OneWay
  <2>2. \A q \in Reqs : q # r => request'[q] = request[q]
    BY <1>1 DEF Receive, DispatchInv, TypeOK
  <2>. QED
    BY <1>0, <1>1, <2>1, <2>2, HomesStay DEF Receive
<1>2. ASSUME UNCHANGED <<request, received>>
      PROVE  Homes'
  BY <1>0, <1>2, HomesStay
<1>3. ASSUME NEW r \in Reqs, DispatchReturns(r)
      PROVE  Homes'
  <2>1. ~Received(r) /\ UNCHANGED request
    BY <1>3 DEF DispatchReturns, DispatchInv, OneWay
  <2>. QED
    BY <1>2, <1>3, <2>1, PushGoesHome DEF DispatchReturns, Route
<1>4. ASSUME NEW sh \in Shards, NEW r \in Reqs, AnswerArrives(sh, r)
      PROVE  Homes'
  <2>1. ~Received(r) /\ UNCHANGED request
    BY <1>4 DEF AnswerArrives, DispatchInv, OneWay, Posted
  <2>. QED
    BY <1>4, <2>1, PushGoesHome DEF AnswerArrives
<1>5. ASSUME NEW r \in Reqs,
             \/ Reject(r) \/ HandleElement(r) \/ HandlerEnds(r) \/ HandleRequestReturns(r)
      PROVE  Homes'
  BY <1>2, <1>5 DEF Reject, HandleElement, HandlerEnds, HandleRequestReturns
<1>6. CASE (\E s \in Sessions : SessionEnds(s)) \/ UNCHANGED vars
  BY <1>2, <1>6 DEF SessionEnds, vars
<1>. QED
  BY <1>1, <1>3, <1>4, <1>5, <1>6 DEF Next, RequestStep

\* An answer is in the reply, in the queue of the session that asked for it,
\* or on its way there: in one of them only, and once.
THEOREM AnswersFindHome == Spec => []AnswersGoHome
<1>1. Init => Homes
  BY DEF Init, Homes, Home
<1>2. DispatchInv /\ Homes /\ [Next]_vars => Homes'
  BY StepHomes
<1>3. DispatchInv /\ Homes => AnswersGoHome
  <2> SUFFICES ASSUME DispatchInv, Homes PROVE AnswersGoHome
    OBVIOUS
  <2>1. ASSUME NEW s \in Sessions, NEW i \in 1..Len(received[s])
        PROVE  LET r == received[s][i] IN
               /\ request[r].session = s /\ reply[r] = "accepted"
               /\ \A sh \in Shards : <<sh, r>> \notin posted
               /\ \A j \in 1..Len(received[s]) : received[s][j] = r => i = j
    <3> DEFINE r == received[s][i]
    <3>1. r \in Reqs
      BY DEF DispatchInv, TypeOK
    <3>2. Received(r) /\ OneWay(r)
      BY <3>1 DEF Received, DispatchInv
    <3>. QED
      BY <3>2 DEF OneWay, Posted, Homes, Home
  <2>2. ASSUME NEW m \in posted PROVE reply[m[2]] = "accepted"
    <3>1. PICK sh \in Shards, r \in Reqs : m = <<sh, r>>
      BY DEF DispatchInv, TypeOK
    <3>2. OneWay(r) /\ Posted(r)
      BY <3>1 DEF DispatchInv, Posted
    <3>. QED
      BY <3>1, <3>2 DEF OneWay
  <2>. QED
    BY <2>1, <2>2 DEF AnswersGoHome
<1>. QED
  BY <1>1, <1>2, <1>3, Invariance, PTL DEF Spec

-----------------------------------------------------------------------------
(* No answer is dropped. *)

\* Where the answer of r is.  Only the answer to a session crosses shards.
Kept(r) ==
    /\ pc[r] = "done" /\ responses[r] # <<>> =>
         \/ reply[r] = "answer" \/ Received(r)
         \/ <<request[r].session.shard, r>> \in posted
         \/ SessionEnded(r) \/ Misrouted(r)
    /\ Posted(r) => request[r].session \in Sessions

\* A push to an open session of the shard puts the request into its queue.
LEMMA PushReachesOpen ==
  ASSUME received \in [Sessions -> Seq(Reqs)], NEW r \in Reqs, NEW s \in open,
         open \subseteq Sessions, PushToSession(s.shard, s, r)
  PROVE  Received(r)'
<1>1. received'[s] = Append(received[s], r) /\ received[s] \in Seq(Reqs)
  BY DEF PushToSession
<1>2. Len(received'[s]) \in 1..Len(received'[s]) /\ received'[s][Len(received'[s])] = r
  BY <1>1
<1>. QED
  BY <1>2 DEF Received

\* What a session has received it keeps.
LEMMA ReceivedStays ==
  ASSUME DispatchInv, [Next]_vars, NEW q \in Reqs, Received(q)
  PROVE  Received(q)'
<1> USE DEF DispatchInv, TypeOK
<1>1. CASE UNCHANGED received
  BY <1>1 DEF Received
<1>2. ASSUME NEW r \in Reqs, NEW sh, NEW s, PushToSession(sh, s, r), ~Received(r)
      PROVE  Received(q)'
  BY <1>2, PushReceives
<1>3. ASSUME NEW r \in Reqs, DispatchReturns(r)
      PROVE  Received(q)'
  <2>1. ~Received(r)
    BY <1>3 DEF DispatchReturns, OneWay
  <2>. QED
    BY <1>1, <1>2, <1>3, <2>1 DEF DispatchReturns, Route
<1>4. ASSUME NEW r \in Reqs, NEW sh \in Shards, AnswerArrives(sh, r)
      PROVE  Received(q)'
  <2>1. ~Received(r)
    BY <1>4 DEF AnswerArrives, OneWay, Posted
  <2>. QED
    BY <1>2, <1>4, <2>1 DEF AnswerArrives
<1>5. ASSUME NEW r \in Reqs,
             \/ Receive(r) \/ Reject(r) \/ HandleElement(r) \/ HandlerEnds(r)
             \/ HandleRequestReturns(r)
      PROVE  Received(q)'
  BY <1>1, <1>5 DEF Receive, Reject, HandleElement, HandlerEnds, HandleRequestReturns
<1>6. CASE (\E s \in Sessions : SessionEnds(s)) \/ UNCHANGED vars
  BY <1>1, <1>6 DEF SessionEnds, vars
<1>. QED
  BY <1>3, <1>4, <1>5, <1>6 DEF Next, RequestStep

\* Dispatch hands the answer to the reply, to the session or to its shard.
LEMMA DispatchReturnsKeeps ==
  ASSUME DispatchInv, NEW r \in Reqs, DispatchReturns(r)
  PROVE  Kept(r)'
<1> DEFINE s == request[r].session
           target == ParseShard(request[r].endpoint, s)
<1> USE DEF DispatchInv, TypeOK
<1>1. /\ request' = request /\ responses' = responses /\ open' = open
      /\ r \in DOMAIN reply /\ ~Posted(r)
  BY DEF DispatchReturns, OneWay
<1>0. CASE responses[r] = <<>>
  <2>1. ~Posted(r)'
    BY <1>0, <1>1 DEF DispatchReturns, Route, Posted
  <2>. QED
    BY <1>0, <1>1, <2>1 DEF Kept
<1>2. CASE s = NoSession /\ responses[r] # <<>>
  <2>1. reply'[r] = "answer" /\ ~Posted(r)'
    BY <1>1, <1>2 DEF DispatchReturns, Route, Posted
  <2>. QED
    BY <2>1 DEF Kept
<1>3. CASE s \in Sessions /\ responses[r] # <<>>
  <2>1. s # NoSession
    BY <1>3, SessionsAssumption
  <2>0. request[r]'.session \in Sessions
    BY <1>1, <1>3
  <2>2. target = s.shard \/ Misrouted(r)'
    <3>1. CASE request[r].endpoint = "/message" /\ s.kind = "sm"
      BY <1>1, <2>1, <3>1 DEF ParseShard, Misrouted
    <3>2. CASE ~(request[r].endpoint = "/message" /\ s.kind = "sm")
      BY <3>2 DEF ParseShard
    <3>. QED
      BY <3>1, <3>2
  <2>3. CASE Misrouted(r)'
    BY <2>0, <2>3 DEF Kept
  <2>4. CASE target = s.shard /\ target = request[r].shard
    <3>1. PushToSession(s.shard, s, r)
      BY <1>3, <2>1, <2>4 DEF DispatchReturns, Route
    <3>2. s \in open => Received(r)'
      BY <3>1, PushReachesOpen
    <3>3. s \notin open => SessionEnded(r)'
      BY <1>1, <1>3 DEF SessionEnded
    <3>. QED
      BY <2>0, <3>2, <3>3 DEF Kept
  <2>5. CASE target = s.shard /\ target # request[r].shard
    <3>1. <<s.shard, r>> \in posted'
      BY <1>3, <2>1, <2>5 DEF DispatchReturns, Route
    <3>. QED
      BY <2>0, <1>1, <3>1 DEF Kept
  <2>. QED
    BY <2>2, <2>3, <2>4, <2>5
<1>. QED
  BY <1>0, <1>2, <1>3

\* An answer that reaches the shard of its session is received there, or the
\* session has ended.
LEMMA AnswerArrivesKeeps ==
  ASSUME DispatchInv, NEW r \in Reqs, Kept(r), NEW sh \in Shards, AnswerArrives(sh, r)
  PROVE  Kept(r)'
<1> DEFINE s == request[r].session
<1> USE DEF DispatchInv, TypeOK
<1>1. /\ UNCHANGED <<request, pc, responses, reply, open>>
      /\ ~Received(r) /\ <<sh, r>> \in posted
      /\ reply[r] # "answer" /\ pc[r] = "done" /\ responses[r] # <<>>
  BY DEF AnswerArrives, OneWay, Posted
<1>0. s \in Sessions /\ ~Posted(r)'
  BY <1>1 DEF Kept, AnswerArrives, OneWay, Posted
<1>2. CASE SessionEnded(r) \/ Misrouted(r)
  BY <1>0, <1>1, <1>2 DEF Kept, SessionEnded, Misrouted
<1>3. CASE <<s.shard, r>> \in posted /\ ~SessionEnded(r) /\ ~Misrouted(r)
  <2>1. s.shard = sh
    BY <1>1, <1>3 DEF OneWay
  <2>2. CASE s \in open
    <3>1. PushToSession(s.shard, s, r)
      BY <2>1 DEF AnswerArrives
    <3>. QED
      BY <1>0, <2>2, <3>1, PushReachesOpen DEF Kept
  <2>. QED
    BY <1>0, <1>3, <2>2 DEF SessionEnded
<1>. QED
  BY <1>1, <1>2, <1>3 DEF Kept

LEMMA StepKeeps ==
  ASSUME DispatchInv, [Next]_vars, NEW q \in Reqs, Kept(q)
  PROVE  Kept(q)'
<1> USE DEF DispatchInv, TypeOK
<1>0. Received(q) => Received(q)'
  BY ReceivedStays
<1>1. ASSUME UNCHANGED <<request[q], pc[q], responses[q], reply[q]>>, open' \subseteq open,
             \A sh \in Shards : <<sh, q>> \in posted' <=> <<sh, q>> \in posted
      PROVE  Kept(q)'
  <2>1. Posted(q)' <=> Posted(q)
    BY <1>1 DEF Posted
  <2>2. (SessionEnded(q) => SessionEnded(q)') /\ (Misrouted(q) => Misrouted(q)')
    BY <1>1 DEF SessionEnded, Misrouted
  <2>3. /\ request[q]'.session = request[q].session
        /\ \A x \in Sessions : x.shard \in Shards
    BY <1>1, SessionsAssumption
  <2>4. <<request[q].session.shard, q>> \in posted =>
          <<request[q].session.shard, q>> \in posted'
    BY <1>1
  <2>. QED
    BY <1>0, <1>1, <2>1, <2>2, <2>3, <2>4 DEF Kept
<1>2. ASSUME NEW r \in Reqs,
             \/ Receive(r) \/ Reject(r) \/ HandleElement(r) \/ HandlerEnds(r)
             \/ HandleRequestReturns(r)
      PROVE  Kept(q)'
  <2>1. UNCHANGED <<posted, open>>
    BY <1>2 DEF Receive, Reject, HandleElement, HandlerEnds, HandleRequestReturns
  <2>2. CASE q = r
    <3>1. pc[r] # "done" /\ pc'[r] # "done"
      BY <1>2 DEF Receive, Reject, HandleElement, HandlerEnds, HandleRequestReturns,
         Dispatch, SecurityReject, HandleSingle, Fail, Unmade
    <3>2. ~Posted(q)'
      BY <2>1, <2>2, <3>1 DEF OneWay, Posted
    <3>. QED
      BY <2>2, <3>1, <3>2 DEF Kept
  <2>3. CASE q # r
    <3>1. UNCHANGED <<request[q], pc[q], responses[q], reply[q]>>
      BY <1>2, <2>3 DEF Receive, Reject, HandleElement, HandlerEnds,
         HandleRequestReturns, Dispatch, SecurityReject, HandleSingle, Fail, Respond
    <3>. QED
      BY <1>1, <2>1, <3>1
  <2>. QED
    BY <2>2, <2>3
<1>3. ASSUME NEW r \in Reqs, DispatchReturns(r) \/ \E sh \in Shards : AnswerArrives(sh, r)
      PROVE  Kept(q)'
  <2>1. CASE q # r
    <3>1. /\ UNCHANGED <<request[q], pc[q], responses[q], reply[q], open>>
          /\ \A sh \in Shards : <<sh, q>> \in posted' <=> <<sh, q>> \in posted
      <4>1. CASE DispatchReturns(r)
        BY <2>1, <4>1 DEF DispatchReturns, Route
      <4>2. ASSUME NEW sh \in Shards, AnswerArrives(sh, r)
            PROVE  /\ UNCHANGED <<request[q], pc[q], responses[q], reply[q], open>>
                   /\ \A x \in Shards : <<x, q>> \in posted' <=> <<x, q>> \in posted
        BY <2>1, <4>2 DEF AnswerArrives
      <4>. QED
        BY <1>3, <4>1, <4>2
    <3>. QED
      BY <1>1, <3>1
  <2>. QED
    BY <1>3, <2>1, DispatchReturnsKeeps, AnswerArrivesKeeps
<1>4. CASE (\E s \in Sessions : SessionEnds(s)) \/ UNCHANGED vars
  BY <1>1, <1>4 DEF SessionEnds, vars
<1>. QED
  BY <1>2, <1>3, <1>4 DEF Next, RequestStep

\* No answer is dropped between dispatch and the client: it is in the reply,
\* in the queue of the session, or on its way to the session's shard, as long
\* as that session lives; only an answer misrouted by /message is not.  With
\* a fair scheduler the last of these does not last, which TLC checks.
THEOREM NoAnswerDropped == Spec => []AnswersKept
<1>1. Init => \A r \in Reqs : Kept(r)
  BY DEF Init, Kept, Posted
<1>2. DispatchInv /\ (\A r \in Reqs : Kept(r)) /\ [Next]_vars => (\A r \in Reqs : Kept(r))'
  BY StepKeeps
<1>3. (\A r \in Reqs : Kept(r)) => AnswersKept
  BY DEF AnswersKept, Kept
<1>. QED
  BY <1>1, <1>2, <1>3, Invariance, PTL DEF Spec

\* An answer is always in one place and in one only.
THEOREM AnswersStayInOnePlace == Spec => []AnswersInOnePlace
  BY AnswersFindHome, NoAnswerDropped, PTL DEF AnswersInOnePlace
=============================================================================
