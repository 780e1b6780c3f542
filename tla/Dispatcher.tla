------------------------------ MODULE Dispatcher ------------------------------
(***************************************************************************)
(* A request body on its way through the server: the POST handlers of both *)
(* HTTP transports for requests that open no stream, the stdio loop,       *)
(* McpShard::dispatch and JsonRpcDispatcher (include/mcp/router/           *)
(* dispatcher.hh), and the way of the answer to the shard of its session.  *)
(*                                                                         *)
(* A coroutine may lose the processor at every co_await, whether or not    *)
(* what it awaits is ready, so every element of a batch, and every answer  *)
(* of a handler, is an action of its own.                                  *)
(***************************************************************************)
EXTENDS RequestBodies

CONSTANTS
    Shards,     \* the reactor shards
    ShardZero,  \* shard 0
    Sessions,   \* the sessions clients name in their requests
    NoSession   \* no session id

ASSUME ShardAssumption == ShardZero \in Shards
ASSUME SessionsAssumption ==
    Sessions \subseteq [kind : {"s", "sm"}, shard : Shards] /\ NoSession \notin Sessions

Endpoints == {"/message", "/mcp", "stdio"}

VARIABLES
    request,    \* where each request came in, and the session it names
    body,       \* what it holds, NoBody if it was not made
    pc,         \* the coroutine that handles it
    next,       \* the next element to handle
    responses,  \* the responses so far
    reply,      \* the HTTP reply, or the line written to stdout
    posted,     \* the answers on their way to another shard
    open,       \* the sessions that are in their shard's table and active
    received    \* what was pushed to each session, as the requests answered

vars == <<request, body, pc, next, responses, reply, posted, open, received>>
-----------------------------------------------------------------------------
NoRequest == [endpoint |-> "stdio", shard |-> ShardZero, session |-> NoSession]

Init ==
    /\ request = [r \in Reqs |-> NoRequest]
    /\ body = [r \in Reqs |-> NoBody]
    /\ pc = [r \in Reqs |-> "none"]
    /\ next = [r \in Reqs |-> 1]
    /\ responses = [r \in Reqs |-> <<>>]
    /\ reply = [r \in Reqs |-> "none"]
    /\ posted = {}
    /\ open = Sessions
    /\ received = [s \in Sessions |-> <<>>]

\* The stdio loop reads a line when it has answered the last one; an
\* exception ends its thread.
StdioReads ==
    \A r \in Reqs : body[r] # NoBody /\ request[r].endpoint = "stdio" => pc[r] = "done"

\* What the size limit, the address filter, the API key, the rate limiter and
\* the circuit breaker may say of a request; RateLimiter and CircuitBreaker
\* have the last two.
CheckRequest ==
    {"OK", "PAYLOAD_TOO_LARGE", "FORBIDDEN", "UNAUTHORIZED", "TOO_MANY_REQUESTS",
     "SERVICE_UNAVAILABLE"}

\* Refused with a status of its own, before a look at the body.
SecurityReject(r) ==
    /\ pc' = [pc EXCEPT ![r] = "refused"]
    /\ reply' = [reply EXCEPT ![r] = "refused"]

Dispatch(r) ==
    /\ pc' = [pc EXCEPT ![r] = "handling"]
    /\ UNCHANGED reply

Receive(r) ==
    /\ body[r] = NoBody
    /\ \E b \in Bodies : body' = [body EXCEPT ![r] = b]
    /\ \/ /\ \E e \in {"/message", "/mcp"}, sh \in Shards, s \in Sessions \cup {NoSession} :
                request' = [request EXCEPT ![r] = [endpoint |-> e, shard |-> sh, session |-> s]]
          /\ \E result \in CheckRequest :
                IF result = "OK" THEN Dispatch(r) ELSE SecurityReject(r)
       \/ /\ StdioReads
          /\ request' = [request EXCEPT ![r] = NoRequest]
          /\ Dispatch(r)
    /\ UNCHANGED <<next, responses, posted, open, received>>

-----------------------------------------------------------------------------
(* JsonRpcDispatcher. *)

\* Mutant: the size of a batch is not tested.
RejectedUnlimited(b) ==
    b.form = "unparsable" \/ (b.form = "batch" /\ b.elems = <<>>)

\* handle_request's tests before it handles any element.
HandleRequestRejects(b) == Rejected(b)

Respond(r, pos, error) ==
    responses' = [responses EXCEPT ![r] = Append(@, [pos |-> pos, error |-> error])]

Reject(r) ==
    /\ pc[r] = "handling"
    /\ HandleRequestRejects(body[r])
    /\ Respond(r, 0, TRUE)
    /\ pc' = [pc EXCEPT ![r] = "answered"]
    /\ UNCHANGED <<request, body, next, reply, posted, open, received>>

\* An exception leaves dispatch and the handler: what the body's elements
\* have answered so far is lost.
Fail(r) ==
    /\ pc' = [pc EXCEPT ![r] = "failed"]
    /\ reply' = [reply EXCEPT ![r] = "exception"]
    /\ UNCHANGED <<next, responses>>

\* Mutant: a notification is answered.
HandleSingleAnswersAll(r, kind) ==
    \/ /\ kind \in {"notification", "refused"}
       /\ Respond(r, next[r], kind = "refused")
       /\ next' = [next EXCEPT ![r] = @ + 1]
       /\ UNCHANGED <<pc, reply>>
    \/ /\ kind = "call"
       /\ pc' = [pc EXCEPT ![r] = "suspended"]
       /\ UNCHANGED <<next, responses, reply>>
    \/ kind = "unreadable" /\ Fail(r)

\* _handle_single, up to the call of a method's handler.
HandleSingle(r, kind) ==
    \/ /\ kind = "notification"
       /\ next' = [next EXCEPT ![r] = @ + 1]
       /\ UNCHANGED <<pc, responses, reply>>
    \/ /\ kind = "refused"
       /\ Respond(r, next[r], TRUE)
       /\ next' = [next EXCEPT ![r] = @ + 1]
       /\ UNCHANGED <<pc, reply>>
    \/ /\ kind = "call"
       /\ pc' = [pc EXCEPT ![r] = "suspended"]
       /\ UNCHANGED <<next, responses, reply>>
    \/ kind = "unreadable" /\ Fail(r)

HandleElement(r) ==
    /\ pc[r] = "handling"
    /\ ~HandleRequestRejects(body[r])
    /\ next[r] <= Len(body[r].elems)
    /\ HandleSingle(r, body[r].elems[next[r]])
    /\ UNCHANGED <<request, body, posted, open, received>>

\* The handler returns a result or throws; or its result cannot be written as
\* JSON, which nothing catches.
HandlerEnds(r) ==
    /\ pc[r] = "suspended"
    /\ \/ /\ \E error \in BOOLEAN : Respond(r, next[r], error)
          /\ next' = [next EXCEPT ![r] = @ + 1]
          /\ pc' = [pc EXCEPT ![r] = "handling"]
          /\ UNCHANGED reply
       \/ Fail(r)
    /\ UNCHANGED <<request, body, posted, open, received>>

HandleRequestReturns(r) ==
    /\ pc[r] = "handling"
    /\ ~HandleRequestRejects(body[r])
    /\ next[r] > Len(body[r].elems)
    /\ pc' = [pc EXCEPT ![r] = "answered"]
    /\ UNCHANGED <<request, body, next, responses, reply, posted, open, received>>

-----------------------------------------------------------------------------
(* The transports. *)

\* Mutant: the shard is not read from the id.
ParseShardZero(endpoint, s) == ShardZero

\* _parse_shard: the one of /message does not know the ids of /mcp.
ParseShard(endpoint, s) ==
    IF endpoint = "/message" /\ s.kind = "sm" THEN ShardZero ELSE s.shard

\* push_to_session on shard sh.  What becomes of an answer that meets a full queue
\* is SessionQueue's business.
PushToSession(sh, s, r) ==
    received' = IF s \in open /\ s.shard = sh
                THEN [received EXCEPT ![s] = Append(@, r)] ELSE received

\* Mutant: the answer is sent in the reply as well.
RouteRepliesToo(r) ==
    LET s == request[r].session IN
    /\ reply' = [reply EXCEPT ![r] = IF responses[r] = <<>> THEN "accepted" ELSE "answer"]
    /\ IF s # NoSession /\ s.shard = request[r].shard
       THEN PushToSession(s.shard, s, r)
       ELSE UNCHANGED received
    /\ UNCHANGED posted

\* Where the answer goes: into the reply; to a session of this shard; to
\* another shard.  Without an answer the reply is all there is.
Route(r) ==
    LET s      == request[r].session
        target == ParseShard(request[r].endpoint, s)
    IN
    \/ /\ s = NoSession \/ responses[r] = <<>>
       /\ reply' = [reply EXCEPT ![r] = IF responses[r] = <<>> THEN "accepted" ELSE "answer"]
       /\ UNCHANGED <<posted, received>>
    \/ /\ s # NoSession /\ responses[r] # <<>>
       /\ reply' = [reply EXCEPT ![r] = "accepted"]
       /\ IF target = request[r].shard
          THEN PushToSession(target, s, r) /\ UNCHANGED posted
          ELSE posted' = posted \cup {<<target, r>>} /\ UNCHANGED received

DispatchReturns(r) ==
    /\ pc[r] = "answered"
    /\ Route(r)
    /\ pc' = [pc EXCEPT ![r] = "done"]
    /\ UNCHANGED <<request, body, next, responses, open>>

\* The answer reaches the other shard.
AnswerArrives(sh, r) ==
    /\ <<sh, r>> \in posted
    /\ posted' = posted \ {<<sh, r>>}
    /\ PushToSession(sh, request[r].session, r)
    /\ UNCHANGED <<request, body, pc, next, responses, reply, open>>

\* A session ends, in one of the ways of ShardSessions.
SessionEnds(s) ==
    /\ s \in open
    /\ open' = open \ {s}
    /\ UNCHANGED <<request, body, pc, next, responses, reply, posted, received>>

-----------------------------------------------------------------------------
RequestStep(r) ==
    \/ Reject(r) \/ HandleElement(r) \/ HandleRequestReturns(r) \/ DispatchReturns(r)

Next ==
    \/ \E r \in Reqs : Receive(r) \/ RequestStep(r) \/ HandlerEnds(r)
    \/ \E sh \in Shards, r \in Reqs : AnswerArrives(sh, r)
    \/ \E s \in Sessions : SessionEnds(s)

Spec == Init /\ [][Next]_vars

\* The reactor runs what is ready, handlers return, and messages between
\* shards arrive.
Fairness ==
    /\ \A r \in Reqs : WF_vars(RequestStep(r)) /\ WF_vars(HandlerEnds(r))
    /\ \A sh \in Shards, r \in Reqs : WF_vars(AnswerArrives(sh, r))

FairSpec == Spec /\ Fairness
-----------------------------------------------------------------------------
(* Properties. *)

Responses == [pos : 0..MaxBatch, error : BOOLEAN]

TypeOK ==
    /\ request \in [Reqs -> [endpoint : Endpoints, shard : Shards,
                             session : Sessions \cup {NoSession}]]
    /\ body \in [Reqs -> Bodies \cup {NoBody}]
    /\ pc \in [Reqs -> {"none", "handling", "suspended", "answered", "done", "failed", "refused"}]
    /\ next \in [Reqs -> 1..(MaxBatch + 1)]
    /\ responses \in [Reqs -> Seq(Responses)]
    /\ reply \in [Reqs -> {"none", "answer", "accepted", "exception", "refused"}]
    /\ posted \subseteq Shards \X Reqs
    /\ open \subseteq Sessions
    /\ received \in [Sessions -> Seq(Reqs)]

Received(r) == \E s \in Sessions : \E i \in 1..Len(received[s]) : received[s][i] = r

\* An answer goes one way: into the reply, to its own session, or across to
\* another shard, never two of them, and never twice into a queue, whatever
\* two requests of one session and its end do in between.
AnswersGoHome ==
    /\ \A s \in Sessions : \A i \in 1..Len(received[s]) :
         LET r == received[s][i] IN
         /\ request[r].session = s /\ reply[r] = "accepted"
         /\ \A sh \in Shards : <<sh, r>> \notin posted
         /\ \A j \in 1..Len(received[s]) : received[s][j] = r => i = j
    /\ \A m \in posted : reply[m[2]] = "accepted"

\* The answer as RequestReply sees it: there once dispatch has it whole.
Answers ==
    [r \in Reqs |-> IF pc[r] \in {"answered", "done"} THEN {responses[r]} ELSE {}]

Handed == {r \in Reqs : reply[r] = "answer" \/ Received(r)}

Promise == INSTANCE RequestReply WITH asked <- body, answer <- Answers, handed <- Handed

\* The server keeps RequestReply's promise: no response is missing, extra or
\* out of order, nothing of a failed request is handed over, and no answer is
\* handed over twice.
KeepsPromise == Promise!RRSpec

\* The exception: /message cannot parse the shard of an id of /mcp, and sends
\* the answer to shard 0.
Misrouted(r) ==
    /\ request[r].endpoint = "/message"
    /\ request[r].session # NoSession
    /\ request[r].session.kind = "sm"
    /\ request[r].session.shard # ShardZero

SessionEnded(r) == request[r].session \in Sessions \ open

\* No answer is dropped on its way: once dispatch has returned, it is in the
\* reply or was pushed to its session, or it is on its way to that session's
\* shard, until the session has ended.  _handle_post and push_to_session.
AnswersKept ==
    \A r \in Reqs : pc[r] = "done" /\ responses[r] # <<>> =>
        \/ reply[r] = "answer" \/ Received(r)
        \/ <<request[r].session.shard, r>> \in posted
        \/ SessionEnded(r) \/ Misrouted(r)

\* An answer is always in one place, and in one only: none is dropped and none
\* is given twice or to another client, whatever suspends, travels between
\* shards or ends meanwhile.
AnswersInOnePlace == AnswersGoHome /\ AnswersKept

\* Every request comes to an end, and its answer gets where it belongs: to
\* the reply, or to the session if that is still open.
AnswersArrive ==
    \A r \in Reqs : pc[r] = "handling" ~>
        \/ pc[r] = "failed" \/ Misrouted(r)
        \/ /\ pc[r] = "done"
           /\ \/ responses[r] = <<>> \/ reply[r] = "answer" \/ Received(r)
              \/ SessionEnded(r)
=============================================================================
