------------------------------ MODULE ClientRpc ------------------------------
(***************************************************************************)
(* The requests the server sends to its clients (sampling, elicitation):   *)
(* send_request_to_client and handle_client_response of McpShard           *)
(* (include/mcp/server/mcp_shard.hh).  A request goes out on the stream of *)
(* a session of its shard; the answer is a POST of its own, served by the  *)
(* shard its connection landed on, any number of times and at any time.    *)
(***************************************************************************)
EXTENDS Integers

CONSTANTS
    Shards,   \* the reactor shards, one McpShard each
    MaxCalls  \* calls one shard may make (bound)

ASSUME BoundAssumption == MaxCalls \in Nat

\* A call is named by the shard it is made on and the shard's request id.
Calls == Shards \X (1..MaxCalls)

\* What a client answers: a result, an error object, or an "error" of another
\* JSON type, on which reading its message throws.
Answers == {"result", "error", "malformed error"}

VARIABLES
    counter,  \* McpShard::_server_request_counter
    pending,  \* McpShard::_pending_client_requests (its keys)
    message,  \* where each call's request message is
    outcome,  \* what each call's promise was resolved with
    source,   \* (history) the calls whose clients' answers resolved it
    stopped   \* the shards whose McpShard::stop has run

vars == <<counter, pending, message, outcome, source, stopped>>
-----------------------------------------------------------------------------
Init ==
    /\ counter = [sh \in Shards |-> 0]
    /\ pending = [sh \in Shards |-> {}]
    /\ message = [c \in Calls |-> "none"]
    /\ outcome = [c \in Calls |-> "none"]
    /\ source = [c \in Calls |-> {}]
    /\ stopped = {}

\* The calls a shard has made.
Made(sh) == {n \in 1..MaxCalls : n <= counter[sh]}

\* The id of a shard's next call.
NextId(sh) == counter[sh] + 1

\* send_request_to_client, up to its suspension: in push_eventually on a full
\* queue, or on the promise, with the message queued or, if the session is
\* gone, dropped.
SendRequest(sh) ==
    /\ sh \notin stopped
    /\ counter[sh] < MaxCalls
    /\ counter' = [counter EXCEPT ![sh] = NextId(sh)]
    /\ pending' = [pending EXCEPT ![sh] = @ \cup {NextId(sh)}]
    /\ \E m \in {"pushing", "queued", "dropped"} :
          message' = [message EXCEPT ![<<sh, NextId(sh)>>] = m]
    /\ UNCHANGED <<outcome, source, stopped>>

\* The queue had room at last; or the session ended first, and the broken
\* promise of the push ends the call with an exception.
PushEnds(c) ==
    /\ message[c] = "pushing"
    /\ \E m \in {"queued", "failed"} : message' = [message EXCEPT ![c] = m]
    /\ UNCHANGED <<counter, pending, outcome, source, stopped>>

\* The stream delivers the message, or ends before it does.
StreamDelivers(c) ==
    /\ message[c] = "queued"
    /\ \E m \in {"delivered", "dropped"} : message' = [message EXCEPT ![c] = m]
    /\ UNCHANGED <<counter, pending, outcome, source, stopped>>

-----------------------------------------------------------------------------
\* Mutant: the entry of an answered request stays.
ResolveKeeps(sh, n, result, from) ==
    /\ outcome' = [outcome EXCEPT ![<<sh, n>>] = result]
    /\ source' = [source EXCEPT ![<<sh, n>>] = @ \cup {from}]
    /\ UNCHANGED pending

\* Resolve the promise of request n and erase its entry.
Resolve(sh, n, result, from) ==
    /\ outcome' = [outcome EXCEPT ![<<sh, n>>] = result]
    /\ source' = [source EXCEPT ![<<sh, n>>] = @ \cup {from}]
    /\ pending' = [pending EXCEPT ![sh] = @ \ {n}]

\* Mutant: the entry is erased before the answer is read.
HandleClientResponseErasesFirst(sh, n, answer, from) ==
    IF n \notin pending[sh]
    THEN UNCHANGED <<pending, outcome, source>>
    ELSE IF answer = "malformed error"
         THEN /\ pending' = [pending EXCEPT ![sh] = @ \ {n}]
              /\ UNCHANGED <<outcome, source>>
         ELSE Resolve(sh, n, answer, from)

\* Mutant: an error that cannot be read resolves the promise as it is.
HandleClientResponseUnread(sh, n, answer, from) ==
    IF n \in pending[sh]
    THEN Resolve(sh, n, answer, from)
    ELSE UNCHANGED <<pending, outcome, source>>

\* handle_client_response on shard sh; an answer that matches nothing, or
\* that throws, is dispatched like a request and refused.
HandleClientResponse(sh, n, answer, from) ==
    IF n \in pending[sh] /\ answer # "malformed error"
    THEN Resolve(sh, n, answer, from)
    ELSE UNCHANGED <<pending, outcome, source>>

\* The client answers call c, which carries only the request id, to shard sh.
AnswerArrives(c, sh, answer) ==
    /\ message[c] = "delivered"
    /\ sh \notin stopped
    /\ HandleClientResponse(sh, c[2], answer, c)
    /\ UNCHANGED <<counter, message, stopped>>

\* Mutant: the table is cleared and the waiting calls are forgotten.
ShardStopForgets(sh) ==
    /\ sh \notin stopped
    /\ stopped' = stopped \cup {sh}
    /\ pending' = [pending EXCEPT ![sh] = {}]
    /\ UNCHANGED <<counter, message, outcome, source>>

\* McpShard::stop.
ShardStop(sh) ==
    /\ sh \notin stopped
    /\ stopped' = stopped \cup {sh}
    /\ outcome' = [c \in Calls |-> IF c[1] = sh /\ c[2] \in pending[sh]
                                   THEN "stopped" ELSE outcome[c]]
    /\ pending' = [pending EXCEPT ![sh] = {}]
    /\ UNCHANGED <<counter, message, source>>

Next ==
    \/ \E sh \in Shards : SendRequest(sh) \/ ShardStop(sh)
    \/ \E c \in Calls : PushEnds(c) \/ StreamDelivers(c)
    \/ \E c \in Calls, sh \in Shards, answer \in Answers : AnswerArrives(c, sh, answer)

Spec == Init /\ [][Next]_vars
-----------------------------------------------------------------------------
(* Properties. *)

TypeOK ==
    /\ counter \in [Shards -> 0..MaxCalls]
    /\ pending \in [Shards -> SUBSET (1..MaxCalls)]
    /\ message \in [Calls -> {"none", "pushing", "queued", "delivered",
                              "dropped", "failed"}]
    /\ outcome \in [Calls -> {"none", "result", "error", "stopped"}]
    /\ source \in [Calls -> SUBSET Calls]
    /\ stopped \subseteq Shards

\* The table holds exactly the calls that were made and not resolved: through
\* duplicates, answers on the wrong shard, answers that cannot be read and a
\* stop, none is resolved and kept, and none is dropped unresolved, so every
\* caller that still waits can still be answered.
PendingAreUnresolved ==
    \A sh \in Shards :
        pending[sh] = {n \in Made(sh) : outcome[<<sh, n>>] = "none"}

\* A promise is resolved once: a second answer, or a stop after an answer,
\* finds nothing to resolve.  A seastar promise must not be set twice.
ResolvedOnce ==
    [][\A c \in Calls : outcome[c] # "none" => outcome'[c] = outcome[c]]_vars

\* After a shard stopped none of its callers waits for an answer.
StopResolvesAll ==
    \A sh \in stopped : \A n \in Made(sh) : outcome[<<sh, n>>] # "none"

\* docs/api/advanced.md: the request id is unique, and the answer finds the
\* promise of its own request.
AnswersMatch ==
    \A c \in Calls : source[c] \subseteq {c}
=============================================================================
