# TLA+ specifications of the Seastar MCP server

The server is a C++20 SDK for the Model Context Protocol on the Seastar
framework. It runs one `McpShard` on every core; a shard is single-threaded and
shares nothing with the others but messages. What is hard in it is therefore not
data races but *suspension*: every `co_await` lets the shard run anything else,
and connections, sessions, requests and answers of one client may be served by
different shards.

Line numbers below are those of `src/include/mcp/...` and `src/src/mcp/...`;
`PROJECT.json` maps every definition to its lines.

## 1. The system

| Part | State | Operations | Talks to |
|---|---|---|---|
| `McpShard`, sessions (`mcp_shard.hh`) | `_sessions`, `_session_counter`, `_session_to_ip`, `_ip_conn_count` | create, create with id, remove, push, broadcast, stop | transports (calls), other shards (`invoke_on`) |
| `McpShard`, subscriptions | `_subscriptions`, `_current_session_id` | subscribe, unsubscribe, clean up, notify | dispatcher's handlers, transports, `McpServer` broadcasts |
| `McpShard`, progress and log level | `_current_progress_token`, `_client_log_level` | push_progress, setLevel | handlers, all shards |
| `McpShard`, requests to clients | `_server_request_counter`, `_pending_client_requests` | send request, handle answer, stop | session queues, dispatch |
| `McpShard::check_request` | — | filter, key, limiter, breaker in that order | the three security components |
| `PerIpRateLimiter` | a token bucket for each address | try_acquire, reset | steady clock |
| `PerIpCircuitBreaker` | a circuit for each address | allow, record_success, record_failure, reset | steady clock |
| `IpFilter` | lists of networks, read-only | is_allowed | — |
| HTTP+SSE transport | the HTTP server of one port | GET /sse, POST /message | its shard, other shards |
| Streamable HTTP transport | `_next_counter` of each shard | POST, GET, DELETE /mcp | its shard, other shards |
| `SseSession` | queue of 100 messages, `active` | push, pop | producers; one reader |
| Stdio transport | one thread on shard 0 | read a line, dispatch, write | shard 0 |
| `JsonRpcDispatcher` | method tables, batch limit | handle_request | registered handlers |
| `McpRegistry`, builder, types | read-only after start | look-ups | user's tools |
| `McpServer` | transports, shards | start, stop, broadcasts | all of the above |

A session lives on the shard that created it; its id names that shard. It is
read by the body writer of its HTTP reply: a coroutine that loops over
`pop_eventually`, writes, and on its way out cleans up the subscriptions and
removes the session. A later POST of the same client is served by whichever
shard its connection landed on, which pushes the answer to the session's shard.
DELETE does the same with the removal.

What is hard, and where each is looked at (the full list is `hazards` in
`PROJECT.json`):

* removal by two parties in either order, exceptions between creation and the
  reader, a second reader of the same queue (`ShardSessions`);
* a queue that is full, or closed while its reader sleeps, writes or is about to:
  who is woken, what is still written, what is lost (`SessionQueue`);
* fields of the shard that mean "the request being handled" while handlers
  suspend, and elements of a batch that follow one that did (`DispatchContext`,
  `ResourceSubscriptions`);
* state that is kept on the shard that happened to serve a request
  (`ResourceSubscriptions`, `ClientRpc`), or on all of them (`DispatchContext`);
* outcomes reported late, in any order, or never (`CircuitBreaker`);
* duplicated, misdirected, unreadable answers (`ClientRpc`);
* a stop sequence whose first stage waits for its last (`ShardSessions`);
* batches that are answered as a whole or not at all, and answers that find their
  session on another shard, or find it gone (`Dispatcher`);
* the order of four checks, the arithmetic of time and of address masks
  (`RequestChecks`, `RateLimiter`, `IpFilter`, `CircuitBreaker`).

## 2. The modules

**One action is one stretch of reactor code between two suspension points.**
Shards take turns only at those points, so an action is atomic because the code
is.

| Module | Models | Extends |
|---|---|---|
| `ShardSessions` | session tables, connection limit, stream handlers, body writers, DELETE across shards, the stop sequence | — |
| `ResourceSubscriptions` | subscriptions and the dispatch context on top of the sessions | `ShardSessions` |
| `DispatchContext` | the fields that handlers share: session and progress token of the request being handled, log levels across shards | — |
| `SseStream` | abstract: what a session's stream promises those who push to it | — |
| `SessionQueue` | the queue of a session, its producers and its reader, wake-up by wake-up; implements `SseStream` | — |
| `RequestBodies` | request bodies, and what an answer to one is | — |
| `RequestReply` | abstract: what the server promises about a request | `RequestBodies` |
| `Dispatcher` | POST handlers, JSON-RPC dispatcher, the way of an answer; implements `RequestReply` | `RequestBodies` |
| `ClientRpc` | requests to clients and their answers | — |
| `CircuitBreaker` | one address's circuit and its requests in dispatch | — |
| `RateLimiter` | one address's bucket | — |
| `IpFilter` | the address filter and the lists it is built from, as operators | — |
| `RequestChecks` | the checks of a client's requests in their order | `RateLimiter`, `IpFilter` |
| `MCDispatcher`, `MCDispatchContext`, `MCRequestChecks` | bodies, sessions and lists for TLC | the module of that name |
| `ShardSessionsProofs`, `ResourceSubscriptionsProofs`, `DispatcherProofs`, `ClientRpcProofs`, `CircuitBreakerProofs`, `DispatchContextProofs`, `SessionQueueProofs` | theorems and their proofs | the module of that name, TLAPS |
| `RateLimiterProofs` | theorems and their proofs | `RequestChecks`, TLAPS |

### ShardSessions

The variables carry the names of the fields. `sessions[sh]` is the key set of
`_sessions`; a session *object* outlives its table entry (its reader holds a
`shared_ptr`), so `active` and `queued` are functions of the id and not of the
table. `pc[id][r]` is the coroutine that serves session `id`: role `creator` for
the GET /sse or POST /mcp that made it, `reconnect` for a GET /mcp. Its values are
the suspension points: `dispatching` (in `dispatch`), `asking` (there too, in a handler
that awaits its client's answer), `waiting` (in `pop_eventually` on an empty queue),
`ready` (woken, not run yet), `writing` (in `out.write` or `flush`), and `broken`,
`lost` for the two abnormal ones. `gone` is the set of streams whose connection is
closed: a write to it may fail or, as the first one after an orderly close does,
succeed; a reader that waits does not notice. `deletes` are the removals on their way
to another shard.

Abstractions: a message is only counted. The empty message that ends a stream
always follows `active = false`, and a stream that pops anything after that leaves
its loop, so the content decides nothing. Rejected requests change nothing here and
are no action. The queue's limit of 100 is `MaxQueued`; a push to a full queue waits
in the code and is absorbed in the model.

External behaviour taken as given: `seastar::queue` keeps one promise for a
waiting consumer, and a second waiter replaces (breaks) it; `http_server::stop`
shuts its connections down and waits until they are served.

### ResourceSubscriptions

`SubNext` conjoins the steps of `ShardSessions!Next` with what the same code does to
`_subscriptions` and `_current_session_id`: opening a session dispatches its first
request, the exit of the creating reader cleans up on its own shard. The handler of a
single request, and the first of a batch, run in one stretch with `dispatch`, so they
see their own context. A batch that comes to an element that awaits something leaves
its next element in `suspended`; when it goes on (`BatchGoesOn`), the subscription it
makes or removes is that of the session in the field by then, whoever's it is. So no
property says whose subscriptions there are: a client may be subscribed to what it
never asked for, and may lose what it did. What the module is for is the violation
run, where the cleanup fails even without such a batch, and the theorem that the
composition keeps all the promises of the sessions.

### DispatchContext

`dispatch` stores the session and the token of a request in two fields of the shard
(`current_session_id[sh]`, `current_progress_token[sh]`), and `push_progress` and
`subscribe_resource` read whatever is there when they run. `pc[r]` is the request's
coroutine: `running` is between two suspensions, and only one coroutine of a shard is
there (`Idle`); `asking` is a tool that awaits a client's answer, whose own dispatch
on the same shard (`DispatchAnswer`) returns before the fields are set; `suspended`
is any other wait, and between two elements of a batch the wait for a turn when the
time slice is used up; `broadcasting` is `setLevel` while its messages to the other
shards (`level_messages`) are under way. A batch has no `params` and so no token.
Sessions stay open here: what becomes of a push to a closed one is
`ShardSessions`' business. History: `received` and `subscribed` say which request
used which pair; `overlapped` are the requests during which their shard started
another one, `recent` the levels set since a `setLevel` began while no other was being
handled. Clients' levels start out the same on every shard, as the code's `warn` does,
the loggers' level independently of them. The element `subscribe` stands for
`resources/unsubscribe` as well, which reads the same field. `Home` gives a
session's shard; a push on another shard finds no session there.

### SseStream and SessionQueue

`SseStream` promises: messages are accepted, perhaps deferred when `Limit` of them
wait, delivered in order, and at the end at most one is still written. `SessionQueue`
is the code: `messages` is `seastar::queue`, `not_full` the message of the one
producer it can keep waiting (a second one replaces the promise of the first, whose
message is lost), `resuming` the producers it has woken, which push without testing
for room again, `reader` the body writer. The reader tests `active` at the top of its
loop and again after the pop; the two tests and what a close does in between is where
messages are lost or not. The mapping to `SseStream` has no variable of its own:
`inbox` is what the reader holds and what is queued, or after the close only what is
in `out.write`; `deferred` are the waiting and the woken producers, who have nothing
left to join once the session is closed.

The first answer of POST /mcp is pushed without a test of `active`. The module does
not distinguish it: into a closed session it goes unread, like any other message
behind the closing one.

### RequestReply and Dispatcher

`RequestReply` is the promise in three actions: a request is asked, answered in one
step, and handed over at most once. Its answer holds one response for each element
that asks for one, in the order of the elements, or the one error of a body that is
rejected as a whole. It says nothing of shards, sessions or handlers.

`Dispatcher` is how the code does it. `pc[r]` is the coroutine of a request: `refused`
(by the security checks, whose verdict is any of theirs), `handling` (in
`handle_request`, at element `next[r]`), `suspended` (in a method's handler),
`answered` (`dispatch` has returned), `done`, or `failed` (an exception left the POST
handler). `responses[r]` grows element by element, as the array in `handle_request`
does; an element that cannot be read, or a result that cannot be written, throws all
of it away. The refinement mapping hides the responses until `dispatch` has returned:
this is the whole-or-nothing of the promise. `posted` are the answers on their way to
another shard, `received` what was pushed to the session queues (what becomes of it
there, at a full queue above all, is `SessionQueue`'s business), `open` the sessions
whose table entry is there and active, which end at any time. The two transports
differ in how they read the shard from a session id, and `ParseShard` keeps the
difference. An element is its kind; ids, methods and results do not matter to where
answers go.

### ClientRpc

A call is named by its shard and number. Its message is pushed, queued, delivered
or lost; the answer is a POST of its own that carries only the number, arrives any
number of times at any shard, and is a result, an error, or an error that throws
when it is read (`handle_client_response` then leaves its entry alone, because the
`erase` comes last). `source` records whose answer resolved a call.

### CircuitBreaker and RateLimiter

One address on one shard: the entries of the tables do not influence each other,
and a missing entry equals a fresh one. In `CircuitBreaker` requests are admitted,
suspend, and report at any later time (`Report`), or never (`Throw`,
`AdmitStream`); an outcome may be either, whatever the request was. `flight` and
`lost_probes` are history: they tell a probe of the present half-open period from
an earlier request, which the code cannot. In `RateLimiter` one request costs
`Cost` units and each unit of time refills `Rate`; the rounding of the code's
doubles is left out. An observer may begin a window of time in any state.

### IpFilter and RequestChecks

An address has `Bits` bits and is the set of those that are one, so that `ip & mask`
is an intersection and `Mask` the set of the first `prefix` bits; the network byte order
plays no part. What `inet_pton` cannot read is `Unparsed` and becomes the address with
no bit set, in a list as in the code. With a prefix length out of range the constructor
throws and the server does not start (`Compiles`, `Started`). `NoIp` is
the empty address, which the code gives a client it cannot name. The filters are those
the builder's two methods make (`Built`). `RequestChecks` puts the four checks in their
order on top of the bucket of the address: the filter and the key refuse without
touching it, the limiter takes its token, and only then the circuit is asked, whose
verdict is left free here (`CircuitBreaker` says which). `verdict` is what the last
request was told.

## 3. What the runs check

| Run | Checks | Instance |
|---|---|---|
| `sessions_one_shard` | `TypeOK`, `ConnSlotsExact` (`ConnCountExact` and `TrackedAreOpen`), `SseWithinLimits`, `SessionsAreServed`, `NoIdReuse`, `UnreconnectedSessionsLast` | 1 shard, an address and the empty one, 3 sessions, limits of 1 an address and 2 in all; GET /sse, malformed POST /mcp, one GET /mcp |
| `sessions_cross_shard` | `ConnSlotsExact`, `SleepersReachable` (`ActiveInTable` and `NobodySleepsThrough`), `StopLeavesNothing`, liveness `ClosedStreamsEnd`, `StopHangsOnlyOnClients`, `DisconnectedStreamsEnd` | 2 shards, 1 session on each, handlers that await their clients, DELETEs between shards, stop |
| `context` | `TypeOK`, `TokensAreOwn`, `UndisturbedUseOwn`, `LevelsSettle` | 2 shards, 1 session on each and requests without one, 2 requests, 1 token or none, 2 levels; a tool, setLevel, batches of setLevel or a tool before a subscribe |
| `queue` | `TypeOK`, `NoMissedWakeUp`, refinement `ImplementsStream` (with its fairness), liveness `ClosedReaderLeaves` | 5 messages, capacity 2 |
| `dispatcher` | `TypeOK`, `AnswersInOnePlace` (`AnswersGoHome` and `AnswersKept`), refinement `KeepsPromise`, liveness `AnswersArrive` | 2 requests, 2 shards, 1 session of each transport; a notification, batches that mix what is answered, refused and not, that throw after a first answer, that are too large; limit 3 |
| `client_rpc` | `TypeOK`, `PendingAreUnresolved`, `StopResolvesAll`, `ResolvedOnce` | 2 shards, 2 calls each |
| `breaker` | `TypeOK`, `CountersMatchState`, `ProbeSlotsExact` (`ProbesBounded` and `TestNotStuck`), `OpenLastsTimeout`, liveness `HalfOpenResolvesUnlessLost` | thresholds 3, 2, 4; timeout 2; 4 requests at once |
| `request_checks` | `TypeOK`, `WindowBound`, `NothingWithheld`, `FilterMatchesLists` | burst 2, 3 units a token, 2 units a tick, 7 ticks, 1 reset; 2-bit addresses, 5 lists in either role, keys required or not |

Bounds. Three sessions on a shard are the least that exceed a limit of
two in all when each of them keeps the limit of one per address (those without an
address are not counted for any), and let an id be reused if it could be; sessions of
different shards meet only in DELETE, so one per shard is enough there. A queue of one
message has the three states that matter to a reader: empty, not empty, and full. In
`queue`, two messages fill the queue, a third waits, a fourth takes its place, a fifth
comes when the waiting one has been woken but has not pushed; that is every way a
wake-up can cross another push. In `context` the second request is the one that
overwrites the fields of the first. Two-bit addresses have networks of every kind of
prefix: all addresses, half of them, one. Two requests are the least that race for one
session's queue and for the stdio loop. One GET /mcp per session is enough to break
the first reader. A bucket whose refill does not divide the cost exercises the
fractions, and a queue of two messages has an order to keep. The theorems of section 5
remove the bounds for everything listed there.

The stop sequence is part of `sessions_cross_shard`; that the properties of
`sessions_one_shard` survive it is in the theorems. GET /mcp is part of
`sessions_one_shard`, and what it does wrong is stated there as the exception of a
property: a session somebody reconnected to (`Reconnected`) may end by itself, one
nobody reconnected to may not (`UnreconnectedSessionsLast`). Without the exception the
statement is the documentation's, and `sessions_reconnect` refutes it. In the same way
`SessionsAreServed` excepts the sessions whose creating request threw.

Four of the liveness properties have a safety property beside them that says what they
live on: the step that must still come has not been lost. A waiting reader has nothing
to read and its session is not closed (`NobodySleepsThrough` beside `ClosedStreamsEnd`,
`NoMissedWakeUp` beside `ClosedReaderLeaves`); an answer is at one of the places from
which it arrives (`AnswersKept` beside `AnswersArrive`); a recovery test has a probe
under way or admits one (`TestNotStuck` beside `HalfOpenResolvesUnlessLost`). The safety
half is proved, the rest follows in TLC from the fairness below.

Fairness (`FairSpec`). In `ShardSessions`: a scheduled continuation runs, a handler that awaits no client
returns, a write ends, a message between shards arrives, each stage of the stop goes on
when it can. These are weak fairness of `StreamStep`, `HandlerReturns`,
`DeleteArrives`, `SseStopped`, `StreamableStopped` and `ShardStop`; the reactor runs
every ready task. Strong fairness of `StreamFails` says that writes to a closed
connection do not succeed for ever: the peer's kernel answers the first with a reset.
A handler that awaits its client's answer has no fairness: the client need not answer,
and the one thing that always releases it, `McpShard::stop`, is the last stage of a
stop that waits for its connection. Nothing obliges a client to send, read, disconnect
or delete, or the server to stop. In
`CircuitBreaker`: time passes, admitted requests end, and the client keeps sending
requests (`WF_vars(\E r : Admit(r))`, without which a half-open circuit waits for
its next probe for ever, which is no fault of it). `ClientRpc` has none, and no liveness:
neither the client nor the code decides on which shard an answer lands.
In `Dispatcher`: the reactor runs what is ready, handlers return, messages between
shards arrive. In `SessionQueue`: the reader goes on when it can, a write ends or
fails, a woken producer runs; nobody has to push or close. A stop that hangs and a
client that leaves unnoticed are not assumed away: `StopHangsOnlyOnClients` says on what
alone a stop can hang, `DisconnectedStreamsEnd` what it takes to notice.

Deadlock is not checked where the bounds end the behaviours: all sessions or calls
used up, the last tick taken, the shards stopped. `breaker` checks it.

## 4. Where code and documentation differ

Each has a run that expects a violation of what the documentation says; the quotes
are in `PROJECT.json`.

| Run | Statement | What happens |
|---|---|---|
| `context_stale` | `ProgressReachesItsClient` | a tool that has been suspended pushes its progress to the session, and with the token, of the request its shard started last |
| `sessions_reconnect` | `OnlyClosedSessionsEnd` | a GET /mcp for a session whose first stream still waits ends the session |
| `subscriptions_cleanup` | `EndClearsSubscriptions` | a subscription on another shard than the session's is not cleaned up |
| `client_rpc_ids` | `AnswersMatch` | an answer on the wrong shard resolves the call with the same number there |

Seen while modelling, without a run of their own. `McpServer::stop` waits for an
idle stream that only the later stop of the shards would wake
(docs/complete-guide.md:422-425), and likewise for a handler that awaits its client:
`StopHangsOnlyOnClients` fails without either of its exceptions.
Streams use up the probes of a half-open circuit and never report
(builder.hh:127-128; `HalfOpenResolvesUnlessLost` likewise). POST /mcp opens streams
without testing the connection limit (docs/security.md:231 states it for both), and
as they are counted they use up GET /sse's share. A session id of `/mcp` posted to
`/message` sends the answer to shard 0. A request whose dispatch throws after POST
/mcp made its session leaves session and slot behind. An idle stream does not notice
that its client is gone (`DisconnectedStreamsEnd` says when it does). An element
of a batch that follows one that suspended may subscribe another client's session, or
remove its subscription. Overlapping `setLevel` requests leave shards with different
levels, and before the first one clients' levels and the loggers' are not aligned. An entry of a
whitelist or blacklist that cannot be read counts as the network of address 0 with
its prefix, and docs/security.md:97 lets requests without an address through in
whitelist mode, while `with_ip_whitelist` (builder.hh:95) has them refused;
`FilterMatchesLists` is stated for neither. A
second producer waiting at a full queue replaces the first, whose message is lost.
`max_total`, commented as global, is one limit per shard; `_client_log_level` is set
and never read.

## 5. What is proved

TLAPS checks these for all values of the constants.

| Theorem | Statement |
|---|---|
| `ShardSessionsProofs!TypeCorrect` | `Spec => []TypeOK` |
| `ShardSessionsProofs!ConnCountIsExact` | `Spec => []ConnCountExact` |
| `ShardSessionsProofs!SseKeepsLimits` | `Spec => []SseWithinLimits` |
| `ShardSessionsProofs!TrackedStayOpen`, `IdsAreNotReused` | `TrackedAreOpen`, `NoIdReuse` |
| `ShardSessionsProofs!ConnSlotsAreExact` | `Spec => []ConnSlotsExact`, from `ConnCountIsExact` and `TrackedStayOpen` |
| `ShardSessionsProofs!ActiveAreInTable`, `SessionsEndForAReason` | `Spec => []ActiveInTable`, `Spec => UnreconnectedSessionsLast` |
| `ShardSessionsProofs!NoWakeUpIsLost` | `Spec => []NobodySleepsThrough` |
| `ShardSessionsProofs!SleepersAreReachable` | `Spec => []SleepersReachable`, from `ActiveAreInTable` and `NoWakeUpIsLost` |
| `ShardSessionsProofs!StopIsClean` | `Spec => []StopLeavesNothing` |
| `ShardSessionsProofs!SessionsStayServed` | `Spec => []SessionsAreServed` |
| `ResourceSubscriptionsProofs!SubscriptionsKeepSessions` | `SubSpec => Spec`: the composed system implements the sessions |
| `ResourceSubscriptionsProofs!SubTypeCorrect` | `SubSpec => []SubTypeOK` |
| `DispatcherProofs!TypeCorrect` | `Spec => []TypeOK` |
| `DispatcherProofs!AnswersFindHome` | `Spec => []AnswersGoHome` |
| `DispatcherProofs!NoAnswerDropped` | `Spec => []AnswersKept` |
| `DispatcherProofs!AnswersStayInOnePlace` | `Spec => []AnswersInOnePlace`, from the two before |
| `DispatcherProofs!PromiseIsKept` | `Spec => KeepsPromise`: the dispatcher implements `RequestReply` |
| `DispatchContextProofs!TypeCorrect`, `TokensStayWithSessions`, `UndisturbedIsOwn`, `LevelsConverge` | `TypeOK`, `TokensAreOwn`, `UndisturbedUseOwn`, `LevelsSettle` |
| `SessionQueueProofs!TypeCorrect` | `Spec => []TypeOK` |
| `SessionQueueProofs!NoWakeUpIsMissed` | `Spec => []NoMissedWakeUp` |
| `SessionQueueProofs!QueueImplementsStream` | `Spec => Stream!Spec`: the queue and its reader implement `SseStream` |
| `ClientRpcProofs!TypeCorrect`, `PendingIsExact`, `StopLeavesNobodyWaiting`, `PromisesResolveOnce` | `TypeOK`, `PendingAreUnresolved`, `StopResolvesAll`, `ResolvedOnce` |
| `CircuitBreakerProofs!TypeCorrect`, `CountersAreFresh`, `ProbesAreBounded`, `TestsAreNotStuck`, `ProbeSlotsAreExact`, `OpenIsNotShortened` | `TypeOK`, `CountersMatchState`, `ProbesBounded`, `TestNotStuck`, the two together (`ProbeSlotsExact`), `OpenLastsTimeout` |
| `RateLimiterProofs!TypeCorrect`, `WindowIsBounded`, `RefusalsAreFree` | `TypeOK`, `WindowBound`, `NothingWithheld` |
| `RateLimiterProofs!ChecksKeepLimiter` | `CheckSpec => Spec`: whatever the other checks refuse, the bucket behaves as one alone, so the three above hold of it too |
| `RateLimiterProofs!FilterIsExact` | `CheckSpec => []FilterMatchesLists` |

The arguments:

* *Sessions.* `NextIsTableStep` reduces every action to what it does to the table:
  it adds a fresh id, removes one, empties one table, or leaves all alone. `CountInv` adds to
  `ConnCountExact` that every tracked id has been issued (so a new id is tracked for
  nobody and adding it raises the count by one) and that the tracked sets are
  finite. `LimitInv` adds that tables are finite; a GET /sse is admitted under a
  limit on *all* sessions, of which its own kind are a part. `TrackedAreOpen` is
  inductive with `TrackedIssued`: creation adds to both sides, removal takes from
  both, and a table is emptied only by the stop of its shard. `OneReader` is what a
  session nobody reconnected to has: the one reader is never broken, and its wake-up finds
  the message that caused it, so it leaves only for one of the three reasons, whatever
  happens to other sessions.
  `CreatorServes` says that a session in a table has its creating coroutine, which
  takes the session along when it ends, unless it was lost.
  `NoWakeUpIsLost` needs `OneReader` and that
  an active session is in its table, because there alone the push of a stop or a DELETE
  finds it. `StopInv` goes through the stages: a stage is left when none of its streams
  is served, and from then on its server accepts nothing, so the stage after it cannot
  bring one back; a stopped shard stays empty because tables grow only before the shards
  stop (`TableGrowsEarly`).
* *Subscriptions.* Every step of `SubNext` is one of `Next` or leaves `vars` alone,
  whence `SubSpec => Spec`: batches, contexts and notifications add nothing that the
  sessions cannot do by themselves.
* *Dispatcher.* `Handling` says that the responses are those of the elements before
  `next`, which `RespondsInOrder` carries from one element to the next and which is
  the whole answer when `next` has passed the last. `OneWay` says that an answer is
  in the reply, under way, or received, and in one of these only; so the step that
  hands it over is the first. `Homes` adds that what a session has received it has
  asked for, and no answer twice: a push happens only to an answer not received yet.
  Steps that neither answer nor hand over stutter. `Kept` adds to `AnswersKept`
  that what is under way belongs to a session: then a push on the session's own shard
  either reaches it (`PushReachesOpen`) or finds that it has ended, the shard
  `ParseShard` reads is that shard unless the id is misread, and what a session has
  received it keeps.
* *Dispatch context.* `ContextOfOne` says that the two fields of a shard are the
  session and the token of one and the same request that has begun, so no pair is
  ever mixed; `UndisturbedContext` that they are those of every open request the
  shard has started nothing else during. `Broadcast` follows the calls of `setLevel`:
  each shard has one of the last levels already or a message under way, and every
  message carries one of them and is awaited by its sender; so when nobody awaits one,
  all have arrived.
* *Session queue.* `ReaderInv` says when the reader has a message in hand (and that
  a woken reader finds one), `ProducersInv` that a message is with one
  producer at most, `NotClosed` that while the session is active the closing message is
  nowhere,
  so an active reader never leaves on it. With these each step maps: a push to
  `Accept` or `Defer`, a woken producer to `Join`, the end of a write to `Deliver`,
  a close and a failed write to `End` or `LastFails`, the rest to stutters.
  `NoMissedWakeUp` needs that a queue may be over its capacity, since a woken producer
  does not test for room: a pop from such a queue wakes nobody, and need not, because
  the queue is then still full and comes down to exactly its capacity before it can
  have room.
* *Requests to clients.* `RpcInv` adds to `PendingAreUnresolved` that calls not made
  yet are unresolved (the new call really is) and that a stopped shard has nothing
  pending.
* *Circuit breaker.* `ProbeInv` counts: probes in flight and lost probes together
  are no more than `half_open_reqs`. `ProbesAccounted` says the other direction, that
  a slot taken is a probe in flight, a lost one or a success already counted; so when
  no probe is in flight and no slot is free, all that were not lost have succeeded, and
  the test is over.
* *Rate limiter.* `Account` relates the tokens to the grants from both sides: what
  was granted plus what is left is at most what came in, and at least what was there
  plus the refill, cut at the capacity.
* *Filter.* Equal under a mask is equal in each of the mask's bits (`MaskCompares`),
  so a match of the compiled list is membership in one of the networks as they are
  written; the filter does not change, and its verdict is that of the two lists.

Assumptions are those of the modules, on constants only: the limits and bounds are
naturals, thresholds are positive, `NoIp`, `NoSession` and
`NoBody` are none of the real ones, a single request has one element.

Only model-checked: the liveness properties, and with them the fairness part of
`ImplementsStream` (liveness and `ENABLED` are out of the prover's reach). Every safety
invariant, action property and refinement of a passing run is a theorem for all values
of the constants, without further hypotheses. Every property of a passing run has a
mutant, a definition beside the real one in its module, with which TLC refutes it.

## 6. Not modelled

The start sequence is a straight line before any request. The builder is modelled
where it decides what a filter does, and the registry is a look-up whose result is the
handler's; the list methods return slices of lists that are fixed when the server
starts. The JSON types, the HTTP patch, the demo and the tests have no behaviour of the
kind these specifications are about. The stdio loop is one more caller of
`handle_request` (`Dispatcher`), but the stage of the stop sequence that joins its
thread is left out, and so is the reactor blocking in `std::getline`. TLS is configured
and unused. Object lifetimes (references across suspension points, such as `params` in
the notifications that run in the background) and the growth of the per-address
tables, which nothing ever shrinks, are outside these models.

## 7. Plan

Done, in this order: `ShardSessions` (most state, most interleaving), its proofs,
`CircuitBreaker`, `RateLimiter`, `ResourceSubscriptions`, `ClientRpc`, `Dispatcher`
with `RequestReply`, `DispatchContext`, `SessionQueue` with `SseStream`, `IpFilter`
and `RequestChecks`, and the proofs of each.

Next, in this order:

1. The stdio transport as a stage of the stop sequence, and `std::getline` blocking
   shard 0.
2. The cursor of the list methods, as an operator checked against a reference
   definition.
