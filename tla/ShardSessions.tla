--------------------------- MODULE ShardSessions ---------------------------
(***************************************************************************)
(* The SSE sessions of the server: the session table and the per-IP        *)
(* connection count of every McpShard (include/mcp/server/mcp_shard.hh),   *)
(* the HTTP handlers that open, reconnect and close sessions               *)
(* (http_sse_transport.hh, streamable_http_transport.hh), the coroutines   *)
(* that write the streams, and the stop sequence of McpServer.             *)
(*                                                                         *)
(* One action is one stretch of reactor code between two suspension        *)
(* points.  What a message says is not modelled, only how many are queued: *)
(* the "" pushed to close a session always follows active = false, and a   *)
(* stream that pops anything after that leaves its loop.                   *)
(***************************************************************************)
EXTENDS Integers, FiniteSets

CONSTANTS
    Shards,        \* the reactor shards, one McpShard each
    Ips,           \* the client addresses the transports can extract
    NoIp,          \* the empty client_ip (no proxy header)
    LimitEnabled,  \* connection_limit.enabled
    MaxPerIp,      \* connection_limit.max_per_ip
    MaxTotal,      \* connection_limit.max_total
    Requests,      \* what clients send, and whether the server stops (bound)
    MaxSessions,   \* sessions one shard may issue (bound)
    MaxReconnects, \* sessions that clients reconnect to (bound)
    MaxQueued      \* messages waiting in one session's queue (bound)

RequestKinds == {"GET /sse", "POST /mcp", "malformed POST /mcp",
                 "GET /mcp", "DELETE /mcp", "stop"}

ASSUME NoIpAssumption == NoIp \notin Ips
ASSUME LimitAssumption ==
    LimitEnabled \in BOOLEAN /\ MaxPerIp \in Nat /\ MaxTotal \in Nat
ASSUME RequestsAssumption == Requests \subseteq RequestKinds
ASSUME BoundAssumption ==
    MaxSessions \in Nat /\ MaxReconnects \in Nat /\ MaxQueued \in Nat \ {0}

\* "s<shard>_<n>" is issued by GET /sse, "sm<shard>_<n>" by POST /mcp.
Ids == [kind : {"s", "sm"}, shard : Shards, n : 1..MaxSessions]

\* The coroutine of the request that created the session and the one of a
\* later GET /mcp (bound: one GET /mcp per session).
Roles == {"creator", "reconnect"}

\* Where such a coroutine is.  "asking": the handler of its request awaits a
\* client's answer; "waiting": suspended in pop_eventually on an empty queue;
\* "ready": its wake-up is scheduled; "broken": the promise it waits on was
\* replaced; "writing": in out.write/flush; "lost": the request ended in an
\* exception before its body writer was attached.
Pcs == {"none", "dispatching", "asking", "opening", "waiting", "ready", "broken",
        "writing", "done", "lost"}

Stages == {"running", "stop_sse", "stop_streamable", "stop_shards"}

VARIABLES
    session_counter, \* McpShard::_session_counter
    next_counter,    \* StreamableHttpTransport::_next_counter, one per shard
    sessions,        \* McpShard::_sessions (its keys)
    session_to_ip,   \* McpShard::_session_to_ip, NoIp where it has no entry
    ip_conn_count,   \* McpShard::_ip_conn_count, 0 where it has no entry
    active,          \* the sessions whose SseSession::active is true
    queued,          \* the length of SseSession::messages
    pc,              \* the stream coroutines
    gone,            \* the live streams whose connection is closed or shut down
                     \* (a write to it may still succeed)
    deletes,         \* DELETE /mcp forwarded to another shard, not yet run there
    stage,           \* how far McpServer::stop has come
    stopped          \* the shards whose McpShard::stop has run

counters == <<session_counter, next_counter>>
table    == <<sessions, session_to_ip, ip_conn_count>>
control  == <<stage, stopped>>
vars     == <<counters, table, active, queued, pc, gone, deletes, control>>
-----------------------------------------------------------------------------
Issued(id) ==
    IF id.kind = "s" THEN id.n <= session_counter[id.shard]
                     ELSE id.n <= next_counter[id.shard]

Tracked(sh, ip) == {id \in Ids : session_to_ip[sh][id] = ip}

InDispatch == {"dispatching", "asking"}
Streaming == {"opening", "waiting", "ready", "broken", "writing"}

\* A connection is being served for the session.
Served(id, r) == pc[id][r] \in InDispatch \cup Streaming

\* Somebody has sent GET /mcp for the session: its queue may have two readers.
Reconnected(id) == pc[id]["reconnect"] # "none"

Init ==
    /\ session_counter = [sh \in Shards |-> 0]
    /\ next_counter = [sh \in Shards |-> 0]
    /\ sessions = [sh \in Shards |-> {}]
    /\ session_to_ip = [sh \in Shards |-> [id \in Ids |-> NoIp]]
    /\ ip_conn_count = [sh \in Shards |-> [ip \in Ips |-> 0]]
    /\ active = {}
    /\ queued = [id \in Ids |-> 0]
    /\ pc = [id \in Ids |-> [r \in Roles |-> "none"]]
    /\ gone = {}
    /\ deletes = {}
    /\ stage = "running"
    /\ stopped = {}

-----------------------------------------------------------------------------
(* The session table of a shard. *)

\* Mutant: the number of open sessions instead of a counter of its own.
SessionIdByCount(sh) ==
    [kind |-> "s", shard |-> sh, n |-> Cardinality(sessions[sh]) + 1]

\* The next id of create_session, and the next one of POST /mcp.
SessionId(sh) == [kind |-> "s", shard |-> sh, n |-> session_counter[sh] + 1]
StreamableId(sh) == [kind |-> "sm", shard |-> sh, n |-> next_counter[sh] + 1]

\* Mutant: the total limit admits one session too many.
WithinLimitsOffByOne(sh, ip) ==
    LimitEnabled => /\ Cardinality(sessions[sh]) <= MaxTotal
                    /\ ip # NoIp => ip_conn_count[sh][ip] < MaxPerIp

\* create_session's two tests.
WithinLimits(sh, ip) ==
    LimitEnabled => /\ Cardinality(sessions[sh]) < MaxTotal
                    /\ ip # NoIp => ip_conn_count[sh][ip] < MaxPerIp

TrackIpConn(sh, id, ip) ==
    IF ip = NoIp
    THEN UNCHANGED <<session_to_ip, ip_conn_count>>
    ELSE /\ session_to_ip' = [session_to_ip EXCEPT ![sh][id] = ip]
         /\ ip_conn_count' = [ip_conn_count EXCEPT ![sh][ip] = @ + 1]

\* A fresh SseSession under id: empty queue, active.
AddSession(sh, id, ip) ==
    /\ sessions' = [sessions EXCEPT ![sh] = @ \cup {id}]
    /\ active' = active \cup {id}
    /\ queued' = [queued EXCEPT ![id] = 0]
    /\ TrackIpConn(sh, id, ip)

\* Mutant: the slot of the connection limit is not released.
RemoveSessionKeepsSlot(sh, id) ==
    /\ sessions' = [sessions EXCEPT ![sh] = @ \ {id}]
    /\ UNCHANGED <<session_to_ip, ip_conn_count>>

RemoveSession(sh, id) ==
    /\ sessions' = [sessions EXCEPT ![sh] = @ \ {id}]
    /\ session_to_ip' = [session_to_ip EXCEPT ![sh][id] = NoIp]
    /\ ip_conn_count' =
         [ip_conn_count EXCEPT ![sh] =
            [ip \in Ips |-> IF ip = session_to_ip[sh][id] /\ @[ip] > 0
                            THEN @[ip] - 1 ELSE @[ip]]]

\* Mutant: a push does not wait for room.
PushOntoFull(ids) ==
    /\ queued' = [id \in Ids |-> IF id \in ids THEN queued[id] + 1 ELSE queued[id]]
    /\ pc' = [id \in Ids |-> [r \in Roles |->
                IF id \in ids /\ pc[id][r] = "waiting" THEN "ready" ELSE pc[id][r]]]

\* push_eventually: one more message, and the registered waiter is woken.
\* A push to a full queue waits for room; the bound stands for both.
PushOnto(ids) ==
    /\ queued' = [id \in Ids |-> IF id \in ids /\ queued[id] < MaxQueued
                                 THEN queued[id] + 1 ELSE queued[id]]
    /\ pc' = [id \in Ids |-> [r \in Roles |->
                IF id \in ids /\ pc[id][r] = "waiting" THEN "ready" ELSE pc[id][r]]]

-----------------------------------------------------------------------------
(* Requests that open a stream.  A request that check_request rejects, or   *)
(* that finds the limit reached or no session, leaves this state alone.     *)

SseAccepts == stage = "running"

\* Mutant: stop leaves the listener of the second transport open.
StreamableAcceptsAlways == TRUE

StreamableAccepts == stage \in {"running", "stop_sse"}

HandleSse(sh, ip) ==
    /\ "GET /sse" \in Requests
    /\ SseAccepts
    /\ session_counter[sh] + next_counter[sh] < MaxSessions
    /\ WithinLimits(sh, ip)
    /\ session_counter' = [session_counter EXCEPT ![sh] = @ + 1]
    /\ AddSession(sh, SessionId(sh), ip)
    /\ pc' = [pc EXCEPT ![SessionId(sh)]["creator"] = "opening"]
    /\ UNCHANGED <<next_counter, gone, deletes, control>>

\* POST /mcp without a session id that accepts text/event-stream, up to the
\* suspension in dispatch.
HandlePost(sh, ip) ==
    /\ Requests \cap {"POST /mcp", "malformed POST /mcp"} # {}
    /\ StreamableAccepts
    /\ session_counter[sh] + next_counter[sh] < MaxSessions
    /\ next_counter' = [next_counter EXCEPT ![sh] = @ + 1]
    /\ AddSession(sh, StreamableId(sh), ip)
    /\ pc' = [pc EXCEPT ![StreamableId(sh)]["creator"] = "dispatching"]
    /\ UNCHANGED <<session_counter, gone, deletes, control>>

\* The handler sends a client a request of its own and awaits the answer
\* (send_request_to_client).  Further calls of one handler are one wait.
DispatchAsks(id) ==
    /\ pc[id]["creator"] = "dispatching"
    /\ "POST /mcp" \in Requests
    /\ pc' = [pc EXCEPT ![id]["creator"] = "asking"]
    /\ UNCHANGED <<counters, table, active, queued, gone, deletes, control>>

\* Mutant: the request of a session closed meanwhile is forgotten.
DispatchReturnsIfActive(id) ==
    /\ pc[id]["creator"] \in InDispatch
    /\ "POST /mcp" \in Requests
    /\ id \in active
    /\ \E answered \in BOOLEAN :
         /\ queued' = [queued EXCEPT ![id] = IF answered /\ @ < MaxQueued THEN @ + 1 ELSE @]
         /\ pc' = [pc EXCEPT ![id]["creator"] = "opening"]
    /\ UNCHANGED <<counters, table, active, gone, deletes, control>>

\* dispatch answers, with a response (pushed to the session object held by
\* the handler, whether or not it is still active) or without one.  A handler
\* that was asking has its client's answer, or has given up.
DispatchReturns(id) ==
    /\ pc[id]["creator"] \in InDispatch
    /\ "POST /mcp" \in Requests
    /\ \E answered \in BOOLEAN :
         /\ queued' = [queued EXCEPT ![id] = IF answered /\ @ < MaxQueued THEN @ + 1 ELSE @]
         /\ pc' = [pc EXCEPT ![id] =
                     [creator   |-> "opening",
                      reconnect |-> IF answered /\ @["reconnect"] = "waiting"
                                    THEN "ready" ELSE @["reconnect"]]]
    /\ UNCHANGED <<counters, table, active, gone, deletes, control>>

\* The body is JSON but no request object (a number, or a "method" that is no
\* string), or a batch with such an element: the type error leaves the
\* dispatcher and the handler.
DispatchThrows(id) ==
    /\ pc[id]["creator"] \in InDispatch
    /\ "malformed POST /mcp" \in Requests
    /\ pc' = [pc EXCEPT ![id]["creator"] = "lost"]
    /\ gone' = gone \ {<<id, "creator">>}
    /\ UNCHANGED <<counters, table, active, queued, deletes, control>>

\* GET /mcp is answered by the shard that holds the session, 404 elsewhere.
HandleGet(id) ==
    /\ "GET /mcp" \in Requests
    /\ StreamableAccepts
    /\ id \in sessions[id.shard]
    /\ ~Reconnected(id)
    /\ Cardinality({other \in Ids : Reconnected(other)}) < MaxReconnects
    /\ pc' = [pc EXCEPT ![id]["reconnect"] = "opening"]
    /\ UNCHANGED <<counters, table, active, queued, gone, deletes, control>>

-----------------------------------------------------------------------------
(* The body writer of a stream. *)

\* GET /sse sends the endpoint event before its loop.
Writes(id, r) ==
    \/ pc[id][r] = "writing"
    \/ pc[id][r] = "opening" /\ r = "creator" /\ id.kind = "s"

\* Nothing to write, or the write succeeded, which it may even if the client
\* has closed the connection.
AtLoopTop(id, r) == pc[id][r] \in {"opening", "writing"}

\* Mutant: the body writer returns without remove_session.
LeaveLoopKeepsSession(id, r) ==
    /\ pc' = [pc EXCEPT ![id][r] = "done"]
    /\ gone' = gone \ {<<id, r>>}
    /\ UNCHANGED table

\* What follows the loop, in the same stretch of code.
LeaveLoop(id, r) ==
    /\ pc' = [pc EXCEPT ![id][r] = "done"]
    /\ gone' = gone \ {<<id, r>>}
    /\ RemoveSession(id.shard, id)

StreamTakes(id, r) ==
    /\ AtLoopTop(id, r)
    /\ id \in active
    /\ queued[id] > 0
    /\ queued' = [queued EXCEPT ![id] = @ - 1]
    /\ pc' = [pc EXCEPT ![id][r] = "writing"]
    /\ UNCHANGED <<counters, table, active, gone, deletes, control>>

\* Mutant: the stream ends when its queue is drained.
StreamStopsWhenDrained(id, r) ==
    /\ AtLoopTop(id, r)
    /\ id \in active
    /\ queued[id] = 0
    /\ active' = active \ {id}
    /\ LeaveLoop(id, r)
    /\ UNCHANGED <<counters, queued, deletes, control>>

\* seastar::queue keeps one promise for its one consumer: the new waiter's
\* promise replaces the other's, which is thereby broken.
StreamWaits(id, r) ==
    /\ AtLoopTop(id, r)
    /\ id \in active
    /\ queued[id] = 0
    /\ pc' = [pc EXCEPT ![id] =
                [q \in Roles |-> IF q = r THEN "waiting"
                                 ELSE IF @[q] = "waiting" THEN "broken" ELSE @[q]]]
    /\ UNCHANGED <<counters, table, active, queued, gone, deletes, control>>

StreamFindsClosed(id, r) ==
    /\ AtLoopTop(id, r)
    /\ id \notin active
    /\ LeaveLoop(id, r)
    /\ UNCHANGED <<counters, active, queued, deletes, control>>

\* The wake-up runs and pops.  If the other stream took the message in
\* between, the pop reads an empty queue: any value, "" included.
StreamResumes(id, r) ==
    /\ pc[id][r] = "ready"
    /\ queued' = [queued EXCEPT ![id] = IF @ > 0 THEN @ - 1 ELSE 0]
    /\ \/ /\ id \in active
          /\ pc' = [pc EXCEPT ![id][r] = "writing"]
          /\ UNCHANGED <<table, gone>>
       \/ /\ id \notin active \/ queued[id] = 0
          /\ LeaveLoop(id, r)
    /\ UNCHANGED <<counters, active, deletes, control>>

\* Mutant: a failed write is caught inside the loop, which goes on.
StreamFailsAndGoesOn(id, r) ==
    /\ Writes(id, r)
    /\ <<id, r>> \in gone
    /\ pc' = [pc EXCEPT ![id][r] = "opening"]
    /\ UNCHANGED <<counters, table, active, queued, gone, deletes, control>>

\* The catch clause: a write that fails, at the first or a later write after
\* the connection was closed, or a broken promise.
StreamFails(id, r) ==
    /\ \/ Writes(id, r) /\ <<id, r>> \in gone
       \/ pc[id][r] = "broken"
    /\ active' = active \ {id}
    /\ LeaveLoop(id, r)
    /\ UNCHANGED <<counters, queued, deletes, control>>

StreamStep(id, r) ==
    \/ StreamTakes(id, r) \/ StreamWaits(id, r) \/ StreamFindsClosed(id, r)
    \/ StreamResumes(id, r) \/ StreamFails(id, r)

-----------------------------------------------------------------------------
(* Messages for a session, its deletion, and its client. *)

\* push_to_session, broadcast_notification and notify_resource_updated: one
\* message to some or all of the active sessions in a shard's table.
PushToSessions(sh, ids) ==
    /\ ids \subseteq sessions[sh] \cap active
    /\ PushOnto(ids)
    /\ UNCHANGED <<counters, table, active, gone, deletes, control>>

\* Mutant: DELETE removes the session and pushes "", but leaves it active.
CloseSessionKeepsActive(id) ==
    /\ IF id \in sessions[id.shard]
       THEN UNCHANGED active /\ PushOnto({id})
       ELSE UNCHANGED <<active, queued, pc>>
    /\ RemoveSession(id.shard, id)

\* Mutant: DELETE does not wake the reader.
CloseSessionNoPush(id) ==
    /\ active' = IF id \in sessions[id.shard] THEN active \ {id} ELSE active
    /\ UNCHANGED <<queued, pc>>
    /\ RemoveSession(id.shard, id)

\* DELETE /mcp on the session's shard.
CloseSession(id) ==
    /\ IF id \in sessions[id.shard]
       THEN active' = active \ {id} /\ PushOnto({id})
       ELSE UNCHANGED <<active, queued, pc>>
    /\ RemoveSession(id.shard, id)

\* DELETE /mcp received by shard sh.
HandleDelete(sh, id) ==
    /\ "DELETE /mcp" \in Requests
    /\ StreamableAccepts
    /\ Issued(id)
    /\ IF sh = id.shard
       THEN CloseSession(id) /\ UNCHANGED deletes
       ELSE /\ deletes' = deletes \cup {id}
            /\ UNCHANGED <<table, active, queued, pc>>
    /\ UNCHANGED <<counters, gone, control>>

DeleteArrives(id) ==
    /\ id \in deletes
    /\ deletes' = deletes \ {id}
    /\ CloseSession(id)
    /\ UNCHANGED <<counters, gone, control>>

Disconnect(id, r) ==
    /\ Served(id, r)
    /\ <<id, r>> \notin gone
    /\ gone' = gone \cup {<<id, r>>}
    /\ UNCHANGED <<counters, table, active, queued, pc, deletes, control>>

-----------------------------------------------------------------------------
(* McpServer::stop: each transport's http_server::stop shuts its connections *)
(* down and waits for them, one transport after the other; then the shards.  *)

SseStreams == {id \in Ids : id.kind = "s"} \X {"creator"}
StreamableStreams == (Ids \X Roles) \ SseStreams

BeginStop ==
    /\ "stop" \in Requests
    /\ stage = "running"
    /\ stage' = "stop_sse"
    /\ gone' = gone \cup {s \in SseStreams : Served(s[1], s[2])}
    /\ UNCHANGED <<counters, table, active, queued, pc, deletes, stopped>>

SseStopped ==
    /\ stage = "stop_sse"
    /\ \A s \in SseStreams : ~Served(s[1], s[2])
    /\ stage' = "stop_streamable"
    /\ gone' = gone \cup {s \in StreamableStreams : Served(s[1], s[2])}
    /\ UNCHANGED <<counters, table, active, queued, pc, deletes, stopped>>

StreamableStopped ==
    /\ stage = "stop_streamable"
    /\ \A s \in StreamableStreams : ~Served(s[1], s[2])
    /\ stage' = "stop_shards"
    /\ UNCHANGED <<counters, table, active, queued, pc, gone, deletes, stopped>>

\* McpShard::stop; the connection counts keep what they hold.  It also ends the
\* waits of handlers for clients (ClientRpc), of which none is left by now.
ShardStop(sh) ==
    /\ stage = "stop_shards"
    /\ sh \notin stopped
    /\ active' = active \ sessions[sh]
    /\ PushOnto(sessions[sh])
    /\ sessions' = [sessions EXCEPT ![sh] = {}]
    /\ stopped' = stopped \cup {sh}
    /\ UNCHANGED <<counters, session_to_ip, ip_conn_count, gone, deletes, stage>>

-----------------------------------------------------------------------------
Next ==
    \/ \E sh \in Shards, ip \in Ips \cup {NoIp} : HandleSse(sh, ip) \/ HandlePost(sh, ip)
    \/ \E id \in Ids : \/ DispatchAsks(id) \/ DispatchReturns(id) \/ DispatchThrows(id)
                       \/ HandleGet(id) \/ DeleteArrives(id)
    \/ \E id \in Ids, r \in Roles : StreamStep(id, r) \/ Disconnect(id, r)
    \/ \E sh \in Shards, id \in Ids : HandleDelete(sh, id)
    \/ BeginStop \/ SseStopped \/ StreamableStopped
    \/ \E sh \in Shards : ShardStop(sh) \/ \E ids \in SUBSET sessions[sh] : PushToSessions(sh, ids)

Spec == Init /\ [][Next]_vars

\* A handler that awaits no client goes on, and returns.
HandlerReturns(id) ==
    pc[id]["creator"] = "dispatching" /\ (DispatchReturns(id) \/ DispatchThrows(id))

\* The reactor runs every scheduled continuation, a write ends, a message
\* between shards arrives, and a request's handler returns unless it awaits a
\* client, which need not answer.  Of the writes to closed connections not all
\* succeed for ever.  Nothing makes a client send, disconnect or be deleted, or
\* the server stop.
Fairness ==
    /\ \A id \in Ids, r \in Roles : WF_vars(StreamStep(id, r))
    /\ SF_vars(\E id \in Ids, r \in Roles : StreamFails(id, r))
    /\ \A id \in Ids : WF_vars(HandlerReturns(id)) /\ WF_vars(DeleteArrives(id))
    /\ WF_vars(SseStopped)
    /\ WF_vars(StreamableStopped)
    /\ \A sh \in Shards : WF_vars(ShardStop(sh))

FairSpec == Spec /\ Fairness
-----------------------------------------------------------------------------
(* Properties. *)

TypeOK ==
    /\ session_counter \in [Shards -> 0..MaxSessions]
    /\ next_counter \in [Shards -> 0..MaxSessions]
    /\ sessions \in [Shards -> SUBSET Ids]
    /\ session_to_ip \in [Shards -> [Ids -> Ips \cup {NoIp}]]
    /\ ip_conn_count \in [Shards -> [Ips -> Nat]]
    /\ active \subseteq Ids
    /\ queued \in [Ids -> 0..MaxQueued]
    /\ pc \in [Ids -> [Roles -> Pcs]]
    /\ gone \subseteq Ids \X Roles
    /\ deletes \subseteq Ids
    /\ stage \in Stages
    /\ stopped \subseteq Shards

\* The count of an address is exactly the number of sessions recorded for it,
\* through every order of creation, DELETE, reader exit and disconnection:
\* a session closed twice (DELETE, then its reader's exit) is released once,
\* and no id is tracked twice.  _track_ip_conn and remove_session.
ConnCountExact ==
    \A sh \in Shards, ip \in Ips :
        ip_conn_count[sh][ip] = Cardinality(Tracked(sh, ip))

\* Every address recorded belongs to a session that is still in the table of
\* a running shard: nothing holds a slot of the limit after its session is
\* gone.  remove_session drops both together.
TrackedAreOpen ==
    \A sh \in Shards \ stopped, ip \in Ips : Tracked(sh, ip) \subseteq sessions[sh]

\* What the connection limit is decided by is what it means: on a running shard
\* the count of an address is the number of its open sessions that were counted.
ConnSlotsExact == ConnCountExact /\ TrackedAreOpen

OpenedByGet(ids) == {id \in ids : id.kind = "s"}

\* However streams end and whatever POST /mcp adds, GET /sse never holds more
\* streams for one address than max_per_ip, nor more in all than max_total, on
\* one shard.  create_session.
SseWithinLimits ==
    LimitEnabled =>
      \A sh \in Shards :
        /\ \A ip \in Ips : Cardinality(OpenedByGet(Tracked(sh, ip))) <= MaxPerIp
        /\ Cardinality(OpenedByGet(sessions[sh])) <= MaxTotal

\* A session object that is active is in the table of its shard, where
\* pushes, DELETE and stop find it: no path drops a live session, except that
\* one of two readers of a queue that GET /mcp made may.
ActiveInTable ==
    \A id \in active : Reconnected(id) \/ id \in sessions[id.shard]

\* An id that a session has held is never given to another one, so a late
\* push, DELETE or reader exit cannot hit a stranger's session.
NoIdReuse ==
    [][\A id \in active' \ active : ~Issued(id)]_vars

\* A session in the table is served by a request or a stream, which will
\* remove it, unless an exception of dispatch (a body that is no request) left
\* it without its creator's: then only a DELETE or the stop removes it.
SessionsAreServed ==
    \A sh \in Shards : \A id \in sessions[sh] :
        (\E r \in Roles : Served(id, r)) \/ pc[id]["creator"] = "lost"

\* Session id leaves shard sh's table for a reason of its own: it is deleted,
\* a connection of it is closed, or the shard stops.
EndsForAReason(sh, id) ==
    \/ \E r \in Roles : <<id, r>> \in gone
    \/ DeleteArrives(id) \/ HandleDelete(sh, id)
    \/ ShardStop(sh)

\* docs/transports.md, GET /mcp: the client reconnects to the session's stream
\* and receives its queue again.  So a live session leaves the table only when
\* it is deleted, a connection of it is closed, or its shard stops.  In the
\* code the second reader breaks the first one's wait, which ends the session.
OnlyClosedSessionsEnd ==
    [][\A sh \in Shards : \A id \in (sessions[sh] \ sessions'[sh]) \cap active :
         EndsForAReason(sh, id)]_vars

\* What a GET /mcp does to a session happens to that session only: a live
\* session nobody reconnected to ends for a reason of its own, whatever its
\* stream finds in the queue and whoever else deletes, leaves or reconnects.
UnreconnectedSessionsLast ==
    [][\A sh \in Shards : \A id \in (sessions[sh] \ sessions'[sh]) \cap active :
         Reconnected(id) \/ EndsForAReason(sh, id)]_vars

\* No wake-up is lost: a stream that waits for a message belongs to a live
\* session with an empty queue, whatever was pushed, deleted or stopped between
\* its look at the queue and its suspension, as long as the queue has one
\* reader.  push_eventually and McpShard::stop.
NobodySleepsThrough ==
    \A id \in Ids, r \in Roles :
        pc[id][r] = "waiting" /\ ~Reconnected(id) => id \in active /\ queued[id] = 0

\* Whoever waits for a message can be woken: it has not missed one, its session
\* is live, and a live session is where a push, DELETE or stop looks for it.
SleepersReachable == NobodySleepsThrough /\ ActiveInTable

\* When McpServer::stop comes to the shards, no stream and no request that opens
\* one is left, and none opens a session on a shard that has been stopped.  (A
\* DELETE sent to another shard in the background may still arrive there.)
StopLeavesNothing ==
    /\ stage = "stop_shards" => \A id \in Ids, r \in Roles : ~Served(id, r)
    /\ \A sh \in stopped : sessions[sh] = {}

\* The streams of a session that was closed end: the message pushed by DELETE
\* wakes the waiting reader.  A handler that awaits its client keeps its
\* connection until it is answered.
ClosedStreamsEnd ==
    \A id \in Ids :
        Issued(id) /\ id \notin active ~>
            \A r \in Roles : ~Served(id, r) \/ pc[id][r] = "asking"

\* Of the connections modelled, McpServer::stop hangs only on a stream that
\* waits for a message or a handler that awaits its client's answer: a stop that
\* does not complete has one from some time on.  No other request in dispatch,
\* no write, DELETE between shards or connection opened meanwhile holds it up.
\* (Both exceptions are real: what ends those waits is McpShard::stop, in the
\* stage they keep the stop from reaching.)
StopHangsOnlyOnClients ==
    <>[](stage # "running" /\ stopped # Shards) =>
        <>[](\E id \in Ids, r \in Roles : pc[id][r] \in {"waiting", "asking"})

\* No stream writes for ever to a client that has left: a reader that waits does
\* not notice, and the first write may succeed, but a session that keeps getting
\* messages ends.  (Without messages it stays, whatever docs/transports.md says.)
DisconnectedStreamsEnd ==
    \A id \in Ids, r \in Roles :
        ~[]<>(<<id, r>> \in gone /\ pc[id][r] \in Streaming /\ queued[id] > 0)
=============================================================================
