--------------------------- MODULE DispatchContext ---------------------------
(***************************************************************************)
(* What the handlers of a shard share: McpShard::dispatch                  *)
(* (include/mcp/server/mcp_shard.hh) leaves the session and the progress   *)
(* token of the request it starts in two fields, which push_progress and   *)
(* subscribe_resource read when they are called, and logging/setLevel      *)
(* (src/mcp/server/mcp_server.cc) leaves a level on every shard.           *)
(*                                                                         *)
(* A shard runs one coroutine until it suspends.  A request is a POST with *)
(* one element or a batch; an element is a call of a tool, of              *)
(* logging/setLevel or of resources/subscribe.  A handler that reads       *)
(* neither the context nor a level is a tool that returns at once.         *)
(* Sessions are open throughout.                                           *)
(***************************************************************************)
EXTENDS Naturals, Sequences

CONSTANTS
    Shards,
    Sessions,   \* the sessions
    Home,       \* the shard of each session
    NoSession,  \* the empty session id
    Tokens,     \* the progress tokens that are strings
    NoToken,    \* no token, or one that is no string
    Levels,     \* the log levels
    Requests,   \* the requests sent (bound)
    Bodies      \* the bodies sent: sequences of elements (bound)

Elements == {"tool", "setLevel", "subscribe"}

\* "asking": the tool awaits the answer of a client it has sent a request;
\* "suspended": it awaits anything else, or its turn; "broadcasting": setLevel
\* awaits the other shards.
Pcs == {"new", "running", "asking", "suspended", "broadcasting", "done"}

ASSUME SessionAssumption == NoSession \notin Sessions /\ Home \in [Sessions -> Shards]
ASSUME TokenAssumption == NoToken \notin Tokens
ASSUME LevelAssumption == Levels # {}
ASSUME BodyAssumption == Bodies \subseteq Seq(Elements) \ {<<>>}

VARIABLES
    current_session_id,     \* McpShard::_current_session_id
    current_progress_token, \* McpShard::_current_progress_token
    client_log_level,       \* McpShard::_client_log_level
    logger_level,           \* the level of the process's loggers
    level_messages,         \* levels on their way to another shard
    pc,                     \* the requests' coroutines
    at,                     \* the shard that serves a request
    client,                 \* the session whose client sent it, or NoSession
    token,                  \* its progress token
    body,                   \* its elements
    next,                   \* the element being handled
    received,               \* (history) progress notifications put in queues
    subscribed,             \* (history) subscriptions made
    overlapped,             \* (history) the requests during which their shard
                            \* started another one
    recent                  \* (history) the levels set since a setLevel began
                            \* while no other was being handled

context == <<current_session_id, current_progress_token>>
levels  == <<client_log_level, logger_level, level_messages, recent>>
request == <<at, client, token, body>>
uses    == <<received, subscribed>>
vars == <<context, levels, pc, request, next, uses, overlapped>>
-----------------------------------------------------------------------------
Uses == [by : Requests, session : Sessions, token : Tokens \cup {NoToken}]
LevelMessages == [by : Requests, to : Shards, level : Levels]

Init ==
    /\ current_session_id = [sh \in Shards |-> NoSession]
    /\ current_progress_token = [sh \in Shards |-> NoToken]
    /\ \E level \in Levels : client_log_level = [sh \in Shards |-> level]
    /\ logger_level \in Levels
    /\ level_messages = {}
    /\ pc = [r \in Requests |-> "new"]
    /\ \E sh \in Shards : at = [r \in Requests |-> sh]
    /\ client = [r \in Requests |-> NoSession]
    /\ token = [r \in Requests |-> NoToken]
    /\ body = [r \in Requests |-> <<>>]
    /\ next = [r \in Requests |-> 1]
    /\ received = {}
    /\ subscribed = {}
    /\ overlapped = {}
    /\ recent = {}

\* No coroutine of the shard is between two suspensions.
Idle(sh) == \A r \in Requests : at[r] = sh => pc[r] # "running"

\* The requests that have begun on a shard and not ended.
Open(sh) == {r \in Requests : at[r] = sh /\ pc[r] \notin {"new", "done"}}

Element(r) == body[r][next[r]]

-----------------------------------------------------------------------------
\* Mutant: the token of the last request is not cleared.
SetContextKeepsToken(sh, sid, tok) ==
    /\ current_session_id' = [current_session_id EXCEPT ![sh] = sid]
    /\ current_progress_token' =
         [current_progress_token EXCEPT ![sh] = IF tok = NoToken THEN @ ELSE tok]

SetContext(sh, sid, tok) ==
    /\ current_session_id' = [current_session_id EXCEPT ![sh] = sid]
    /\ current_progress_token' = [current_progress_token EXCEPT ![sh] = tok]

\* dispatch of a request, up to the first handler.  An array has no "params":
\* the requests of a batch have no token.
Dispatch(r, sh, sid, tok, b) ==
    /\ pc[r] = "new"
    /\ Idle(sh)
    /\ Len(b) > 1 => tok = NoToken
    /\ SetContext(sh, sid, tok)
    /\ pc' = [pc EXCEPT ![r] = "running"]
    /\ at' = [at EXCEPT ![r] = sh]
    /\ client' = [client EXCEPT ![r] = sid]
    /\ token' = [token EXCEPT ![r] = tok]
    /\ body' = [body EXCEPT ![r] = b]
    /\ overlapped' = overlapped \cup Open(sh)
    /\ UNCHANGED <<levels, next, uses>>

\* Mutant: dispatch sets the context before it looks for a client's answer.
DispatchAnswerSetsContext(r) ==
    /\ pc[r] = "asking"
    /\ Idle(at[r])
    /\ pc' = [pc EXCEPT ![r] = "suspended"]
    /\ \E sid \in Sessions : SetContext(at[r], sid, NoToken)
    /\ UNCHANGED <<levels, request, next, uses, overlapped>>

\* dispatch of a client's answer: it resolves the promise the tool waits for
\* and returns, leaving the context alone.
DispatchAnswer(r) ==
    /\ pc[r] = "asking"
    /\ Idle(at[r])
    /\ pc' = [pc EXCEPT ![r] = "suspended"]
    /\ UNCHANGED <<context, levels, request, next, uses, overlapped>>

\* handle_request goes on to the next element, at once or (its time slice is
\* over) after a turn of other coroutines; or the request ends.
ElementEnds(r) ==
    \/ /\ next[r] < Len(body[r])
       /\ next' = [next EXCEPT ![r] = @ + 1]
       /\ \E p \in {"running", "suspended"} : pc' = [pc EXCEPT ![r] = p]
    \/ /\ next[r] = Len(body[r])
       /\ pc' = [pc EXCEPT ![r] = "done"]
       /\ UNCHANGED next

Resumes(r) ==
    /\ pc[r] = "suspended"
    /\ Idle(at[r])
    /\ pc' = [pc EXCEPT ![r] = "running"]
    /\ UNCHANGED <<context, levels, request, next, uses, overlapped>>

-----------------------------------------------------------------------------
(* tools/call: what a tool may do while it runs. *)

Runs(r, element) == pc[r] = "running" /\ Element(r) = element

\* push_progress: to the session the context names, if this shard holds it.
PushProgress(r) ==
    LET sid == current_session_id[at[r]]
        tok == current_progress_token[at[r]]
    IN  /\ Runs(r, "tool")
        /\ sid # NoSession /\ tok # NoToken
        /\ Home[sid] = at[r]
        /\ received' = received \cup {[by |-> r, session |-> sid, token |-> tok]}
        /\ UNCHANGED <<context, levels, pc, request, next, subscribed, overlapped>>

ToolSuspends(r) ==
    /\ Runs(r, "tool")
    /\ \E wait \in {"asking", "suspended"} : pc' = [pc EXCEPT ![r] = wait]
    /\ UNCHANGED <<context, levels, request, next, uses, overlapped>>

\* The tool returns or throws, or there is none of that name.
CallToolEnds(r) ==
    /\ Runs(r, "tool")
    /\ ElementEnds(r)
    /\ UNCHANGED <<context, levels, request, uses, overlapped>>

\* Mutant: the test for an empty session id is missing.
HandleSubscribeUntested(r) ==
    /\ Runs(r, "subscribe")
    /\ subscribed' = subscribed \cup
         {[by |-> r, session |-> current_session_id[at[r]], token |-> token[r]]}
    /\ ElementEnds(r)
    /\ UNCHANGED <<context, levels, request, received, overlapped>>

\* resources/subscribe; without a session it does nothing.
HandleSubscribe(r) ==
    LET sid == current_session_id[at[r]]
    IN  /\ Runs(r, "subscribe")
        /\ subscribed' = IF sid = NoSession THEN subscribed
                         ELSE subscribed \cup {[by |-> r, session |-> sid, token |-> token[r]]}
        /\ ElementEnds(r)
        /\ UNCHANGED <<context, levels, request, received, overlapped>>

-----------------------------------------------------------------------------
(* logging/setLevel. *)

\* The loggers of the process and this shard at once, the others by messages,
\* which the handler awaits.
SetLevel(r, level) ==
    /\ Runs(r, "setLevel")
    /\ logger_level' = level
    /\ client_log_level' = [client_log_level EXCEPT ![at[r]] = level]
    /\ level_messages' = level_messages \cup
         {[by |-> r, to |-> sh, level |-> level] : sh \in Shards \ {at[r]}}
    /\ recent' = {level} \cup
         (IF \E q \in Requests : pc[q] = "broadcasting" THEN recent ELSE {})
    /\ pc' = [pc EXCEPT ![r] = "broadcasting"]
    /\ UNCHANGED <<context, request, next, uses, overlapped>>

SetClientLogLevel(m) ==
    /\ m \in level_messages
    /\ Idle(m.to)
    /\ client_log_level' = [client_log_level EXCEPT ![m.to] = m.level]
    /\ level_messages' = level_messages \ {m}
    /\ UNCHANGED <<context, logger_level, recent, pc, request, next, uses, overlapped>>

\* Mutant: the broadcast is not awaited.
SetLevelDoesNotWait(r) ==
    /\ pc[r] = "broadcasting"
    /\ Idle(at[r])
    /\ ElementEnds(r)
    /\ UNCHANGED <<context, levels, request, uses, overlapped>>

SetLevelReturns(r) ==
    /\ pc[r] = "broadcasting"
    /\ \A m \in level_messages : m.by # r
    /\ Idle(at[r])
    /\ ElementEnds(r)
    /\ UNCHANGED <<context, levels, request, uses, overlapped>>

-----------------------------------------------------------------------------
Next ==
    \/ \E r \in Requests, sh \in Shards, sid \in Sessions \cup {NoSession},
          tok \in Tokens \cup {NoToken}, b \in Bodies : Dispatch(r, sh, sid, tok, b)
    \/ \E r \in Requests :
          \/ DispatchAnswer(r) \/ PushProgress(r) \/ ToolSuspends(r) \/ Resumes(r)
          \/ CallToolEnds(r) \/ HandleSubscribe(r) \/ SetLevelReturns(r)
          \/ \E level \in Levels : SetLevel(r, level)
    \/ \E m \in level_messages : SetClientLogLevel(m)

Spec == Init /\ [][Next]_vars
-----------------------------------------------------------------------------
(* Properties. *)

TypeOK ==
    /\ current_session_id \in [Shards -> Sessions \cup {NoSession}]
    /\ current_progress_token \in [Shards -> Tokens \cup {NoToken}]
    /\ client_log_level \in [Shards -> Levels]
    /\ logger_level \in Levels
    /\ level_messages \subseteq LevelMessages
    /\ pc \in [Requests -> Pcs]
    /\ at \in [Requests -> Shards]
    /\ client \in [Requests -> Sessions \cup {NoSession}]
    /\ token \in [Requests -> Tokens \cup {NoToken}]
    /\ body \in [Requests -> Seq(Elements)]
    /\ next \in [Requests -> Nat \ {0}]
    /\ received \subseteq Uses
    /\ subscribed \subseteq Uses
    /\ overlapped \subseteq Requests
    /\ recent \subseteq Levels

\* Whatever progress notification a session receives, and whichever request's
\* tool pushed it, its token is one that the session's own client has sent: a
\* session and a token of different requests are never paired.  dispatch and
\* push_progress.
TokensAreOwn ==
    \A u \in received :
        \E q \in Requests : pc[q] # "new" /\ client[q] = u.session /\ token[q] = u.token

\* A request during which its shard starts no other uses its own session and
\* token, however often its handlers suspend, and even if it asks a client and
\* the answer is dispatched on the same shard.  dispatch.
UndisturbedUseOwn ==
    \A u \in received \cup subscribed :
        u.by \notin overlapped => u.session = client[u.by] /\ u.token = token[u.by]

\* Once no logging/setLevel is being handled, every shard and the loggers have
\* a level that one of the last ones has set: none was answered before all
\* shards had its level, and none brings an older level back.  Calls that do not
\* overlap leave everything at one level; overlapping ones may leave each shard
\* with another of theirs.  (Before the first call, each shard has the initial
\* level of the code and the loggers theirs.)
LevelsSettle ==
    recent # {} /\ (\A r \in Requests : pc[r] # "broadcasting") =>
        /\ logger_level \in recent
        /\ \A sh \in Shards : client_log_level[sh] \in recent

\* _current_session_id is the session of the request being handled
\* (docs/architecture.md, the fields of McpShard): what a tool pushes goes to
\* the client of its own request.
ProgressReachesItsClient ==
    \A u \in received : u.session = client[u.by] /\ u.token = token[u.by]
=============================================================================
