------------------------ MODULE ResourceSubscriptions ------------------------
(***************************************************************************)
(* resources/subscribe, resources/unsubscribe and                          *)
(* broadcast_resource_updated on top of the sessions of ShardSessions: the *)
(* table _subscriptions of every McpShard and the field                    *)
(* _current_session_id, through which dispatch tells a handler whose       *)
(* request it serves (include/mcp/server/mcp_shard.hh).                    *)
(*                                                                         *)
(* The sessions take the steps of ShardSessions!Next; a step that opens or *)
(* ends a session does here what its code does to the two variables.  A    *)
(* request is served by the shard its connection landed on, which need not *)
(* be its session's, and its session may have ended.  A request that is a  *)
(* batch goes on after an element that awaits something, with whatever     *)
(* _current_session_id holds by then.                                      *)
(***************************************************************************)
EXTENDS ShardSessions

CONSTANT Uris  \* the resources clients subscribe to

VARIABLES
    subscriptions,      \* McpShard::_subscriptions, as pairs of uri and session
    current_session_id, \* McpShard::_current_session_id
    suspended           \* of every batch that awaits an element: the next one

context == <<subscriptions, current_session_id, suspended>>
subVars == <<vars, context>>
-----------------------------------------------------------------------------
\* The empty session id.
NoSession == [kind |-> "", shard |-> "", n |-> 0]

SubInit ==
    /\ Init
    /\ subscriptions = [sh \in Shards |-> {}]
    /\ current_session_id = [sh \in Shards |-> NoSession]
    /\ suspended = {}

\* The sessions a request can name: those issued so far, or none.  A made-up
\* id has the effect of one that has ended.
Named == {id \in Ids : Issued(id)} \cup {NoSession}

\* An element of a batch served by shard "at"; the request "opens" a session,
\* or none.
Elements == [at : Shards, opens : Ids \cup {NoSession},
             op : {"subscribe", "unsubscribe"}, uri : Uris]

\* What a batch has left behind an element that awaits something: nothing that
\* concerns subscriptions, or an element that does.
Rests(sh, opens) ==
    {{}} \cup {{e} : e \in {f \in Elements : f.at = sh /\ f.opens = opens}}

\* The entries of session sid; a request without a session has none.
Own(sid, uris) == IF sid = NoSession THEN {} ELSE uris \X {sid}

\* dispatch: the context of the request about to be handled.
DispatchFor(sh, sid) == [current_session_id EXCEPT ![sh] = sid]

\* subscribe_resource and unsubscribe_resource, for the session sid that the
\* context names.
SubscribeResource(sh, sid, uris) ==
    [subscriptions EXCEPT ![sh] = @ \cup Own(sid, uris)]

UnsubscribeResource(sh, sid, uri) ==
    [subscriptions EXCEPT ![sh] = @ \ Own(sid, {uri})]

CleanupSubscriptions(ids) ==
    [sh \in Shards |-> {s \in subscriptions[sh] : s[2] \notin ids \/ s[2].shard # sh}]

-----------------------------------------------------------------------------
\* A handler runs in the same stretch of code as dispatch, up to its first
\* suspension: there it has the context of its own request.
HandleSubscribe(sh, sid, uri) ==
    /\ StreamableAccepts
    /\ current_session_id' = DispatchFor(sh, sid)
    /\ subscriptions' = SubscribeResource(sh, current_session_id'[sh], {uri})
    /\ UNCHANGED <<vars, suspended>>

HandleUnsubscribe(sh, sid, uri) ==
    /\ StreamableAccepts
    /\ current_session_id' = DispatchFor(sh, sid)
    /\ subscriptions' = UnsubscribeResource(sh, current_session_id'[sh], uri)
    /\ UNCHANGED <<vars, suspended>>

\* Any other request, or a batch that comes to an element that awaits something.
HandleOther(sh, sid) ==
    /\ StreamableAccepts
    /\ current_session_id' = DispatchFor(sh, sid)
    /\ \E rest \in Rests(sh, NoSession) : suspended' = suspended \cup rest
    /\ UNCHANGED <<vars, subscriptions>>

\* The batch goes on with element e, for the session of whichever request was
\* dispatched last, and comes to its end or to an element that awaits.
BatchGoesOn(e) ==
    /\ e \in suspended
    /\ subscriptions' =
         IF e.op = "subscribe"
         THEN SubscribeResource(e.at, current_session_id[e.at], {e.uri})
         ELSE UnsubscribeResource(e.at, current_session_id[e.at], e.uri)
    /\ \E rest \in Rests(e.at, e.opens) : suspended' = (suspended \ {e}) \cup rest
    /\ UNCHANGED <<vars, current_session_id>>

\* broadcast_resource_updated reaches each shard by a message of its own.
NotifyResourceUpdated(sh, uri) ==
    /\ PushToSessions(sh, {id \in sessions[sh] \cap active : <<uri, id>> \in subscriptions[sh]})
    /\ UNCHANGED context

-----------------------------------------------------------------------------
(* The steps of the sessions. *)

\* The body writers of the creating request clean up; GET /mcp's does not.
Ending == {id \in Ids : /\ pc[id]["creator"] \in Streaming
                        /\ pc'[id]["creator"] = "done"}

\* The POST that creates a session is dispatched with its id; it may be a
\* subscribe call, or a batch.
SessionOpens(sh, ip, uris) ==
    /\ HandlePost(sh, ip)
    /\ current_session_id' = DispatchFor(sh, StreamableId(sh))
    /\ subscriptions' = SubscribeResource(sh, current_session_id'[sh], uris)
    /\ \E rest \in Rests(sh, StreamableId(sh)) : suspended' = suspended \cup rest

\* A dispatch with elements to come does not return, though it may throw, and
\* no transport stops before its requests have ended.
SessionStep ==
    /\ Next
    /\ UNCHANGED next_counter
    /\ suspended # {} => stage' # "stop_shards"
    /\ \A e \in suspended : e.opens # NoSession => pc'[e.opens]["creator"] # "opening"
    /\ suspended' =
         {e \in suspended : e.opens # NoSession => pc'[e.opens]["creator"] # "lost"}
    /\ subscriptions' = CleanupSubscriptions(Ending)
    /\ UNCHANGED current_session_id

SubNext ==
    \/ \E sh \in Shards, sid \in Named, uri \in Uris :
          HandleSubscribe(sh, sid, uri) \/ HandleUnsubscribe(sh, sid, uri)
    \/ \E sh \in Shards, sid \in Named : HandleOther(sh, sid)
    \/ \E e \in suspended : BatchGoesOn(e)
    \/ \E sh \in Shards, uri \in Uris : NotifyResourceUpdated(sh, uri)
    \/ \E sh \in Shards, ip \in Ips \cup {NoIp}, uris \in SUBSET Uris :
          SessionOpens(sh, ip, uris)
    \/ SessionStep

SubSpec == SubInit /\ [][SubNext]_subVars
-----------------------------------------------------------------------------
(* Properties. *)

SubTypeOK ==
    /\ subscriptions \in [Shards -> SUBSET (Uris \X Ids)]
    /\ current_session_id \in [Shards -> Ids \cup {NoSession}]
    /\ suspended \subseteq Elements

\* docs/api/advanced.md: when a session is disconnected all its subscriptions
\* are cleaned up automatically.  The cleanup runs on the session's own shard,
\* the subscription is where the request landed.
EndClearsSubscriptions ==
    [][\A id \in Ending, sh \in Shards, uri \in Uris :
          <<uri, id>> \notin subscriptions'[sh]]_subVars
=============================================================================
