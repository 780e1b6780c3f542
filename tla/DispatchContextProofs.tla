------------------------ MODULE DispatchContextProofs ------------------------
(***************************************************************************)
(* What the shared fields of McpShard still guarantee, for every number of *)
(* shards, sessions and requests and every body.  The inductive invariant  *)
(* has three parts that share nothing but the types: what a session and a  *)
(* token in the context have to do with the requests, who may have made a  *)
(* use, and where a level is while it is broadcast.                        *)
(***************************************************************************)
EXTENDS DispatchContext, TLAPS

\* The context of a shard is empty or that of one request that has begun.
ContextOfOne ==
    \A sh \in Shards :
        \/ current_session_id[sh] = NoSession
        \/ \E q \in Requests : /\ pc[q] # "new"
                               /\ client[q] = current_session_id[sh]
                               /\ token[q] = current_progress_token[sh]

\* A request during which no other has started finds its own context.
UndisturbedContext ==
    \A r \in Requests :
        pc[r] \notin {"new", "done"} /\ r \notin overlapped =>
            /\ current_session_id[at[r]] = client[r]
            /\ current_progress_token[at[r]] = token[r]

UsersHaveBegun == \A u \in received \cup subscribed : pc[u.by] # "new"

\* Every shard has one of the last levels or has a message to come, and all
\* messages carry one of them.
Broadcast ==
    /\ \A m \in level_messages : pc[m.by] = "broadcasting" /\ m.level \in recent
    /\ recent # {} =>
         /\ logger_level \in recent
         /\ \A sh \in Shards : \/ client_log_level[sh] \in recent
                               \/ \E m \in level_messages : m.to = sh

OwnInv == ContextOfOne /\ TokensAreOwn
UseInv == UndisturbedContext /\ UsersHaveBegun /\ UndisturbedUseOwn

-----------------------------------------------------------------------------
(* What all actions but dispatch have in common. *)

\* No request begins, and those that have begun keep what they are.
Continues ==
    /\ UNCHANGED <<context, request, overlapped>>
    /\ \A r \in Requests : pc'[r] = "new" <=> pc[r] = "new"
    /\ \A r \in Requests : pc[r] = "done" => pc'[r] = "done"

\* The end of an element leaves its request running, suspended or done.
LEMMA ElementEndsEffect ==
    ASSUME TypeOK, NEW r \in Requests, ElementEnds(r)
    PROVE  /\ \E p \in {"running", "suspended", "done"} : pc' = [pc EXCEPT ![r] = p]
           /\ next' \in [Requests -> Nat \ {0}]
  <1> next \in [Requests -> Nat \ {0}]
    BY DEF TypeOK
  <1>1. CASE next[r] < Len(body[r])
    BY <1>1 DEF ElementEnds
  <1>2. CASE ~(next[r] < Len(body[r]))
    BY <1>2 DEF ElementEnds
  <1> QED
    BY <1>1, <1>2

\* A step that puts a begun request anywhere but back to the start.
LEMMA Moves ==
    ASSUME TypeOK, NEW r \in Requests, pc[r] \notin {"new", "done"},
           \E p \in Pcs \ {"new"} : pc' = [pc EXCEPT ![r] = p],
           UNCHANGED <<context, request, overlapped>>
    PROVE  Continues
  BY DEF TypeOK, Continues

\* What one of the handlers of a request does.
HandlerStep(r) ==
    \/ DispatchAnswer(r) \/ PushProgress(r) \/ ToolSuspends(r) \/ Resumes(r)
    \/ CallToolEnds(r) \/ HandleSubscribe(r) \/ SetLevelReturns(r)
    \/ \E level \in Levels : SetLevel(r, level)

LEMMA HandlersContinue ==
    ASSUME TypeOK, NEW r \in Requests, HandlerStep(r)
    PROVE  Continues
  <1>1. CASE DispatchAnswer(r) \/ ToolSuspends(r) \/ Resumes(r)
    <2>1. /\ pc[r] \notin {"new", "done"}
          /\ \E p \in Pcs \ {"new"} : pc' = [pc EXCEPT ![r] = p]
          /\ UNCHANGED <<context, request, overlapped>>
      BY <1>1 DEF DispatchAnswer, ToolSuspends, Resumes, Runs, Pcs
    <2> QED
      BY <2>1, Moves
  <1>2. CASE PushProgress(r)
    BY <1>2 DEF PushProgress, Continues
  <1>3. CASE CallToolEnds(r) \/ HandleSubscribe(r) \/ SetLevelReturns(r)
    <2>1. /\ pc[r] \notin {"new", "done"}
          /\ ElementEnds(r)
          /\ UNCHANGED <<context, request, overlapped>>
      BY <1>3 DEF CallToolEnds, HandleSubscribe, SetLevelReturns, Runs
    <2> QED
      BY <2>1, ElementEndsEffect, Moves DEF Pcs
  <1>4. ASSUME NEW level \in Levels, SetLevel(r, level) PROVE Continues
    <2>1. /\ pc[r] \notin {"new", "done"}
          /\ pc' = [pc EXCEPT ![r] = "broadcasting"]
          /\ UNCHANGED <<context, request, overlapped>>
      BY <1>4 DEF SetLevel, Runs
    <2> QED
      BY <2>1, Moves DEF Pcs
  <1> QED
    BY <1>1, <1>2, <1>3, <1>4 DEF HandlerStep

LEMMA MessageContinues ==
    ASSUME NEW m \in level_messages, SetClientLogLevel(m)
    PROVE  Continues /\ UNCHANGED <<pc, received, subscribed>>
  BY DEF SetClientLogLevel, Continues, uses

-----------------------------------------------------------------------------
(* Types. *)

LEMMA TypeStep == TypeOK /\ [Next]_vars => TypeOK'
  <1> SUFFICES ASSUME TypeOK, [Next]_vars PROVE TypeOK'
    OBVIOUS
  <1> USE DEF Pcs, Uses, LevelMessages
  <1>1. ASSUME NEW r \in Requests, NEW sh \in Shards,
               NEW sid \in Sessions \cup {NoSession}, NEW tok \in Tokens \cup {NoToken},
               NEW b \in Bodies, Dispatch(r, sh, sid, tok, b)
        PROVE  TypeOK'
    <2>1. b \in Seq(Elements)
      BY BodyAssumption
    <2> QED
      BY <1>1, <2>1
      DEF TypeOK, Dispatch, SetContext, Open, levels, uses
  <1>2. ASSUME NEW r \in Requests, DispatchAnswer(r) \/ ToolSuspends(r) \/ Resumes(r)
        PROVE  TypeOK'
    BY <1>2 DEF TypeOK, DispatchAnswer, ToolSuspends, Resumes, context, levels, request, uses
  <1>3. ASSUME NEW r \in Requests, PushProgress(r) PROVE TypeOK'
    BY <1>3 DEF TypeOK, PushProgress, context, levels, request
  <1>4. ASSUME NEW r \in Requests, CallToolEnds(r) \/ HandleSubscribe(r) \/ SetLevelReturns(r)
        PROVE  TypeOK'
    <2>1. PICK p \in Pcs : pc' = [pc EXCEPT ![r] = p]
      BY <1>4, ElementEndsEffect DEF CallToolEnds, HandleSubscribe, SetLevelReturns
    <2>2. next' \in [Requests -> Nat \ {0}]
      BY <1>4, ElementEndsEffect DEF CallToolEnds, HandleSubscribe, SetLevelReturns
    <2>3. received' = received /\ subscribed' \subseteq Uses
      BY <1>4 DEF TypeOK, CallToolEnds, HandleSubscribe, SetLevelReturns, uses
    <2>4. UNCHANGED <<context, levels, request, overlapped>>
      BY <1>4 DEF CallToolEnds, HandleSubscribe, SetLevelReturns
    <2> QED
      BY <2>1, <2>2, <2>3, <2>4 DEF TypeOK, context, levels, request
  <1>5. ASSUME NEW r \in Requests, NEW level \in Levels, SetLevel(r, level) PROVE TypeOK'
    <2>1. level_messages' \subseteq LevelMessages
      BY <1>5 DEF TypeOK, SetLevel
    <2>2. recent' \subseteq Levels
      BY <1>5 DEF TypeOK, SetLevel
    <2> QED
      BY <1>5, <2>1, <2>2 DEF TypeOK, SetLevel, context, request, uses
  <1>6. ASSUME NEW m \in level_messages, SetClientLogLevel(m) PROVE TypeOK'
    BY <1>6 DEF TypeOK, SetClientLogLevel, context, request, uses
  <1>7. CASE UNCHANGED vars
    BY <1>7 DEF TypeOK, vars, context, levels, request, uses
  <1> QED
    BY <1>1, <1>2, <1>3, <1>4, <1>5, <1>6, <1>7 DEF Next

-----------------------------------------------------------------------------
(* A session and a token that are never paired by accident. *)

LEMMA PushPairs ==
    ASSUME TypeOK, OwnInv, NEW r \in Requests, PushProgress(r)
    PROVE  OwnInv'
  <1> DEFINE u == [by |-> r, session |-> current_session_id[at[r]],
                   token |-> current_progress_token[at[r]]]
  <1>1. received' = received \cup {u} /\ UNCHANGED <<context, request, pc>>
    BY DEF PushProgress
  <1>2. PICK q \in Requests : pc[q] # "new" /\ client[q] = u.session /\ token[q] = u.token
    <2>1. at[r] \in Shards /\ current_session_id[at[r]] # NoSession
      BY DEF TypeOK, PushProgress
    <2> QED
      BY <2>1 DEF OwnInv, ContextOfOne
  <1>3. ContextOfOne'
    BY <1>1 DEF OwnInv, ContextOfOne, context, request
  <1>4. TokensAreOwn'
    BY <1>1, <1>2 DEF OwnInv, TokensAreOwn, request
  <1> QED
    BY <1>3, <1>4 DEF OwnInv

LEMMA DispatchPairs ==
    ASSUME TypeOK, OwnInv, NEW r \in Requests, NEW sh \in Shards,
           NEW sid \in Sessions \cup {NoSession}, NEW tok \in Tokens \cup {NoToken},
           NEW b \in Bodies, Dispatch(r, sh, sid, tok, b)
    PROVE  OwnInv'
  <1>1. \A q \in Requests : pc[q] # "new" =>
            pc'[q] # "new" /\ client'[q] = client[q] /\ token'[q] = token[q]
    BY DEF TypeOK, Dispatch
  <1>2. pc'[r] # "new" /\ client'[r] = sid /\ token'[r] = tok
    BY DEF TypeOK, Dispatch
  <1>3. ASSUME NEW x \in Shards
        PROVE  \/ current_session_id'[x] = NoSession
               \/ \E q \in Requests : /\ pc'[q] # "new"
                                      /\ client'[q] = current_session_id'[x]
                                      /\ token'[q] = current_progress_token'[x]
    <2>1. CASE x = sh
      BY <2>1, <1>2 DEF TypeOK, Dispatch, SetContext
    <2>2. CASE x # sh
      <3>1. /\ current_session_id'[x] = current_session_id[x]
            /\ current_progress_token'[x] = current_progress_token[x]
        BY <2>2 DEF TypeOK, Dispatch, SetContext
      <3> QED
        BY <3>1, <1>1 DEF OwnInv, ContextOfOne
    <2> QED
      BY <2>1, <2>2
  <1>4. received' = received
    BY DEF Dispatch, uses
  <1>5. TokensAreOwn'
    BY <1>1, <1>4 DEF OwnInv, TokensAreOwn
  <1> QED
    BY <1>3, <1>5 DEF OwnInv, ContextOfOne

LEMMA OwnStep == TypeOK /\ OwnInv /\ [Next]_vars => OwnInv'
  <1> SUFFICES ASSUME TypeOK, OwnInv, [Next]_vars PROVE OwnInv'
    OBVIOUS
  <1>1. ASSUME Continues, received' = received PROVE OwnInv'
    BY <1>1 DEF Continues, OwnInv, ContextOfOne, TokensAreOwn, context, request
  <1>2. ASSUME NEW r \in Requests, HandlerStep(r), ~PushProgress(r) PROVE received' = received
    BY <1>2 DEF HandlerStep, DispatchAnswer, ToolSuspends, Resumes, CallToolEnds,
                HandleSubscribe, SetLevelReturns, SetLevel, uses
  <1>3. ASSUME NEW r \in Requests, HandlerStep(r) PROVE OwnInv'
    BY <1>1, <1>2, <1>3, HandlersContinue, PushPairs
  <1>4. ASSUME NEW m \in level_messages, SetClientLogLevel(m) PROVE OwnInv'
    BY <1>1, <1>4, MessageContinues
  <1>5. CASE UNCHANGED vars
    BY <1>5 DEF OwnInv, ContextOfOne, TokensAreOwn, vars, context, request, uses
  <1> QED
    BY <1>3, <1>4, <1>5, DispatchPairs DEF Next, HandlerStep

-----------------------------------------------------------------------------
(* Undisturbed requests. *)

\* A use that a running request makes of its own context.
LEMMA OwnUse ==
    ASSUME TypeOK, UseInv, NEW r \in Requests, pc[r] = "running",
           Continues,
           NEW u, u.by = r,
           u.session = current_session_id[at[r]],
           u.token = current_progress_token[at[r]] \/ u.token = token[r],
           received' \cup subscribed' \subseteq received \cup subscribed \cup {u}
    PROVE  UseInv'
  <1>1. UndisturbedContext'
    BY DEF UseInv, UndisturbedContext, Continues, context, request
  <1>2. UsersHaveBegun'
    <2> SUFFICES ASSUME NEW x \in received' \cup subscribed' PROVE pc'[x.by] # "new"
      BY DEF UsersHaveBegun
    <2>1. CASE x = u
      BY <2>1 DEF Continues
    <2>2. CASE x # u
      <3>1. x \in received \cup subscribed /\ x.by \in Requests
        BY <2>2 DEF TypeOK, Uses
      <3> QED
        BY <3>1 DEF UseInv, UsersHaveBegun, Continues
    <2> QED
      BY <2>1, <2>2
  <1>3. UndisturbedUseOwn'
    <2> SUFFICES ASSUME NEW x \in received' \cup subscribed', x.by \notin overlapped'
                 PROVE  x.session = client'[x.by] /\ x.token = token'[x.by]
      BY DEF UndisturbedUseOwn
    <2>1. overlapped' = overlapped /\ client' = client /\ token' = token
      BY DEF Continues, request
    <2>2. CASE x = u
      BY <2>1, <2>2 DEF UseInv, UndisturbedContext
    <2>3. CASE x # u
      BY <2>1, <2>3 DEF UseInv, UndisturbedUseOwn
    <2> QED
      BY <2>2, <2>3
  <1> QED
    BY <1>1, <1>2, <1>3 DEF UseInv

LEMMA NoUse ==
    ASSUME TypeOK, UseInv, Continues, UNCHANGED <<received, subscribed>>
    PROVE  UseInv'
  <1>1. \A u \in received \cup subscribed : u.by \in Requests
    BY DEF TypeOK, Uses
  <1>2. UndisturbedContext'
    BY DEF UseInv, UndisturbedContext, Continues, context, request
  <1>3. UsersHaveBegun' /\ UndisturbedUseOwn'
    BY <1>1 DEF UseInv, UsersHaveBegun, UndisturbedUseOwn, Continues, request
  <1> QED
    BY <1>2, <1>3 DEF UseInv

LEMMA DispatchUses ==
    ASSUME TypeOK, UseInv, NEW r \in Requests, NEW sh \in Shards,
           NEW sid \in Sessions \cup {NoSession}, NEW tok \in Tokens \cup {NoToken},
           NEW b \in Bodies, Dispatch(r, sh, sid, tok, b)
    PROVE  UseInv'
  <1>1. /\ pc[r] = "new" /\ pc' = [pc EXCEPT ![r] = "running"]
        /\ at' = [at EXCEPT ![r] = sh]
        /\ client' = [client EXCEPT ![r] = sid] /\ token' = [token EXCEPT ![r] = tok]
        /\ overlapped' = overlapped \cup Open(sh)
        /\ received' = received /\ subscribed' = subscribed
    BY DEF Dispatch, uses
  <1>2. ASSUME NEW q \in Requests, pc'[q] \notin {"new", "done"}, q \notin overlapped'
        PROVE  /\ current_session_id'[at'[q]] = client'[q]
               /\ current_progress_token'[at'[q]] = token'[q]
    <2>1. CASE q = r
      BY <1>1, <2>1 DEF TypeOK, Dispatch, SetContext
    <2>2. CASE q # r
      <3>1. pc[q] \notin {"new", "done"} /\ q \notin overlapped /\ at[q] # sh
        BY <1>1, <1>2, <2>2 DEF TypeOK, Open
      <3>2. /\ current_session_id[at[q]] = client[q]
            /\ current_progress_token[at[q]] = token[q]
        BY <3>1 DEF UseInv, UndisturbedContext
      <3> QED
        BY <1>1, <2>2, <3>1, <3>2 DEF TypeOK, Dispatch, SetContext
    <2> QED
      BY <2>1, <2>2
  <1>3. ASSUME NEW u \in received \cup subscribed
        PROVE  /\ u.by \in Requests /\ u.by # r /\ pc'[u.by] # "new"
               /\ client'[u.by] = client[u.by] /\ token'[u.by] = token[u.by]
    <2>1. u.by \in Requests /\ pc[u.by] # "new"
      BY DEF TypeOK, Uses, UseInv, UsersHaveBegun
    <2> QED
      BY <1>1, <2>1 DEF TypeOK
  <1>4. UndisturbedContext'
    BY <1>2 DEF UndisturbedContext
  <1>5. UsersHaveBegun' /\ UndisturbedUseOwn'
    BY <1>1, <1>3 DEF UseInv, UsersHaveBegun, UndisturbedUseOwn
  <1> QED
    BY <1>4, <1>5 DEF UseInv

LEMMA HandlerUses ==
    ASSUME TypeOK, UseInv, NEW r \in Requests, HandlerStep(r)
    PROVE  UseInv'
  <1>1. Continues
    BY HandlersContinue
  <1>2. CASE PushProgress(r)
    <2>1. PICK u : u = [by |-> r, session |-> current_session_id[at[r]],
                        token |-> current_progress_token[at[r]]]
      OBVIOUS
    <2>2. pc[r] = "running" /\ received' = received \cup {u} /\ subscribed' = subscribed
      BY <1>2, <2>1 DEF PushProgress, Runs
    <2> QED
      BY <1>1, <2>1, <2>2, OwnUse
  <1>3. CASE HandleSubscribe(r)
    <2>1. PICK u : u = [by |-> r, session |-> current_session_id[at[r]], token |-> token[r]]
      OBVIOUS
    <2>2. /\ pc[r] = "running" /\ received' = received
          /\ subscribed' \subseteq subscribed \cup {u}
      BY <1>3, <2>1 DEF HandleSubscribe, Runs
    <2> QED
      BY <1>1, <2>1, <2>2, OwnUse
  <1>4. CASE ~PushProgress(r) /\ ~HandleSubscribe(r)
    <2>1. UNCHANGED <<received, subscribed>>
      BY <1>4 DEF HandlerStep, DispatchAnswer, ToolSuspends, Resumes, CallToolEnds,
                  SetLevelReturns, SetLevel, uses
    <2> QED
      BY <1>1, <2>1, NoUse
  <1> QED
    BY <1>2, <1>3, <1>4

LEMMA UseStep == TypeOK /\ UseInv /\ [Next]_vars => UseInv'
  <1> SUFFICES ASSUME TypeOK, UseInv, [Next]_vars PROVE UseInv'
    OBVIOUS
  <1>1. ASSUME NEW m \in level_messages, SetClientLogLevel(m) PROVE UseInv'
    BY <1>1, MessageContinues, NoUse
  <1>2. CASE UNCHANGED vars
    BY <1>2 DEF UseInv, UndisturbedContext, UsersHaveBegun, UndisturbedUseOwn,
                vars, context, request, uses
  <1> QED
    BY <1>1, <1>2, DispatchUses, HandlerUses DEF Next, HandlerStep

-----------------------------------------------------------------------------
(* The log level. *)

\* A request that moves without touching a level, and is not awaited by one.
LEMMA LevelsKept ==
    ASSUME TypeOK, Broadcast, UNCHANGED levels, NEW r \in Requests,
           \A m \in level_messages : m.by # r,
           \E p \in Pcs \ {"broadcasting"} : pc' = [pc EXCEPT ![r] = p]
    PROVE  Broadcast'
  <1>1. \A q \in Requests : /\ pc'[q] = "broadcasting" => pc[q] = "broadcasting"
                            /\ q # r => pc'[q] = pc[q]
    BY DEF TypeOK
  <1>2. \A m \in level_messages : m.by \in Requests
    BY DEF TypeOK, LevelMessages
  <1> QED
    BY <1>1, <1>2 DEF Broadcast, levels

LEMMA SetLevelBroadcasts ==
    ASSUME TypeOK, Broadcast, NEW r \in Requests, NEW level \in Levels, SetLevel(r, level)
    PROVE  Broadcast'
  <1> DEFINE sent == {[by |-> r, to |-> sh, level |-> level] : sh \in Shards \ {at[r]}}
  <1>1. /\ pc[r] = "running" /\ pc' = [pc EXCEPT ![r] = "broadcasting"]
        /\ logger_level' = level
        /\ client_log_level' = [client_log_level EXCEPT ![at[r]] = level]
        /\ level_messages' = level_messages \cup sent
        /\ recent' = {level} \cup
             (IF \E q \in Requests : pc[q] = "broadcasting" THEN recent ELSE {})
    BY DEF SetLevel, Runs
  <1>2. \A m \in level_messages' : pc'[m.by] = "broadcasting"
    <2>1. \A m \in level_messages : m.by \in Requests /\ pc[m.by] = "broadcasting"
      BY DEF TypeOK, LevelMessages, Broadcast
    <2>2. \A m \in sent : m.by = r
      OBVIOUS
    <2>3. pc'[r] = "broadcasting" /\ \A q \in Requests : q # r => pc'[q] = pc[q]
      BY <1>1 DEF TypeOK
    <2> QED
      BY <1>1, <2>1, <2>2, <2>3
  <1>3. \A m \in level_messages' : m.level \in recent'
    <2>1. ASSUME NEW m \in level_messages PROVE m.level \in recent'
      <3>1. pc[m.by] = "broadcasting" /\ m.by \in Requests /\ m.level \in recent
        BY DEF TypeOK, LevelMessages, Broadcast
      <3> QED
        BY <1>1, <3>1
    <2>2. \A m \in sent : m.level \in recent'
      BY <1>1
    <2> QED
      BY <1>1, <2>1, <2>2
  <1>4. ASSUME NEW sh \in Shards
        PROVE  client_log_level'[sh] \in recent' \/ \E m \in level_messages' : m.to = sh
    <2>1. CASE sh = at[r]
      BY <1>1, <2>1 DEF TypeOK
    <2>2. CASE sh # at[r]
      <3>1. [by |-> r, to |-> sh, level |-> level] \in level_messages'
        BY <1>1, <2>2
      <3> QED
        BY <3>1
    <2> QED
      BY <2>1, <2>2
  <1> QED
    BY <1>1, <1>2, <1>3, <1>4 DEF Broadcast

LEMMA LevelArrives ==
    ASSUME TypeOK, Broadcast, NEW m \in level_messages, SetClientLogLevel(m)
    PROVE  Broadcast'
  <1>1. /\ client_log_level' = [client_log_level EXCEPT ![m.to] = m.level]
        /\ level_messages' = level_messages \ {m}
        /\ UNCHANGED <<logger_level, recent, pc>>
    BY DEF SetClientLogLevel
  <1>2. ASSUME recent # {}, NEW sh \in Shards
        PROVE  client_log_level'[sh] \in recent \/ \E x \in level_messages' : x.to = sh
    <2>1. CASE m.to = sh
      BY <1>1, <1>2, <2>1 DEF TypeOK, LevelMessages, Broadcast
    <2>2. CASE m.to # sh
      BY <1>1, <1>2, <2>2 DEF TypeOK, LevelMessages, Broadcast
    <2> QED
      BY <2>1, <2>2
  <1> QED
    BY <1>1, <1>2 DEF Broadcast

LEMMA BroadcastStep == TypeOK /\ Broadcast /\ [Next]_vars => Broadcast'
  <1> SUFFICES ASSUME TypeOK, Broadcast, [Next]_vars PROVE Broadcast'
    OBVIOUS
  <1>1. \A r \in Requests : pc[r] # "broadcasting" => \A m \in level_messages : m.by # r
    BY DEF TypeOK, Broadcast
  <1>2. ASSUME NEW r \in Requests, NEW sh \in Shards,
               NEW sid \in Sessions \cup {NoSession}, NEW tok \in Tokens \cup {NoToken},
               NEW b \in Bodies, Dispatch(r, sh, sid, tok, b)
        PROVE  Broadcast'
    <2>1. pc[r] = "new" /\ pc' = [pc EXCEPT ![r] = "running"] /\ UNCHANGED levels
      BY <1>2 DEF Dispatch
    <2> QED
      BY <1>1, <2>1, LevelsKept DEF Pcs
  <1>3. ASSUME NEW r \in Requests, DispatchAnswer(r) \/ ToolSuspends(r) \/ Resumes(r)
        PROVE  Broadcast'
    <2>1. /\ pc[r] # "broadcasting" /\ UNCHANGED levels
          /\ \E p \in Pcs \ {"broadcasting"} : pc' = [pc EXCEPT ![r] = p]
      BY <1>3 DEF DispatchAnswer, ToolSuspends, Resumes, Runs, Pcs
    <2> QED
      BY <1>1, <2>1, LevelsKept
  <1>4. ASSUME NEW r \in Requests, PushProgress(r) PROVE Broadcast'
    BY <1>4 DEF PushProgress, Broadcast, levels
  <1>5. ASSUME NEW r \in Requests, CallToolEnds(r) \/ HandleSubscribe(r) \/ SetLevelReturns(r)
        PROVE  Broadcast'
    <2>1. ElementEnds(r) /\ UNCHANGED levels
      BY <1>5 DEF CallToolEnds, HandleSubscribe, SetLevelReturns
    <2>2. \A m \in level_messages : m.by # r
      BY <1>1, <1>5 DEF CallToolEnds, HandleSubscribe, SetLevelReturns, Runs
    <2>3. \E p \in Pcs \ {"broadcasting"} : pc' = [pc EXCEPT ![r] = p]
      BY <2>1, ElementEndsEffect DEF Pcs
    <2> QED
      BY <2>1, <2>2, <2>3, LevelsKept
  <1>6. CASE UNCHANGED vars
    BY <1>6 DEF Broadcast, vars, levels
  <1> QED
    BY <1>2, <1>3, <1>4, <1>5, <1>6, SetLevelBroadcasts, LevelArrives DEF Next

-----------------------------------------------------------------------------
LEMMA ContextInit == Init => TypeOK /\ OwnInv /\ UseInv /\ Broadcast
  <1> SUFFICES ASSUME Init PROVE TypeOK /\ OwnInv /\ UseInv /\ Broadcast
    OBVIOUS
  <1>1. TypeOK
    <2>1. client_log_level \in [Shards -> Levels] /\ logger_level \in Levels
      BY DEF Init
    <2>2. at \in [Requests -> Shards]
      BY DEF Init
    <2>3. body \in [Requests -> Seq(Elements)]
      BY DEF Init
    <2>4. /\ current_session_id \in [Shards -> Sessions \cup {NoSession}]
          /\ current_progress_token \in [Shards -> Tokens \cup {NoToken}]
          /\ pc \in [Requests -> Pcs]
          /\ client \in [Requests -> Sessions \cup {NoSession}]
          /\ token \in [Requests -> Tokens \cup {NoToken}]
          /\ next \in [Requests -> Nat \ {0}]
      BY DEF Init, Pcs
    <2>5. /\ level_messages = {} /\ received = {} /\ subscribed = {} /\ overlapped = {}
          /\ recent = {}
      BY DEF Init
    <2> QED
      BY <2>1, <2>2, <2>3, <2>4, <2>5 DEF TypeOK
  <1>2. OwnInv
    BY DEF Init, OwnInv, ContextOfOne, TokensAreOwn
  <1>3. UseInv
    BY DEF Init, UseInv, UndisturbedContext, UsersHaveBegun, UndisturbedUseOwn
  <1>4. Broadcast
    BY DEF Init, Broadcast
  <1> QED
    BY <1>1, <1>2, <1>3, <1>4

\* The fields of the shard and the requests keep their types.
THEOREM TypeCorrect == Spec => []TypeOK
  <1> QED
    BY ContextInit, TypeStep, PTL DEF Spec

\* However requests interleave on however many shards, no session receives a
\* notification with the progress token of another session's request.
THEOREM TokensStayWithSessions == Spec => []TokensAreOwn
  <1>1. OwnInv => TokensAreOwn
    BY DEF OwnInv
  <1> QED
    BY <1>1, ContextInit, TypeCorrect, OwnStep, PTL DEF Spec

\* A request during which its shard starts no other is served with its own
\* session and token.
THEOREM UndisturbedIsOwn == Spec => []UndisturbedUseOwn
  <1>1. UseInv => UndisturbedUseOwn
    BY DEF UseInv
  <1> QED
    BY <1>1, ContextInit, TypeCorrect, UseStep, PTL DEF Spec

\* Whatever calls of logging/setLevel overlap, once none is being handled all
\* shards and the loggers have a level of the last ones.
THEOREM LevelsConverge == Spec => []LevelsSettle
  <1>1. TypeOK /\ Broadcast => LevelsSettle
    <2> SUFFICES ASSUME TypeOK, Broadcast, recent # {},
                        \A r \in Requests : pc[r] # "broadcasting"
                 PROVE  /\ logger_level \in recent
                        /\ \A sh \in Shards : client_log_level[sh] \in recent
      BY DEF LevelsSettle
    <2>1. level_messages = {}
      BY DEF TypeOK, LevelMessages, Broadcast
    <2> QED
      BY <2>1 DEF Broadcast
  <1> QED
    BY <1>1, ContextInit, TypeCorrect, BroadcastStep, PTL DEF Spec
=============================================================================
