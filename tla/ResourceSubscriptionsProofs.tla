--------------------- MODULE ResourceSubscriptionsProofs ---------------------
(***************************************************************************)
(* Proofs about ResourceSubscriptions: with subscriptions and batches the  *)
(* sessions still behave as ShardSessions says, so that what is proved of  *)
(* them holds, and the tables keep their types.                            *)
(***************************************************************************)
EXTENDS ResourceSubscriptions, ShardSessionsProofs

\* Every step is one of the sessions, or leaves them alone.
LEMMA SubStepIsSessionStep == [SubNext]_subVars => [Next]_vars
<1> SUFFICES ASSUME [SubNext]_subVars PROVE [Next]_vars
  OBVIOUS
<1>1. ASSUME NEW sh \in Shards, NEW sid, NEW uri,
             \/ HandleSubscribe(sh, sid, uri) \/ HandleUnsubscribe(sh, sid, uri)
             \/ HandleOther(sh, sid)
      PROVE  [Next]_vars
  BY <1>1 DEF HandleSubscribe, HandleUnsubscribe, HandleOther
<1>2. ASSUME NEW e \in suspended, BatchGoesOn(e)
      PROVE  [Next]_vars
  BY <1>2 DEF BatchGoesOn
<1>3. ASSUME NEW sh \in Shards, NEW uri, NotifyResourceUpdated(sh, uri)
      PROVE  [Next]_vars
  <2> DEFINE ids == {id \in sessions[sh] \cap active : <<uri, id>> \in subscriptions[sh]}
  <2>1. ids \in SUBSET sessions[sh] /\ PushToSessions(sh, ids)
    BY <1>3 DEF NotifyResourceUpdated
  <2>. QED
    BY <2>1 DEF Next
<1>4. ASSUME NEW sh \in Shards, NEW ip \in Ips \cup {NoIp}, NEW uris,
             SessionOpens(sh, ip, uris)
      PROVE  [Next]_vars
  BY <1>4 DEF SessionOpens, Next
<1>5. CASE SessionStep
  BY <1>5 DEF SessionStep
<1>6. CASE UNCHANGED subVars
  BY <1>6 DEF subVars
<1>. QED
  BY <1>1, <1>2, <1>3, <1>4, <1>5, <1>6 DEF SubNext

\* The specification with subscriptions implements that of the sessions, so
\* what is proved of the sessions holds here too.
THEOREM SubscriptionsKeepSessions == SubSpec => Spec
<1>1. SubInit => Init
  BY DEF SubInit
<1>. QED
  BY <1>1, SubStepIsSessionStep, PTL DEF SubSpec, Spec

-----------------------------------------------------------------------------
(* Types. *)

LEMMA RestsType ==
  ASSUME NEW sh, NEW opens, NEW rest \in Rests(sh, opens)
  PROVE  rest \subseteq Elements
  BY DEF Rests

LEMMA TablesType ==
  ASSUME SubTypeOK, NEW sh \in Shards, NEW sid \in Ids \cup {NoSession},
         NEW uri \in Uris, NEW uris \in SUBSET Uris
  PROVE  /\ SubscribeResource(sh, sid, uris) \in [Shards -> SUBSET (Uris \X Ids)]
         /\ UnsubscribeResource(sh, sid, uri) \in [Shards -> SUBSET (Uris \X Ids)]
         /\ DispatchFor(sh, sid) \in [Shards -> Ids \cup {NoSession}]
         /\ DispatchFor(sh, sid)[sh] = sid
<1>1. Own(sid, uris) \subseteq Uris \X Ids
  BY DEF Own
<1>. QED
  BY <1>1 DEF SubTypeOK, SubscribeResource, UnsubscribeResource, DispatchFor

\* The tables hold pairs of resources and session ids, whoever a batch finds in
\* the context when it goes on: never an entry without a session.
THEOREM SubTypeCorrect == SubSpec => []SubTypeOK
<1>1. SubInit => SubTypeOK
  BY DEF SubInit, SubTypeOK
<1>2. TypeOK /\ SubTypeOK /\ [SubNext]_subVars => SubTypeOK'
  <2> SUFFICES ASSUME TypeOK, SubTypeOK, [SubNext]_subVars PROVE SubTypeOK'
    OBVIOUS
  <2>1. ASSUME NEW sh \in Shards, NEW sid \in Named, NEW uri \in Uris,
               HandleSubscribe(sh, sid, uri) \/ HandleUnsubscribe(sh, sid, uri)
        PROVE  SubTypeOK'
    <3>1. sid \in Ids \cup {NoSession} /\ {uri} \in SUBSET Uris
      BY DEF Named
    <3>2. /\ current_session_id' = DispatchFor(sh, sid)
          /\ \/ subscriptions' = SubscribeResource(sh, current_session_id'[sh], {uri})
             \/ subscriptions' = UnsubscribeResource(sh, current_session_id'[sh], uri)
          /\ suspended' = suspended
      BY <2>1 DEF HandleSubscribe, HandleUnsubscribe
    <3>3. /\ current_session_id' \in [Shards -> Ids \cup {NoSession}]
          /\ current_session_id'[sh] = sid
      BY <3>1, <3>2, TablesType
    <3>4. subscriptions' \in [Shards -> SUBSET (Uris \X Ids)]
      BY <3>1, <3>2, <3>3, TablesType
    <3>. QED
      BY <3>2, <3>3, <3>4 DEF SubTypeOK
  <2>2. ASSUME NEW sh \in Shards, NEW sid \in Named, HandleOther(sh, sid)
        PROVE  SubTypeOK'
    <3>1. sid \in Ids \cup {NoSession}
      BY DEF Named
    <3>. QED
      BY <2>2, <3>1, RestsType DEF HandleOther, DispatchFor, SubTypeOK
  <2>3. ASSUME NEW e \in suspended, BatchGoesOn(e)
        PROVE  SubTypeOK'
    <3>1. e.at \in Shards /\ e.uri \in Uris /\ {e.uri} \in SUBSET Uris
      BY DEF SubTypeOK, Elements
    <3>2. current_session_id[e.at] \in Ids \cup {NoSession}
      BY <3>1 DEF SubTypeOK
    <3>3. subscriptions' \in [Shards -> SUBSET (Uris \X Ids)]
      BY <2>3, <3>1, <3>2, TablesType DEF BatchGoesOn
    <3>. QED
      BY <2>3, <3>3, RestsType DEF BatchGoesOn, SubTypeOK
  <2>4. ASSUME NEW sh \in Shards, NEW uri \in Uris, NotifyResourceUpdated(sh, uri)
        PROVE  SubTypeOK'
    BY <2>4 DEF NotifyResourceUpdated, context, SubTypeOK
  <2>5. ASSUME NEW sh \in Shards, NEW ip \in Ips \cup {NoIp}, NEW uris \in SUBSET Uris,
               SessionOpens(sh, ip, uris)
        PROVE  SubTypeOK'
    <3>1. StreamableId(sh) \in Ids
      BY <2>5, NewIds DEF SessionOpens, HandlePost
    <3>2. current_session_id' = DispatchFor(sh, StreamableId(sh))
      BY <2>5 DEF SessionOpens
    <3>3. subscriptions' = SubscribeResource(sh, current_session_id'[sh], uris)
      BY <2>5 DEF SessionOpens
    <3>4. suspended' \subseteq Elements
      BY <2>5, RestsType DEF SessionOpens, SubTypeOK
    <3>5. /\ DispatchFor(sh, StreamableId(sh)) \in [Shards -> Ids \cup {NoSession}]
          /\ DispatchFor(sh, StreamableId(sh))[sh] = StreamableId(sh)
      BY <3>1 DEF SubTypeOK, DispatchFor
    <3>6. SubscribeResource(sh, StreamableId(sh), uris) \in [Shards -> SUBSET (Uris \X Ids)]
      BY <3>1 DEF SubTypeOK, SubscribeResource, Own
    <3>. QED
      BY <3>2, <3>3, <3>4, <3>5, <3>6 DEF SubTypeOK
  <2>6. CASE SessionStep
    <3>1. subscriptions' \in [Shards -> SUBSET (Uris \X Ids)]
      BY <2>6 DEF SessionStep, CleanupSubscriptions, SubTypeOK
    <3>. QED
      BY <2>6, <3>1 DEF SessionStep, SubTypeOK
  <2>7. CASE UNCHANGED subVars
    BY <2>7 DEF subVars, context, SubTypeOK
  <2>. QED
    BY <2>1, <2>2, <2>3, <2>4, <2>5, <2>6, <2>7 DEF SubNext
<1>3. SubSpec => []TypeOK
  BY SubscriptionsKeepSessions, TypeCorrect, PTL
<1>. QED
  BY <1>1, <1>2, <1>3, PTL DEF SubSpec
=============================================================================
