------------------------ MODULE ShardSessionsProofs ------------------------
(***************************************************************************)
(* Proofs about ShardSessions, for every number of shards, addresses,      *)
(* sessions and every limit: its type invariant; that the per-IP count is  *)
(* exact and GET /sse keeps within the connection limits; that live        *)
(* sessions stay in their table, are served, and end for a reason; that no *)
(* stream sleeps through a message; and that a stop leaves nothing.        *)
(***************************************************************************)
EXTENDS ShardSessions, FiniteSetTheorems, TLAPS

(* The ways the session table of the shards changes. *)

OpenedBySse(sh, ip) ==
    /\ session_counter[sh] + next_counter[sh] < MaxSessions
    /\ WithinLimits(sh, ip)
    /\ session_counter' = [session_counter EXCEPT ![sh] = @ + 1]
    /\ AddSession(sh, SessionId(sh), ip)
    /\ UNCHANGED next_counter

OpenedByPost(sh, ip) ==
    /\ session_counter[sh] + next_counter[sh] < MaxSessions
    /\ next_counter' = [next_counter EXCEPT ![sh] = @ + 1]
    /\ AddSession(sh, StreamableId(sh), ip)
    /\ UNCHANGED session_counter

Removed(sh, id) ==
    /\ RemoveSession(sh, id)
    /\ UNCHANGED counters

Cleared(sh) ==
    /\ sessions' = [sessions EXCEPT ![sh] = {}]
    /\ sh \in stopped'
    /\ UNCHANGED <<counters, session_to_ip, ip_conn_count>>

TableStep ==
    \/ UNCHANGED <<counters, table>>
    \/ \E sh \in Shards, ip \in Ips \cup {NoIp} : OpenedBySse(sh, ip) \/ OpenedByPost(sh, ip)
    \/ \E sh \in Shards, id \in Ids : Removed(sh, id)
    \/ \E sh \in Shards : Cleared(sh)

\* Every step of the system is one of these, or leaves the tables alone.
LEMMA NextIsTableStep == [Next]_vars => TableStep
<1> SUFFICES ASSUME [Next]_vars PROVE TableStep
  OBVIOUS
<1> USE DEF counters, table
<1>1. ASSUME NEW sh \in Shards, NEW ip \in Ips \cup {NoIp}, HandleSse(sh, ip)
      PROVE  TableStep
  BY <1>1 DEF HandleSse, OpenedBySse, TableStep
<1>2. ASSUME NEW sh \in Shards, NEW ip \in Ips \cup {NoIp}, HandlePost(sh, ip)
      PROVE  TableStep
  BY <1>2 DEF HandlePost, OpenedByPost, TableStep
<1>3. ASSUME NEW id \in Ids,
             \/ DispatchAsks(id) \/ DispatchReturns(id) \/ DispatchThrows(id)
             \/ HandleGet(id)
      PROVE  TableStep
  BY <1>3 DEF DispatchAsks, DispatchReturns, DispatchThrows, HandleGet, TableStep
<1>4. ASSUME NEW id \in Ids, CloseSession(id), UNCHANGED counters
      PROVE  TableStep
  <2>1. id.shard \in Shards
    BY DEF Ids
  <2>. QED
    BY <1>4, <2>1 DEF CloseSession, Removed, TableStep
<1>5. ASSUME NEW id \in Ids, NEW r \in Roles, StreamStep(id, r)
      PROVE  TableStep
  <2>1. id.shard \in Shards
    BY DEF Ids
  <2>2. CASE StreamTakes(id, r) \/ StreamWaits(id, r)
    BY <2>2 DEF StreamTakes, StreamWaits, TableStep
  <2>3. CASE StreamFindsClosed(id, r)
    BY <2>1, <2>3 DEF StreamFindsClosed, LeaveLoop, Removed, TableStep
  <2>4. CASE StreamResumes(id, r)
    BY <2>1, <2>4 DEF StreamResumes, LeaveLoop, Removed, TableStep
  <2>5. CASE StreamFails(id, r)
    BY <2>1, <2>5 DEF StreamFails, LeaveLoop, Removed, TableStep
  <2>. QED
    BY <1>5, <2>2, <2>3, <2>4, <2>5 DEF StreamStep
<1>6. ASSUME NEW id \in Ids, NEW r \in Roles, Disconnect(id, r)
      PROVE  TableStep
  BY <1>6 DEF Disconnect, TableStep
<1>7. ASSUME NEW sh \in Shards, NEW id \in Ids, HandleDelete(sh, id)
      PROVE  TableStep
  BY <1>4, <1>7 DEF HandleDelete, TableStep
<1>8. ASSUME NEW id \in Ids, DeleteArrives(id)
      PROVE  TableStep
  BY <1>4, <1>8 DEF DeleteArrives
<1>9. CASE BeginStop \/ SseStopped \/ StreamableStopped
  BY <1>9 DEF BeginStop, SseStopped, StreamableStopped, TableStep
<1>10. ASSUME NEW sh \in Shards, ShardStop(sh)
       PROVE  TableStep
  BY <1>10 DEF ShardStop, Cleared, TableStep
<1>11. ASSUME NEW sh \in Shards, NEW ids, PushToSessions(sh, ids)
       PROVE  TableStep
  BY <1>11 DEF PushToSessions, TableStep
<1>12. CASE UNCHANGED vars
  BY <1>12 DEF vars, TableStep
<1>. QED
  BY <1>1, <1>2, <1>3, <1>5, <1>6, <1>7, <1>8, <1>9, <1>10, <1>11, <1>12 DEF Next

-----------------------------------------------------------------------------
(* Types. *)

LEMMA NewIds ==
  ASSUME TypeOK, NEW sh \in Shards,
         session_counter[sh] + next_counter[sh] < MaxSessions
  PROVE  /\ SessionId(sh) \in Ids
         /\ StreamableId(sh) \in Ids
         /\ session_counter[sh] + 1 \in 0..MaxSessions
         /\ next_counter[sh] + 1 \in 0..MaxSessions
<1>1. /\ session_counter[sh] \in 0..MaxSessions
      /\ next_counter[sh] \in 0..MaxSessions
      /\ MaxSessions \in Nat
  BY BoundAssumption DEF TypeOK
<1>. QED
  BY <1>1 DEF SessionId, StreamableId, Ids

LEMMA AddSessionType ==
  ASSUME TypeOK, NEW sh \in Shards, NEW id \in Ids, NEW ip \in Ips \cup {NoIp},
         AddSession(sh, id, ip)
  PROVE  /\ sessions' \in [Shards -> SUBSET Ids]
         /\ session_to_ip' \in [Shards -> [Ids -> Ips \cup {NoIp}]]
         /\ ip_conn_count' \in [Shards -> [Ips -> Nat]]
         /\ active' \subseteq Ids
         /\ queued' \in [Ids -> 0..MaxQueued]
<1> USE DEF TypeOK, AddSession, TrackIpConn
<1>1. sessions' \in [Shards -> SUBSET Ids] /\ active' \subseteq Ids
  OBVIOUS
<1>2. queued' \in [Ids -> 0..MaxQueued]
  BY BoundAssumption
<1>3. session_to_ip' \in [Shards -> [Ids -> Ips \cup {NoIp}]]
  <2>1. CASE ip = NoIp
    BY <2>1
  <2>2. CASE ip # NoIp
    <3>1. session_to_ip' = [session_to_ip EXCEPT ![sh] = [@ EXCEPT ![id] = ip]]
      BY <2>2
    <3>. QED
      BY <3>1
  <2>. QED
    BY <2>1, <2>2
<1>4. ip_conn_count' \in [Shards -> [Ips -> Nat]]
  <2>1. CASE ip = NoIp
    BY <2>1
  <2>2. CASE ip # NoIp
    <3> DEFINE row == [ip_conn_count[sh] EXCEPT ![ip] = @ + 1]
    <3>1. row \in [Ips -> Nat]
      BY <2>2
    <3>2. ip_conn_count' = [ip_conn_count EXCEPT ![sh] = row]
      BY <2>2
    <3>. QED
      BY <3>1, <3>2
  <2>. QED
    BY <2>1, <2>2
<1>. QED
  BY <1>1, <1>2, <1>3, <1>4

LEMMA RemoveSessionType ==
  ASSUME TypeOK, NEW sh \in Shards, NEW id \in Ids, RemoveSession(sh, id)
  PROVE  /\ sessions' \in [Shards -> SUBSET Ids]
         /\ session_to_ip' \in [Shards -> [Ids -> Ips \cup {NoIp}]]
         /\ ip_conn_count' \in [Shards -> [Ips -> Nat]]
<1>1. sessions' \in [Shards -> SUBSET Ids]
  BY DEF TypeOK, RemoveSession
<1>2. session_to_ip' \in [Shards -> [Ids -> Ips \cup {NoIp}]]
  BY DEF TypeOK, RemoveSession
<1>3. ip_conn_count' \in [Shards -> [Ips -> Nat]]
  <2> DEFINE row == [ip \in Ips |-> IF ip = session_to_ip[sh][id] /\ ip_conn_count[sh][ip] > 0
                                    THEN ip_conn_count[sh][ip] - 1 ELSE ip_conn_count[sh][ip]]
  <2>1. row \in [Ips -> Nat]
    BY DEF TypeOK
  <2>2. ip_conn_count' = [ip_conn_count EXCEPT ![sh] = row]
    BY DEF RemoveSession
  <2>. QED
    BY <2>1, <2>2 DEF TypeOK
<1>. QED
  BY <1>1, <1>2, <1>3

LEMMA PushType ==
  ASSUME TypeOK, NEW ids, PushOnto(ids)
  PROVE  queued' \in [Ids -> 0..MaxQueued] /\ pc' \in [Ids -> [Roles -> Pcs]]
<1>1. queued' \in [Ids -> 0..MaxQueued]
  BY BoundAssumption DEF TypeOK, PushOnto
<1>2. pc' \in [Ids -> [Roles -> Pcs]]
  BY DEF TypeOK, PushOnto, Pcs
<1>. QED
  BY <1>1, <1>2

LEMMA CloseSessionType ==
  ASSUME TypeOK, NEW id \in Ids, CloseSession(id)
  PROVE  /\ sessions' \in [Shards -> SUBSET Ids]
         /\ session_to_ip' \in [Shards -> [Ids -> Ips \cup {NoIp}]]
         /\ ip_conn_count' \in [Shards -> [Ips -> Nat]]
         /\ active' \subseteq Ids
         /\ queued' \in [Ids -> 0..MaxQueued]
         /\ pc' \in [Ids -> [Roles -> Pcs]]
<1>1. id.shard \in Shards
  BY DEF Ids
<1>2. active' \subseteq Ids
  BY DEF TypeOK, CloseSession
<1>3. queued' \in [Ids -> 0..MaxQueued] /\ pc' \in [Ids -> [Roles -> Pcs]]
  BY PushType DEF TypeOK, CloseSession
<1>. QED
  BY <1>1, <1>2, <1>3, RemoveSessionType DEF CloseSession

LEMMA StreamStepType ==
  ASSUME TypeOK, NEW id \in Ids, NEW r \in Roles, StreamStep(id, r)
  PROVE  TypeOK'
<1> USE DEF counters, table, control
<1>1. id.shard \in Shards
  BY DEF Ids
<1>2. CASE StreamTakes(id, r)
  <2>1. queued' \in [Ids -> 0..MaxQueued]
    BY <1>2, BoundAssumption DEF StreamTakes, TypeOK
  <2>. QED
    BY <1>2, <2>1 DEF StreamTakes, TypeOK, Pcs
<1>3. CASE StreamWaits(id, r)
  <2>1. pc' \in [Ids -> [Roles -> Pcs]]
    BY <1>3 DEF StreamWaits, TypeOK, Pcs
  <2>. QED
    BY <1>3, <2>1 DEF StreamWaits, TypeOK
<1>4. ASSUME LeaveLoop(id, r)
      PROVE  /\ pc' \in [Ids -> [Roles -> Pcs]]
             /\ gone' \subseteq Ids \X Roles
             /\ sessions' \in [Shards -> SUBSET Ids]
             /\ session_to_ip' \in [Shards -> [Ids -> Ips \cup {NoIp}]]
             /\ ip_conn_count' \in [Shards -> [Ips -> Nat]]
  <2>1. pc' \in [Ids -> [Roles -> Pcs]] /\ gone' \subseteq Ids \X Roles
    BY <1>4 DEF LeaveLoop, TypeOK, Pcs
  <2>. QED
    BY <1>1, <1>4, <2>1, RemoveSessionType DEF LeaveLoop
<1>5. CASE StreamFindsClosed(id, r)
  BY <1>4, <1>5 DEF StreamFindsClosed, TypeOK
<1>6. CASE StreamResumes(id, r)
  <2>1. queued' \in [Ids -> 0..MaxQueued]
    BY <1>6, BoundAssumption DEF StreamResumes, TypeOK
  <2>2. CASE pc' = [pc EXCEPT ![id][r] = "writing"] /\ UNCHANGED <<table, gone>>
    BY <1>6, <2>1, <2>2 DEF StreamResumes, TypeOK, Pcs
  <2>3. CASE LeaveLoop(id, r)
    BY <1>4, <1>6, <2>1, <2>3 DEF StreamResumes, TypeOK
  <2>. QED
    BY <1>6, <2>2, <2>3 DEF StreamResumes
<1>7. CASE StreamFails(id, r)
  BY <1>4, <1>7 DEF StreamFails, TypeOK
<1>. QED
  BY <1>2, <1>3, <1>5, <1>6, <1>7 DEF StreamStep

\* Every variable keeps its type.
THEOREM TypeCorrect == Spec => []TypeOK
<1> USE DEF counters, table, control
<1>1. Init => TypeOK
  BY BoundAssumption DEF Init, TypeOK, Pcs, Stages
<1>2. TypeOK /\ [Next]_vars => TypeOK'
  <2> SUFFICES ASSUME TypeOK, [Next]_vars PROVE TypeOK'
    OBVIOUS
  <2>1. ASSUME NEW sh \in Shards, NEW ip \in Ips \cup {NoIp}, HandleSse(sh, ip)
        PROVE  TypeOK'
    <3>1. session_counter' \in [Shards -> 0..MaxSessions]
      BY <2>1, NewIds DEF HandleSse, TypeOK
    <3>2. SessionId(sh) \in Ids
      BY <2>1, NewIds DEF HandleSse
    <3>3. pc' \in [Ids -> [Roles -> Pcs]]
      BY <2>1, <3>2 DEF HandleSse, TypeOK, Pcs
    <3>. QED
      BY <2>1, <3>1, <3>2, <3>3, AddSessionType DEF HandleSse, TypeOK
  <2>2. ASSUME NEW sh \in Shards, NEW ip \in Ips \cup {NoIp}, HandlePost(sh, ip)
        PROVE  TypeOK'
    <3>1. next_counter' \in [Shards -> 0..MaxSessions]
      BY <2>2, NewIds DEF HandlePost, TypeOK
    <3>2. StreamableId(sh) \in Ids
      BY <2>2, NewIds DEF HandlePost
    <3>3. pc' \in [Ids -> [Roles -> Pcs]]
      BY <2>2, <3>2 DEF HandlePost, TypeOK, Pcs
    <3>. QED
      BY <2>2, <3>1, <3>2, <3>3, AddSessionType DEF HandlePost, TypeOK
  <2>3. ASSUME NEW id \in Ids, DispatchReturns(id)
        PROVE  TypeOK'
    <3>1. PICK answered \in BOOLEAN :
            /\ queued' = [queued EXCEPT ![id] = IF answered /\ @ < MaxQueued THEN @ + 1 ELSE @]
            /\ pc' = [pc EXCEPT ![id] =
                        [creator   |-> "opening",
                         reconnect |-> IF answered /\ @["reconnect"] = "waiting"
                                       THEN "ready" ELSE @["reconnect"]]]
      BY <2>3 DEF DispatchReturns
    <3>2. queued' \in [Ids -> 0..MaxQueued]
      BY <3>1, BoundAssumption DEF TypeOK
    <3>3. pc' \in [Ids -> [Roles -> Pcs]]
      BY <3>1 DEF TypeOK, Pcs, Roles
    <3>. QED
      BY <2>3, <3>2, <3>3 DEF DispatchReturns, TypeOK
  <2>4. ASSUME NEW id \in Ids, DispatchAsks(id) \/ DispatchThrows(id) \/ HandleGet(id)
        PROVE  TypeOK'
    <3>1. "creator" \in Roles /\ "reconnect" \in Roles
      BY DEF Roles
    <3>2. \A r \in Roles, p \in Pcs :
            [pc EXCEPT ![id][r] = p] \in [Ids -> [Roles -> Pcs]]
      BY DEF TypeOK
    <3>3. CASE DispatchThrows(id)
      BY <3>1, <3>2, <3>3 DEF DispatchThrows, TypeOK, Pcs
    <3>4. CASE HandleGet(id)
      BY <3>1, <3>2, <3>4 DEF HandleGet, TypeOK, Pcs
    <3>5. CASE DispatchAsks(id)
      BY <3>1, <3>2, <3>5 DEF DispatchAsks, TypeOK, Pcs
    <3>. QED
      BY <2>4, <3>3, <3>4, <3>5
  <2>5. ASSUME NEW sh \in Shards, NEW ids, PushToSessions(sh, ids)
        PROVE  TypeOK'
    BY <2>5, PushType DEF PushToSessions, TypeOK
  <2>6. ASSUME NEW id \in Ids, DeleteArrives(id)
        PROVE  TypeOK'
    BY <2>6, CloseSessionType DEF DeleteArrives, TypeOK
  <2>7. ASSUME NEW id \in Ids, NEW r \in Roles, Disconnect(id, r)
        PROVE  TypeOK'
    BY <2>7 DEF Disconnect, TypeOK
  <2>8. ASSUME NEW sh \in Shards, NEW id \in Ids, HandleDelete(sh, id)
        PROVE  TypeOK'
    <3>1. CASE sh = id.shard
      BY <2>8, <3>1, CloseSessionType DEF HandleDelete, TypeOK
    <3>2. CASE sh # id.shard
      BY <2>8, <3>2 DEF HandleDelete, TypeOK
    <3>. QED
      BY <3>1, <3>2
  <2>9. CASE BeginStop \/ SseStopped \/ StreamableStopped
    BY <2>9 DEF BeginStop, SseStopped, StreamableStopped, SseStreams, StreamableStreams,
                Roles, TypeOK, Stages
  <2>10. ASSUME NEW sh \in Shards, ShardStop(sh)
         PROVE  TypeOK'
    BY <2>10, PushType DEF ShardStop, TypeOK
  <2>11. CASE UNCHANGED vars
    BY <2>11 DEF vars, TypeOK
  <2>. QED
    BY <2>1, <2>2, <2>3, <2>4, <2>5, <2>6, <2>7, <2>8, <2>9, <2>10, <2>11,
       StreamStepType DEF Next
<1>. QED
  BY <1>1, <1>2, PTL DEF Spec
-----------------------------------------------------------------------------
(* The connection count.  That it is exact is not inductive alone: an id must *)
(* not be tracked when it is issued, so tracked ids are issued ones, and     *)
(* cardinalities say something of finite sets only.                          *)

TrackedIssued ==
    \A sh \in Shards, id \in Ids :
        session_to_ip[sh][id] # NoIp => id.shard = sh /\ Issued(id)

TrackedFinite ==
    \A sh \in Shards, ip \in Ips : IsFiniteSet(Tracked(sh, ip))

CountInv == TrackedIssued /\ TrackedFinite /\ ConnCountExact

\* An id about to be issued is not tracked, under any address.
LEMMA FreshIds ==
  ASSUME TypeOK, TrackedIssued, NEW sh \in Shards
  PROVE  /\ SessionId(sh) \in Ids => session_to_ip[sh][SessionId(sh)] = NoIp
         /\ StreamableId(sh) \in Ids => session_to_ip[sh][StreamableId(sh)] = NoIp
<1>1. session_counter[sh] \in Nat /\ next_counter[sh] \in Nat
  BY BoundAssumption DEF TypeOK
<1>2. ~Issued(SessionId(sh)) /\ ~Issued(StreamableId(sh))
  BY <1>1 DEF Issued, SessionId, StreamableId
<1>. QED
  BY <1>2 DEF TrackedIssued

\* What a creation does to the sets of tracked ids.
LEMMA TrackedByAdd ==
  ASSUME TypeOK, NEW sh \in Shards, NEW id \in Ids, NEW ip \in Ips \cup {NoIp},
         session_to_ip[sh][id] = NoIp, AddSession(sh, id, ip)
  PROVE  /\ \A s \in Shards, i \in Ips :
              Tracked(s, i)' = IF s = sh /\ i = ip THEN Tracked(s, i) \cup {id}
                                                  ELSE Tracked(s, i)
         /\ \A s \in Shards, i \in Ips :
              ip_conn_count'[s][i] = IF s = sh /\ i = ip THEN ip_conn_count[s][i] + 1
                                                        ELSE ip_conn_count[s][i]
         /\ \A s \in Shards, j \in Ids :
              session_to_ip'[s][j] = IF s = sh /\ j = id THEN ip ELSE session_to_ip[s][j]
<1>1. \A s \in Shards, j \in Ids :
        session_to_ip'[s][j] = IF s = sh /\ j = id THEN ip ELSE session_to_ip[s][j]
  BY DEF AddSession, TrackIpConn, TypeOK
<1>2. \A s \in Shards, i \in Ips :
        ip_conn_count'[s][i] = IF s = sh /\ i = ip THEN ip_conn_count[s][i] + 1
                                                  ELSE ip_conn_count[s][i]
  BY NoIpAssumption DEF AddSession, TrackIpConn, TypeOK
<1>3. \A s \in Shards, i \in Ips :
        Tracked(s, i)' = IF s = sh /\ i = ip THEN Tracked(s, i) \cup {id} ELSE Tracked(s, i)
  <2> SUFFICES ASSUME NEW s \in Shards, NEW i \in Ips, NEW j
               PROVE  j \in Tracked(s, i)'
                        <=> j \in IF s = sh /\ i = ip THEN Tracked(s, i) \cup {id}
                                                      ELSE Tracked(s, i)
    OBVIOUS
  <2>. QED
    BY <1>1, NoIpAssumption DEF Tracked
<1>. QED
  BY <1>1, <1>2, <1>3

\* What a removal does to them.
LEMMA TrackedByRemove ==
  ASSUME TypeOK, NEW sh \in Shards, NEW id \in Ids, RemoveSession(sh, id)
  PROVE  /\ \A s \in Shards, i \in Ips :
              Tracked(s, i)' = IF s = sh THEN Tracked(s, i) \ {id} ELSE Tracked(s, i)
         /\ \A s \in Shards, i \in Ips :
              ip_conn_count'[s][i] =
                IF s = sh /\ i = session_to_ip[sh][id] /\ ip_conn_count[s][i] > 0
                THEN ip_conn_count[s][i] - 1 ELSE ip_conn_count[s][i]
         /\ \A s \in Shards, j \in Ids :
              session_to_ip'[s][j] = IF s = sh /\ j = id THEN NoIp ELSE session_to_ip[s][j]
<1>1. \A s \in Shards, j \in Ids :
        session_to_ip'[s][j] = IF s = sh /\ j = id THEN NoIp ELSE session_to_ip[s][j]
  BY DEF RemoveSession, TypeOK
<1>2. \A s \in Shards, i \in Ips :
        ip_conn_count'[s][i] =
          IF s = sh /\ i = session_to_ip[sh][id] /\ ip_conn_count[s][i] > 0
          THEN ip_conn_count[s][i] - 1 ELSE ip_conn_count[s][i]
  BY DEF RemoveSession, TypeOK
<1>3. \A s \in Shards, i \in Ips :
        Tracked(s, i)' = IF s = sh THEN Tracked(s, i) \ {id} ELSE Tracked(s, i)
  <2> SUFFICES ASSUME NEW s \in Shards, NEW i \in Ips, NEW j
               PROVE  j \in Tracked(s, i)'
                        <=> j \in IF s = sh THEN Tracked(s, i) \ {id} ELSE Tracked(s, i)
    OBVIOUS
  <2>. QED
    BY <1>1, NoIpAssumption DEF Tracked
<1>. QED
  BY <1>1, <1>2, <1>3

LEMMA CountInvByAdd ==
  ASSUME TypeOK, CountInv, NEW sh \in Shards, NEW id \in Ids, NEW ip \in Ips \cup {NoIp},
         session_to_ip[sh][id] = NoIp, AddSession(sh, id, ip)
  PROVE  TrackedFinite' /\ ConnCountExact'
<1> SUFFICES ASSUME NEW s \in Shards, NEW i \in Ips
             PROVE  /\ IsFiniteSet(Tracked(s, i)')
                    /\ ip_conn_count'[s][i] = Cardinality(Tracked(s, i)')
  BY DEF TrackedFinite, ConnCountExact
<1>1. IsFiniteSet(Tracked(s, i)) /\ ip_conn_count[s][i] = Cardinality(Tracked(s, i))
  BY DEF CountInv, TrackedFinite, ConnCountExact
<1>2. CASE s = sh /\ i = ip
  <2>1. Tracked(s, i)' = Tracked(s, i) \cup {id}
    BY <1>2, TrackedByAdd
  <2>2. id \notin Tracked(s, i)
    BY <1>2, NoIpAssumption DEF Tracked
  <2>3. ip_conn_count'[s][i] = ip_conn_count[s][i] + 1
    BY <1>2, TrackedByAdd
  <2>. QED
    BY <1>1, <2>1, <2>2, <2>3, FS_AddElement
<1>3. CASE ~(s = sh /\ i = ip)
  <2>1. Tracked(s, i)' = Tracked(s, i) /\ ip_conn_count'[s][i] = ip_conn_count[s][i]
    BY <1>3, TrackedByAdd
  <2>. QED
    BY <1>1, <2>1
<1>. QED
  BY <1>2, <1>3

\* A session that holds a slot gives exactly that one back; one that holds
\* none (it was closed before) gives nothing back.
LEMMA CountInvByRemove ==
  ASSUME TypeOK, CountInv, NEW sh \in Shards, NEW id \in Ids, RemoveSession(sh, id)
  PROVE  TrackedFinite' /\ ConnCountExact'
<1> SUFFICES ASSUME NEW s \in Shards, NEW i \in Ips
             PROVE  /\ IsFiniteSet(Tracked(s, i)')
                    /\ ip_conn_count'[s][i] = Cardinality(Tracked(s, i)')
  BY DEF TrackedFinite, ConnCountExact
<1>1. IsFiniteSet(Tracked(s, i)) /\ ip_conn_count[s][i] = Cardinality(Tracked(s, i))
  BY DEF CountInv, TrackedFinite, ConnCountExact
<1>2. CASE s = sh /\ i = session_to_ip[sh][id]
  <2>1. Tracked(s, i)' = Tracked(s, i) \ {id} /\ id \in Tracked(s, i)
    BY <1>2, TrackedByRemove DEF Tracked
  <2>2. /\ IsFiniteSet(Tracked(s, i) \ {id})
        /\ Cardinality(Tracked(s, i) \ {id}) = Cardinality(Tracked(s, i)) - 1
    BY <1>1, <2>1, FS_RemoveElement
  <2>3. Cardinality(Tracked(s, i)) \in Nat /\ Cardinality(Tracked(s, i) \ {id}) \in Nat
    BY <1>1, <2>2, FS_CardinalityType
  <2>4. ip_conn_count[s][i] > 0
    BY <1>1, <2>2, <2>3
  <2>5. ip_conn_count'[s][i] = ip_conn_count[s][i] - 1
    BY <1>2, <2>4, TrackedByRemove
  <2>. QED
    BY <1>1, <2>1, <2>2, <2>5
<1>3. CASE ~(s = sh /\ i = session_to_ip[sh][id])
  <2>1. s = sh => id \notin Tracked(s, i)
    BY <1>3 DEF Tracked
  <2>2. Tracked(s, i)' = Tracked(s, i)
    <3>1. CASE s = sh
      <4>1. Tracked(s, i)' = Tracked(s, i) \ {id}
        BY <3>1, TrackedByRemove
      <4>. QED
        BY <2>1, <3>1, <4>1
    <3>2. CASE s # sh
      BY <3>2, TrackedByRemove
    <3>. QED
      BY <3>1, <3>2
  <2>3. ip_conn_count'[s][i] = ip_conn_count[s][i]
    BY <1>3, TrackedByRemove
  <2>. QED
    BY <1>1, <2>2, <2>3
<1>. QED
  BY <1>2, <1>3

LEMMA TrackedIssuedStep ==
  ASSUME TypeOK, TrackedIssued, TableStep
  PROVE  TrackedIssued'
<1>1. ASSUME NEW id \in Ids, Issued(id),
             \A sh \in Shards : /\ session_counter'[sh] >= session_counter[sh]
                                /\ next_counter'[sh] >= next_counter[sh]
                                /\ session_counter[sh] \in Int /\ next_counter[sh] \in Int
                                /\ session_counter'[sh] \in Int /\ next_counter'[sh] \in Int
      PROVE  Issued(id)'
  <2>1. id.shard \in Shards /\ id.n \in Nat
    BY BoundAssumption DEF Ids
  <2>. QED
    BY <1>1, <2>1 DEF Issued
<1>2. \A sh \in Shards : session_counter[sh] \in Nat /\ next_counter[sh] \in Nat
  BY BoundAssumption DEF TypeOK
<1>3. CASE UNCHANGED <<counters, table>> \/ \E sh \in Shards : Cleared(sh)
  <2>1. UNCHANGED <<session_counter, next_counter, session_to_ip>>
    BY <1>3 DEF Cleared, counters, table
  <2>. QED
    BY <2>1 DEF TrackedIssued, Issued
<1>4. ASSUME NEW sh \in Shards, NEW ip \in Ips \cup {NoIp}, OpenedBySse(sh, ip)
      PROVE  TrackedIssued'
  <2>1. SessionId(sh) \in Ids /\ session_to_ip[sh][SessionId(sh)] = NoIp
    BY <1>4, NewIds, FreshIds DEF OpenedBySse
  <2>2. \A s \in Shards, j \in Ids :
          session_to_ip'[s][j] # NoIp
            => session_to_ip[s][j] # NoIp \/ (s = sh /\ j = SessionId(sh))
    BY <1>4, <2>1, TrackedByAdd DEF OpenedBySse
  <2>3. \A s \in Shards : /\ session_counter'[s] >= session_counter[s]
                          /\ next_counter'[s] >= next_counter[s]
                          /\ session_counter'[s] \in Int /\ next_counter'[s] \in Int
    BY <1>2, <1>4 DEF OpenedBySse, TypeOK
  <2>4. ASSUME NEW j \in Ids, j = SessionId(sh)
        PROVE  j.shard = sh /\ Issued(j)'
    BY <1>2, <1>4, <2>4 DEF OpenedBySse, SessionId, Issued, TypeOK
  <2>. QED
    BY <1>1, <1>2, <2>2, <2>3, <2>4 DEF TrackedIssued
<1>5. ASSUME NEW sh \in Shards, NEW ip \in Ips \cup {NoIp}, OpenedByPost(sh, ip)
      PROVE  TrackedIssued'
  <2>1. StreamableId(sh) \in Ids /\ session_to_ip[sh][StreamableId(sh)] = NoIp
    BY <1>5, NewIds, FreshIds DEF OpenedByPost
  <2>2. \A s \in Shards, j \in Ids :
          session_to_ip'[s][j] # NoIp
            => session_to_ip[s][j] # NoIp \/ (s = sh /\ j = StreamableId(sh))
    BY <1>5, <2>1, TrackedByAdd DEF OpenedByPost
  <2>3. \A s \in Shards : /\ session_counter'[s] >= session_counter[s]
                          /\ next_counter'[s] >= next_counter[s]
                          /\ session_counter'[s] \in Int /\ next_counter'[s] \in Int
    BY <1>2, <1>5 DEF OpenedByPost, TypeOK
  <2>4. ASSUME NEW j \in Ids, j = StreamableId(sh)
        PROVE  j.shard = sh /\ Issued(j)'
    BY <1>2, <1>5, <2>4 DEF OpenedByPost, StreamableId, Issued, TypeOK
  <2>. QED
    BY <1>1, <1>2, <2>2, <2>3, <2>4 DEF TrackedIssued
<1>6. ASSUME NEW sh \in Shards, NEW id \in Ids, Removed(sh, id)
      PROVE  TrackedIssued'
  <2>1. UNCHANGED <<session_counter, next_counter>>
    BY <1>6 DEF Removed, counters
  <2>2. \A s \in Shards, j \in Ids :
          session_to_ip'[s][j] # NoIp => session_to_ip[s][j] # NoIp
    BY <1>6, TrackedByRemove DEF Removed
  <2>. QED
    BY <2>1, <2>2 DEF TrackedIssued, Issued
<1>. QED
  BY <1>3, <1>4, <1>5, <1>6 DEF TableStep

LEMMA CountInvStep ==
  ASSUME TypeOK, CountInv, TableStep
  PROVE  CountInv'
<1>1. TrackedIssued'
  BY TrackedIssuedStep DEF CountInv
<1>2. TrackedFinite' /\ ConnCountExact'
  <2>1. CASE UNCHANGED <<counters, table>> \/ \E sh \in Shards : Cleared(sh)
    <3>1. UNCHANGED <<session_to_ip, ip_conn_count>>
      BY <2>1 DEF Cleared, table
    <3>. QED
      BY <3>1 DEF CountInv, TrackedFinite, ConnCountExact, Tracked
  <2>2. ASSUME NEW sh \in Shards, NEW ip \in Ips \cup {NoIp}, OpenedBySse(sh, ip)
        PROVE  TrackedFinite' /\ ConnCountExact'
    BY <2>2, NewIds, FreshIds, CountInvByAdd DEF OpenedBySse, CountInv
  <2>3. ASSUME NEW sh \in Shards, NEW ip \in Ips \cup {NoIp}, OpenedByPost(sh, ip)
        PROVE  TrackedFinite' /\ ConnCountExact'
    BY <2>3, NewIds, FreshIds, CountInvByAdd DEF OpenedByPost, CountInv
  <2>4. ASSUME NEW sh \in Shards, NEW id \in Ids, Removed(sh, id)
        PROVE  TrackedFinite' /\ ConnCountExact'
    BY <2>4, CountInvByRemove DEF Removed
  <2>. QED
    BY <2>1, <2>2, <2>3, <2>4 DEF TableStep
<1>. QED
  BY <1>1, <1>2 DEF CountInv

\* The count of each address is the number of sessions tracked for it, at all
\* times.
THEOREM ConnCountIsExact == Spec => []ConnCountExact
<1>1. Init => CountInv
  <2> SUFFICES ASSUME Init PROVE CountInv
    OBVIOUS
  <2>1. \A sh \in Shards, ip \in Ips : Tracked(sh, ip) = {} /\ ip_conn_count[sh][ip] = 0
    BY NoIpAssumption DEF Init, Tracked
  <2>2. TrackedIssued
    BY DEF Init, TrackedIssued
  <2>. QED
    BY <2>1, <2>2, FS_EmptySet DEF CountInv, TrackedFinite, ConnCountExact
<1>2. TypeOK /\ CountInv /\ [Next]_vars => CountInv'
  BY NextIsTableStep, CountInvStep
<1>3. CountInv => ConnCountExact
  BY DEF CountInv
<1>. QED
  BY <1>1, <1>2, <1>3, TypeCorrect, PTL DEF Spec

-----------------------------------------------------------------------------
(* The connection limits of GET /sse.  create_session compares the counts of *)
(* all sessions, so the count being exact bounds those of its own kind,      *)
(* whatever POST /mcp has added.                                             *)

SessionsFinite == \A sh \in Shards : IsFiniteSet(sessions[sh])

LimitInv == SessionsFinite /\ SseWithinLimits

LEMMA OpenedByGetBound ==
  ASSUME NEW ids, NEW id, NEW max \in Nat, IsFiniteSet(ids), Cardinality(ids) < max
  PROVE  Cardinality(OpenedByGet(ids \cup {id})) <= max
<1>0. Cardinality(ids) \in Nat
  BY FS_CardinalityType
<1>1. IsFiniteSet(ids \cup {id}) /\ Cardinality(ids \cup {id}) <= Cardinality(ids) + 1
  <2>1. /\ IsFiniteSet(ids \cup {id})
        /\ \/ Cardinality(ids \cup {id}) = Cardinality(ids)
           \/ Cardinality(ids \cup {id}) = Cardinality(ids) + 1
    BY FS_AddElement
  <2>. QED
    BY <1>0, <2>1
<1>2. OpenedByGet(ids \cup {id}) \subseteq ids \cup {id}
  BY DEF OpenedByGet
<1>3. /\ IsFiniteSet(OpenedByGet(ids \cup {id}))
      /\ Cardinality(OpenedByGet(ids \cup {id})) <= Cardinality(ids \cup {id})
  BY <1>1, <1>2, FS_Subset
<1>4. /\ Cardinality(ids) \in Nat
      /\ Cardinality(ids \cup {id}) \in Nat
      /\ Cardinality(OpenedByGet(ids \cup {id})) \in Nat
  BY <1>1, <1>3, FS_CardinalityType
<1>. QED
  BY <1>1, <1>3, <1>4

LEMMA OpenedByGetShrinks ==
  ASSUME NEW ids, NEW fewer, NEW max \in Nat, IsFiniteSet(ids), fewer \subseteq ids,
         Cardinality(OpenedByGet(ids)) <= max
  PROVE  Cardinality(OpenedByGet(fewer)) <= max
<1>1. IsFiniteSet(OpenedByGet(ids))
  BY FS_Subset DEF OpenedByGet
<1>2. OpenedByGet(fewer) \subseteq OpenedByGet(ids)
  BY DEF OpenedByGet
<1>3. /\ IsFiniteSet(OpenedByGet(fewer))
      /\ Cardinality(OpenedByGet(fewer)) <= Cardinality(OpenedByGet(ids))
  BY <1>1, <1>2, FS_Subset
<1>. QED
  BY <1>1, <1>3, FS_CardinalityType

LEMMA OpenedByGetIgnores ==
  ASSUME NEW ids, NEW id, id.kind # "s"
  PROVE  OpenedByGet(ids \cup {id}) = OpenedByGet(ids)
  BY DEF OpenedByGet

LEMMA SessionsFiniteStep ==
  ASSUME TypeOK, SessionsFinite, TableStep
  PROVE  SessionsFinite'
<1> SUFFICES ASSUME NEW s \in Shards PROVE IsFiniteSet(sessions'[s])
  BY DEF SessionsFinite
<1>1. IsFiniteSet(sessions[s])
  BY DEF SessionsFinite
<1>2. CASE UNCHANGED <<counters, table>>
  BY <1>1, <1>2 DEF table
<1>3. ASSUME NEW sh \in Shards, NEW ip \in Ips \cup {NoIp}, NEW id, AddSession(sh, id, ip)
      PROVE  IsFiniteSet(sessions'[s])
  <2>1. sessions'[s] \in {sessions[s], sessions[s] \cup {id}}
    BY <1>3 DEF AddSession, TypeOK
  <2>. QED
    BY <1>1, <2>1, FS_AddElement
<1>4. ASSUME NEW sh \in Shards, NEW id \in Ids, RemoveSession(sh, id)
      PROVE  IsFiniteSet(sessions'[s])
  <2>1. sessions'[s] \in {sessions[s], sessions[s] \ {id}}
    BY <1>4 DEF RemoveSession, TypeOK
  <2>. QED
    BY <1>1, <2>1, FS_RemoveElement
<1>5. ASSUME NEW sh \in Shards, Cleared(sh)
      PROVE  IsFiniteSet(sessions'[s])
  <2>1. sessions'[s] \in {sessions[s], {}}
    BY <1>5 DEF Cleared, TypeOK
  <2>. QED
    BY <1>1, <2>1, FS_EmptySet
<1>. QED
  BY <1>2, <1>3, <1>4, <1>5 DEF TableStep, OpenedBySse, OpenedByPost, Removed

LEMMA SseWithinLimitsStep ==
  ASSUME TypeOK, CountInv, LimitInv, TableStep
  PROVE  SseWithinLimits'
<1> SUFFICES ASSUME LimitEnabled, NEW s \in Shards
             PROVE  /\ \A i \in Ips : Cardinality(OpenedByGet(Tracked(s, i)')) <= MaxPerIp
                    /\ Cardinality(OpenedByGet(sessions'[s])) <= MaxTotal
  BY DEF SseWithinLimits, OpenedByGet
<1> USE LimitAssumption
<1>1. /\ IsFiniteSet(sessions[s])
      /\ Cardinality(OpenedByGet(sessions[s])) <= MaxTotal
      /\ \A i \in Ips : /\ IsFiniteSet(Tracked(s, i))
                        /\ ip_conn_count[s][i] = Cardinality(Tracked(s, i))
                        /\ Cardinality(OpenedByGet(Tracked(s, i))) <= MaxPerIp
  BY DEF LimitInv, SessionsFinite, SseWithinLimits, CountInv, TrackedFinite, ConnCountExact
<1>2. CASE UNCHANGED <<counters, table>>
  <2>1. sessions'[s] = sessions[s] /\ \A i \in Ips : Tracked(s, i)' = Tracked(s, i)
    BY <1>2 DEF table, Tracked
  <2>. QED
    BY <1>1, <2>1
<1>3. ASSUME NEW sh \in Shards, Cleared(sh)
      PROVE  /\ \A i \in Ips : Cardinality(OpenedByGet(Tracked(s, i)')) <= MaxPerIp
             /\ Cardinality(OpenedByGet(sessions'[s])) <= MaxTotal
  <2>1. sessions'[s] \subseteq sessions[s] /\ \A i \in Ips : Tracked(s, i)' = Tracked(s, i)
    BY <1>3 DEF Cleared, Tracked, TypeOK
  <2>. QED
    BY <1>1, <2>1, OpenedByGetShrinks
<1>4. ASSUME NEW sh \in Shards, NEW id \in Ids, Removed(sh, id)
      PROVE  /\ \A i \in Ips : Cardinality(OpenedByGet(Tracked(s, i)')) <= MaxPerIp
             /\ Cardinality(OpenedByGet(sessions'[s])) <= MaxTotal
  <2>1. sessions'[s] \subseteq sessions[s]
    BY <1>4 DEF Removed, RemoveSession, TypeOK
  <2>2. \A i \in Ips : Tracked(s, i)' \subseteq Tracked(s, i)
    BY <1>4, TrackedByRemove DEF Removed
  <2>. QED
    BY <1>1, <2>1, <2>2, OpenedByGetShrinks
<1>5. ASSUME NEW sh \in Shards, NEW ip \in Ips \cup {NoIp}, OpenedBySse(sh, ip)
      PROVE  /\ \A i \in Ips : Cardinality(OpenedByGet(Tracked(s, i)')) <= MaxPerIp
             /\ Cardinality(OpenedByGet(sessions'[s])) <= MaxTotal
  <2>1. SessionId(sh) \in Ids /\ session_to_ip[sh][SessionId(sh)] = NoIp
    BY <1>5, NewIds, FreshIds DEF OpenedBySse, CountInv
  <2>2. CASE s # sh
    <3>1. sessions'[s] = sessions[s]
      BY <1>5, <2>2 DEF OpenedBySse, AddSession, TypeOK
    <3>2. \A i \in Ips : Tracked(s, i)' = Tracked(s, i)
      BY <1>5, <2>1, <2>2, TrackedByAdd DEF OpenedBySse
    <3>. QED
      BY <1>1, <3>1, <3>2
  <2>3. CASE s = sh
    <3>1. sessions'[s] = sessions[s] \cup {SessionId(sh)} /\ Cardinality(sessions[s]) < MaxTotal
      BY <1>5, <2>3 DEF OpenedBySse, AddSession, WithinLimits, TypeOK
    <3>2. Cardinality(OpenedByGet(sessions'[s])) <= MaxTotal
      BY <1>1, <3>1, OpenedByGetBound
    <3>3. ASSUME NEW i \in Ips
          PROVE  Cardinality(OpenedByGet(Tracked(s, i)')) <= MaxPerIp
      <4>1. CASE i = ip
        <5>1. Tracked(s, i)' = Tracked(s, i) \cup {SessionId(sh)}
          BY <1>5, <2>1, <2>3, <4>1, TrackedByAdd DEF OpenedBySse
        <5>2. Cardinality(Tracked(s, i)) < MaxPerIp
          BY <1>1, <1>5, <2>3, <4>1, NoIpAssumption DEF OpenedBySse, WithinLimits
        <5>. QED
          BY <1>1, <5>1, <5>2, OpenedByGetBound
      <4>2. CASE i # ip
        <5>1. Tracked(s, i)' = Tracked(s, i)
          BY <1>5, <2>1, <4>2, TrackedByAdd DEF OpenedBySse
        <5>. QED
          BY <1>1, <5>1
      <4>. QED
        BY <4>1, <4>2
    <3>. QED
      BY <3>2, <3>3
  <2>. QED
    BY <2>2, <2>3
<1>6. ASSUME NEW sh \in Shards, NEW ip \in Ips \cup {NoIp}, OpenedByPost(sh, ip)
      PROVE  /\ \A i \in Ips : Cardinality(OpenedByGet(Tracked(s, i)')) <= MaxPerIp
             /\ Cardinality(OpenedByGet(sessions'[s])) <= MaxTotal
  <2>1. /\ StreamableId(sh) \in Ids /\ session_to_ip[sh][StreamableId(sh)] = NoIp
        /\ StreamableId(sh).kind # "s"
    BY <1>6, NewIds, FreshIds DEF OpenedByPost, CountInv, StreamableId
  <2>2. sessions'[s] \in {sessions[s], sessions[s] \cup {StreamableId(sh)}}
    BY <1>6 DEF OpenedByPost, AddSession, TypeOK
  <2>3. \A i \in Ips : Tracked(s, i)' \in {Tracked(s, i), Tracked(s, i) \cup {StreamableId(sh)}}
    BY <1>6, <2>1, TrackedByAdd DEF OpenedByPost
  <2>. QED
    BY <1>1, <2>1, <2>2, <2>3, OpenedByGetIgnores
<1>. QED
  BY <1>2, <1>3, <1>4, <1>5, <1>6 DEF TableStep

\* GET /sse keeps within max_per_ip and max_total on every shard, for its own
\* sessions, in the presence of every other request.
THEOREM SseKeepsLimits == Spec => []SseWithinLimits
<1> DEFINE Inv == CountInv /\ LimitInv
<1>1. Init => Inv
  <2> SUFFICES ASSUME Init PROVE Inv
    OBVIOUS
  <2>1. \A sh \in Shards, ip \in Ips : Tracked(sh, ip) = {} /\ ip_conn_count[sh][ip] = 0
    BY NoIpAssumption DEF Init, Tracked
  <2>2. TrackedIssued
    BY DEF Init, TrackedIssued
  <2>3. \A sh \in Shards : sessions[sh] = {}
    BY DEF Init
  <2>4. OpenedByGet({}) = {}
    BY DEF OpenedByGet
  <2>5. CountInv /\ SessionsFinite
    BY <2>1, <2>2, <2>3, FS_EmptySet
       DEF CountInv, TrackedFinite, ConnCountExact, SessionsFinite
  <2>6. Cardinality(OpenedByGet({})) = 0
    BY <2>4, FS_EmptySet
  <2>7. SseWithinLimits
    <3> SUFFICES ASSUME NEW sh \in Shards
                 PROVE  /\ \A ip \in Ips : Cardinality(OpenedByGet(Tracked(sh, ip))) <= MaxPerIp
                        /\ Cardinality(OpenedByGet(sessions[sh])) <= MaxTotal
      BY DEF SseWithinLimits
    <3>1. ASSUME NEW ip \in Ips
          PROVE  Cardinality(OpenedByGet(Tracked(sh, ip))) <= MaxPerIp
      <4>1. Tracked(sh, ip) = {}
        BY <2>1
      <4>. QED
        BY <2>6, <4>1, LimitAssumption
    <3>2. Cardinality(OpenedByGet(sessions[sh])) <= MaxTotal
      BY <2>3, <2>6, LimitAssumption
    <3>. QED
      BY <3>1, <3>2
  <2>. QED
    BY <2>5, <2>7 DEF LimitInv
<1>2. TypeOK /\ Inv /\ [Next]_vars => Inv'
  BY NextIsTableStep, CountInvStep, SessionsFiniteStep, SseWithinLimitsStep DEF LimitInv
<1>3. Inv => SseWithinLimits
  BY DEF LimitInv
<1>. QED
  BY <1>1, <1>2, <1>3, TypeCorrect, PTL DEF Spec

-----------------------------------------------------------------------------
(* What is tracked is in the table, and ids are not used again. *)

LEMMA StoppedStay == [Next]_vars => stopped \subseteq stopped'
<1> SUFFICES ASSUME [Next]_vars PROVE stopped \subseteq stopped'
  OBVIOUS
<1>1. ASSUME NEW id \in Ids, NEW r \in Roles, StreamStep(id, r)
      PROVE  UNCHANGED stopped
  BY <1>1 DEF StreamStep, StreamTakes, StreamWaits, StreamFindsClosed, StreamResumes,
     StreamFails, control
<1>2. CASE \E sh \in Shards : ShardStop(sh)
  BY <1>2 DEF ShardStop
<1>3. CASE UNCHANGED vars
  BY <1>3 DEF vars, control
<1>. QED
  BY <1>1, <1>2, <1>3 DEF Next, HandleSse, HandlePost, DispatchAsks, DispatchReturns,
     DispatchThrows, HandleGet, DeleteArrives, Disconnect, HandleDelete, PushToSessions, BeginStop,
     SseStopped, StreamableStopped, control

\* A creation adds to table and tracking, a removal takes from both, and a
\* table is emptied only when its shard stops.
LEMMA TrackedAreOpenStep ==
  ASSUME TypeOK, TrackedIssued, TrackedAreOpen, TableStep, stopped \subseteq stopped'
  PROVE  TrackedAreOpen'
<1> SUFFICES ASSUME NEW s \in Shards, s \notin stopped', NEW i \in Ips
             PROVE  Tracked(s, i)' \subseteq sessions'[s]
  BY DEF TrackedAreOpen
<1>1. Tracked(s, i) \subseteq sessions[s]
  BY DEF TrackedAreOpen
<1>2. CASE UNCHANGED <<counters, table>>
  BY <1>1, <1>2 DEF table, Tracked
<1>3. ASSUME NEW sh \in Shards, Cleared(sh)
      PROVE  Tracked(s, i)' \subseteq sessions'[s]
  <2>1. s # sh /\ sessions'[s] = sessions[s] /\ Tracked(s, i)' = Tracked(s, i)
    BY <1>3 DEF Cleared, Tracked, TypeOK
  <2>. QED
    BY <1>1, <2>1
<1>4. ASSUME NEW sh \in Shards, NEW ip \in Ips \cup {NoIp}, NEW id \in Ids,
             session_to_ip[sh][id] = NoIp, AddSession(sh, id, ip)
      PROVE  Tracked(s, i)' \subseteq sessions'[s]
  <2>1. Tracked(s, i)' = IF s = sh /\ i = ip THEN Tracked(s, i) \cup {id} ELSE Tracked(s, i)
    BY <1>4, TrackedByAdd
  <2>2. sessions'[s] = IF s = sh THEN sessions[s] \cup {id} ELSE sessions[s]
    BY <1>4 DEF AddSession, TypeOK
  <2>. QED
    BY <1>1, <2>1, <2>2
<1>5. ASSUME NEW sh \in Shards, NEW id \in Ids, Removed(sh, id)
      PROVE  Tracked(s, i)' \subseteq sessions'[s]
  <2>1. Tracked(s, i)' = IF s = sh THEN Tracked(s, i) \ {id} ELSE Tracked(s, i)
    BY <1>5, TrackedByRemove DEF Removed
  <2>2. sessions'[s] = IF s = sh THEN sessions[s] \ {id} ELSE sessions[s]
    BY <1>5 DEF Removed, RemoveSession, TypeOK
  <2>. QED
    BY <1>1, <2>1, <2>2
<1>. QED
  BY <1>2, <1>3, <1>4, <1>5, NewIds, FreshIds DEF TableStep, OpenedBySse, OpenedByPost

\* On a shard that runs, nothing holds a slot of the connection limit after its
\* session is gone.
THEOREM TrackedStayOpen == Spec => []TrackedAreOpen
<1> DEFINE Inv == TrackedIssued /\ TrackedAreOpen
<1>1. Init => Inv
  <2> SUFFICES ASSUME Init PROVE Inv
    OBVIOUS
  <2>1. \A sh \in Shards, ip \in Ips : Tracked(sh, ip) = {}
    BY NoIpAssumption DEF Init, Tracked
  <2>2. TrackedIssued
    BY DEF Init, TrackedIssued
  <2>. QED
    BY <2>1, <2>2 DEF TrackedAreOpen
<1>2. TypeOK /\ Inv /\ [Next]_vars => Inv'
  BY NextIsTableStep, StoppedStay, TrackedIssuedStep, TrackedAreOpenStep
<1>. QED
  BY <1>1, <1>2, TypeCorrect, PTL DEF Spec

\* The slots of the connection limit are those of the open sessions.
THEOREM ConnSlotsAreExact == Spec => []ConnSlotsExact
  BY ConnCountIsExact, TrackedStayOpen, PTL DEF ConnSlotsExact

LEMMA UnissuedIds ==
  ASSUME TypeOK, NEW sh \in Shards
  PROVE  ~Issued(SessionId(sh)) /\ ~Issued(StreamableId(sh))
<1>1. session_counter[sh] \in Nat /\ next_counter[sh] \in Nat
  BY BoundAssumption DEF TypeOK
<1>. QED
  BY <1>1 DEF Issued, SessionId, StreamableId

\* Who becomes active has just been issued.
LEMMA OnlyNewBecomeActive ==
  ASSUME [Next]_vars
  PROVE  \/ active' \subseteq active
         \/ \E sh \in Shards : active' \in {active \cup {SessionId(sh)},
                                            active \cup {StreamableId(sh)}}
<1>1. ASSUME NEW sh \in Shards, NEW ip \in Ips \cup {NoIp}, HandleSse(sh, ip) \/ HandlePost(sh, ip)
      PROVE  active' \in {active \cup {SessionId(sh)}, active \cup {StreamableId(sh)}}
  BY <1>1 DEF HandleSse, HandlePost, AddSession
<1>2. ASSUME NEW id \in Ids, NEW r \in Roles, StreamStep(id, r)
      PROVE  active' \subseteq active
  BY <1>2 DEF StreamStep, StreamTakes, StreamWaits, StreamFindsClosed, StreamResumes, StreamFails
<1>3. ASSUME NEW id \in Ids, CloseSession(id)
      PROVE  active' \subseteq active
  BY <1>3 DEF CloseSession
<1>4. ASSUME NEW sh \in Shards, NEW id \in Ids, HandleDelete(sh, id)
      PROVE  active' \subseteq active
  BY <1>3, <1>4 DEF HandleDelete
<1>5. ASSUME NEW id \in Ids, DeleteArrives(id)
      PROVE  active' \subseteq active
  BY <1>3, <1>5 DEF DeleteArrives
<1>6. CASE UNCHANGED vars
  BY <1>6 DEF vars
<1>. QED
  BY <1>1, <1>2, <1>4, <1>5, <1>6 DEF Next, DispatchAsks, DispatchReturns, DispatchThrows, HandleGet,
     Disconnect, BeginStop, SseStopped, StreamableStopped, ShardStop, PushToSessions

\* An id is issued once: a late push, DELETE or exit never meets another
\* session under it.
THEOREM IdsAreNotReused == Spec => NoIdReuse
<1>1. TypeOK /\ [Next]_vars => [\A id \in active' \ active : ~Issued(id)]_vars
  BY OnlyNewBecomeActive, UnissuedIds
<1>. QED
  BY <1>1, TypeCorrect, PTL DEF Spec, NoIdReuse

-----------------------------------------------------------------------------
(* Sessions that are read by one coroutine: those nobody sent GET /mcp for. *)

\* The wake-up of the one reader finds the message that caused it.
OneReader ==
    \A id \in Ids :
        \/ Reconnected(id)
        \/ /\ pc[id]["creator"] # "broken"
           /\ pc[id]["creator"] = "ready" => queued[id] > 0

LEMMA PushOneReader ==
  ASSUME TypeOK, OneReader, NEW ids, PushOnto(ids)
  PROVE  OneReader'
<1> SUFFICES ASSUME NEW id \in Ids, ~Reconnected(id)'
             PROVE  /\ pc'[id]["creator"] # "broken"
                    /\ pc'[id]["creator"] = "ready" => queued'[id] > 0
  BY DEF OneReader
<1>1. "creator" \in Roles /\ "reconnect" \in Roles
  BY DEF Roles
<1>2. queued[id] \in 0..MaxQueued /\ MaxQueued \in Nat \ {0}
  BY BoundAssumption DEF TypeOK
<1>3. ~Reconnected(id)
  BY <1>1 DEF PushOnto, Reconnected
<1>4. /\ pc'[id]["creator"] # "broken"
      /\ pc'[id]["creator"] = "ready" => pc[id]["creator"] = "ready" \/ id \in ids
  BY <1>1, <1>3 DEF PushOnto, OneReader
<1>5. queued[id] > 0 \/ id \in ids => queued'[id] > 0
  BY <1>2 DEF PushOnto
<1>. QED
  BY <1>3, <1>4, <1>5 DEF OneReader

\* A step that concerns one session.
OnlyAt(id) ==
    \A other \in Ids : other # id => pc'[other] = pc[other] /\ queued'[other] = queued[other]

LEMMA OneReaderAt ==
  ASSUME OneReader, NEW id \in Ids, OnlyAt(id),
         \/ Reconnected(id)'
         \/ pc'[id]["creator"] \notin {"ready", "broken"}
  PROVE  OneReader'
  BY DEF OnlyAt, OneReader, Reconnected

\* A stream's step concerns its session; the one of a GET /mcp has been sent.
LEMMA StreamStepAt ==
  ASSUME TypeOK, NEW id \in Ids, NEW r \in Roles, StreamStep(id, r)
  PROVE  /\ OnlyAt(id)
         /\ Reconnected(id) => Reconnected(id)'
         /\ r # "creator" => Reconnected(id)
         /\ r = "creator" => pc'[id]["creator"] \in {"writing", "waiting", "done"}
<1> USE DEF TypeOK, Roles
<1>1. r # "creator" => Reconnected(id)
  BY DEF StreamStep, StreamTakes, StreamWaits, StreamFindsClosed, StreamResumes,
     StreamFails, AtLoopTop, Writes, Reconnected
<1>2. CASE StreamWaits(id, r)
  BY <1>1, <1>2 DEF StreamWaits, OnlyAt, Reconnected
<1>3. CASE ~StreamWaits(id, r)
  <2>1. PICK p \in {"writing", "done"} : pc' = [pc EXCEPT ![id][r] = p]
    BY <1>3 DEF StreamStep, StreamTakes, StreamFindsClosed, StreamResumes, StreamFails, LeaveLoop
  <2>2. \A other \in Ids : other # id => queued'[other] = queued[other]
    BY <1>3 DEF StreamStep, StreamTakes, StreamFindsClosed, StreamResumes, StreamFails
  <2>. QED
    BY <1>1, <2>1, <2>2 DEF OnlyAt, Reconnected
<1>. QED
  BY <1>2, <1>3

\* The steps of a request that opens a stream.
LEMMA OpenAt ==
  ASSUME TypeOK, NEW sh \in Shards, NEW ip \in Ips \cup {NoIp},
         HandleSse(sh, ip) \/ HandlePost(sh, ip)
  PROVE  \E id \in Ids : /\ OnlyAt(id)
                         /\ pc'[id]["creator"] \in {"opening", "dispatching"}
                         /\ active \subseteq active'
<1>1. ASSUME NEW id \in Ids, NEW p \in {"opening", "dispatching"}, AddSession(sh, id, ip),
             pc' = [pc EXCEPT ![id]["creator"] = p]
      PROVE  /\ OnlyAt(id)
             /\ pc'[id]["creator"] \in {"opening", "dispatching"}
             /\ active \subseteq active'
  BY <1>1 DEF AddSession, OnlyAt, TypeOK, Roles
<1>2. CASE HandleSse(sh, ip)
  <2>1. SessionId(sh) \in Ids
    BY <1>2, NewIds DEF HandleSse
  <2>. QED
    BY <1>1, <1>2, <2>1 DEF HandleSse
<1>3. CASE HandlePost(sh, ip)
  <2>1. StreamableId(sh) \in Ids
    BY <1>3, NewIds DEF HandlePost
  <2>. QED
    BY <1>1, <1>3, <2>1 DEF HandlePost
<1>. QED
  BY <1>2, <1>3

LEMMA DispatchAt ==
  ASSUME TypeOK, NEW id \in Ids, DispatchAsks(id) \/ DispatchReturns(id) \/ DispatchThrows(id)
  PROVE  /\ OnlyAt(id)
         /\ pc'[id]["creator"] \in {"asking", "opening", "lost"}
         /\ UNCHANGED <<active, sessions>>
<1> USE DEF TypeOK, Roles, OnlyAt, table
<1>1. CASE DispatchAsks(id) \/ DispatchThrows(id)
  <2>1. PICK p \in {"asking", "lost"} : pc' = [pc EXCEPT ![id]["creator"] = p]
    BY <1>1 DEF DispatchAsks, DispatchThrows
  <2>2. UNCHANGED <<active, queued, sessions>>
    BY <1>1 DEF DispatchAsks, DispatchThrows
  <2>. QED
    BY <2>1, <2>2
<1>2. CASE DispatchReturns(id)
  <2>1. PICK answered \in BOOLEAN :
          /\ queued' = [queued EXCEPT ![id] = IF answered /\ @ < MaxQueued THEN @ + 1 ELSE @]
          /\ pc' = [pc EXCEPT ![id] =
                      [creator   |-> "opening",
                       reconnect |-> IF answered /\ @["reconnect"] = "waiting"
                                     THEN "ready" ELSE @["reconnect"]]]
    BY <1>2 DEF DispatchReturns
  <2>. QED
    BY <1>2, <2>1 DEF DispatchReturns
<1>. QED
  BY <1>1, <1>2

LEMMA GetAt ==
  ASSUME TypeOK, NEW id \in Ids, HandleGet(id)
  PROVE  OnlyAt(id) /\ Reconnected(id)' /\ UNCHANGED <<active, sessions>>
  BY DEF HandleGet, TypeOK, Roles, OnlyAt, Reconnected, table

LEMMA StepOneReader ==
  ASSUME TypeOK, OneReader, [Next]_vars
  PROVE  OneReader'
<1>1. ASSUME NEW sh \in Shards, NEW ip \in Ips \cup {NoIp}, HandleSse(sh, ip) \/ HandlePost(sh, ip)
      PROVE  OneReader'
  BY <1>1, OpenAt, OneReaderAt
<1>2. ASSUME NEW id \in Ids, DispatchAsks(id) \/ DispatchReturns(id) \/ DispatchThrows(id)
      PROVE  OneReader'
  BY <1>2, DispatchAt, OneReaderAt
<1>3. ASSUME NEW id \in Ids, HandleGet(id)
      PROVE  OneReader'
  BY <1>3, GetAt, OneReaderAt
<1>4. ASSUME NEW id \in Ids, NEW r \in Roles, StreamStep(id, r)
      PROVE  OneReader'
  BY <1>4, StreamStepAt, OneReaderAt
<1>5. ASSUME UNCHANGED <<pc, queued>>
      PROVE  OneReader'
  BY <1>5 DEF OneReader, Reconnected
<1>6. ASSUME NEW id \in Ids, CloseSession(id)
      PROVE  OneReader'
  BY <1>5, <1>6, PushOneReader DEF CloseSession
<1>7. ASSUME NEW id \in Ids, DeleteArrives(id) \/ \E sh \in Shards : HandleDelete(sh, id)
      PROVE  OneReader'
  BY <1>5, <1>6, <1>7 DEF DeleteArrives, HandleDelete
<1>8. ASSUME NEW sh \in Shards, NEW ids, ShardStop(sh) \/ PushToSessions(sh, ids)
      PROVE  OneReader'
  BY <1>8, PushOneReader DEF ShardStop, PushToSessions
<1>9. CASE \/ \E id \in Ids, r \in Roles : Disconnect(id, r)
           \/ BeginStop \/ SseStopped \/ StreamableStopped \/ UNCHANGED vars
  BY <1>5, <1>9 DEF Disconnect, BeginStop, SseStopped, StreamableStopped, vars
<1>. QED
  BY <1>1, <1>2, <1>3, <1>4, <1>7, <1>8, <1>9 DEF Next

LEMMA InitOneReader == Init => OneReader
  BY DEF Init, OneReader, Roles

\* Nobody takes a GET /mcp back.
LEMMA ReconnectedStay ==
  ASSUME TypeOK, [Next]_vars, NEW x \in Ids, Reconnected(x)
  PROVE  Reconnected(x)'
<1>0. "creator" \in Roles /\ "reconnect" \in Roles /\ pc \in [Ids -> [Roles -> Pcs]]
  BY DEF TypeOK, Roles
<1>1. ASSUME NEW id \in Ids, NEW p, pc' = [pc EXCEPT ![id]["creator"] = p]
      PROVE  Reconnected(x)'
  BY <1>0, <1>1 DEF Reconnected
<1>2. ASSUME NEW sh \in Shards, NEW ip \in Ips \cup {NoIp}, HandleSse(sh, ip) \/ HandlePost(sh, ip)
      PROVE  Reconnected(x)'
  <2>1. SessionId(sh) \in Ids /\ StreamableId(sh) \in Ids
    BY <1>2, NewIds DEF HandleSse, HandlePost
  <2>. QED
    BY <1>1, <1>2, <2>1 DEF HandleSse, HandlePost
<1>3. ASSUME NEW id \in Ids,
             DispatchAsks(id) \/ DispatchReturns(id) \/ DispatchThrows(id) \/ HandleGet(id)
      PROVE  Reconnected(x)'
  <2>1. CASE DispatchAsks(id) \/ DispatchThrows(id)
    BY <1>1, <2>1 DEF DispatchAsks, DispatchThrows
  <2>2. CASE DispatchReturns(id)
    <3>1. PICK answered \in BOOLEAN :
            pc' = [pc EXCEPT ![id] =
                     [creator   |-> "opening",
                      reconnect |-> IF answered /\ @["reconnect"] = "waiting"
                                    THEN "ready" ELSE @["reconnect"]]]
      BY <2>2 DEF DispatchReturns
    <3>2. x # id => pc'[x] = pc[x]
      BY <1>0, <3>1
    <3>3. pc'[id]["reconnect"] \in {"ready", pc[id]["reconnect"]}
      BY <1>0, <3>1
    <3>. QED
      BY <3>2, <3>3 DEF Reconnected
  <2>3. CASE HandleGet(id)
    BY <2>3, GetAt DEF OnlyAt, Reconnected
  <2>. QED
    BY <1>3, <2>1, <2>2, <2>3
<1>4. ASSUME NEW id \in Ids, NEW r \in Roles, StreamStep(id, r)
      PROVE  Reconnected(x)'
  <2>1. OnlyAt(id) /\ (Reconnected(id) => Reconnected(id)')
    BY <1>4, StreamStepAt
  <2>. QED
    BY <2>1 DEF OnlyAt, Reconnected
<1>5. ASSUME NEW ids, PushOnto(ids)
      PROVE  Reconnected(x)'
  BY <1>0, <1>5 DEF PushOnto, Reconnected
<1>6. ASSUME UNCHANGED pc
      PROVE  Reconnected(x)'
  BY <1>6 DEF Reconnected
<1>7. ASSUME NEW id \in Ids, DeleteArrives(id) \/ \E sh \in Shards : HandleDelete(sh, id)
      PROVE  Reconnected(x)'
  BY <1>5, <1>6, <1>7 DEF DeleteArrives, HandleDelete, CloseSession
<1>8. ASSUME NEW sh \in Shards, NEW ids, ShardStop(sh) \/ PushToSessions(sh, ids)
      PROVE  Reconnected(x)'
  BY <1>5, <1>8 DEF ShardStop, PushToSessions
<1>9. CASE \/ \E id \in Ids, r \in Roles : Disconnect(id, r)
           \/ BeginStop \/ SseStopped \/ StreamableStopped \/ UNCHANGED vars
  BY <1>6, <1>9 DEF Disconnect, BeginStop, SseStopped, StreamableStopped, vars
<1>. QED
  BY <1>2, <1>3, <1>4, <1>7, <1>8, <1>9 DEF Next

LEMMA RemoveEnds ==
  ASSUME TypeOK, NEW id \in Ids, RemoveSession(id.shard, id),
         NEW sh \in Shards, NEW x \in sessions[sh] \ sessions'[sh]
  PROVE  x = id /\ sh = id.shard
  BY DEF RemoveSession, TypeOK

\* A live session nobody reconnected to that leaves its table does so for a
\* reason of its own, and is then no longer live.
LEMMA StepEnds ==
  ASSUME TypeOK, OneReader, [Next]_vars, NEW sh \in Shards,
         NEW x \in (sessions[sh] \ sessions'[sh]) \cap active, ~Reconnected(x)
  PROVE  EndsForAReason(sh, x) /\ x \notin active'
<1>0. x \in Ids
  BY DEF TypeOK
<1>1. ASSUME NEW id \in Ids, NEW r \in Roles, StreamStep(id, r)
      PROVE  EndsForAReason(sh, x) /\ x \notin active'
  <2>1. CASE StreamTakes(id, r) \/ StreamWaits(id, r)
    BY <2>1 DEF StreamTakes, StreamWaits, table
  <2>2. CASE StreamFindsClosed(id, r)
    BY <2>2, RemoveEnds DEF StreamFindsClosed, LeaveLoop
  <2>3. CASE StreamResumes(id, r)
    <3>1. CASE LeaveLoop(id, r)
      <4>1. x = id
        BY <3>1, RemoveEnds DEF LeaveLoop
      <4>2. r = "creator"
        BY <1>1, <4>1, StreamStepAt
      <4>3. queued[id] > 0 /\ queued[id] # 0
        BY <1>0, <2>3, <4>1, <4>2 DEF StreamResumes, OneReader
      <4>. QED
        BY <2>3, <3>1, <4>1, <4>3 DEF StreamResumes, LeaveLoop, TypeOK
    <3>2. CASE UNCHANGED table
      BY <3>2 DEF table
    <3>. QED
      BY <2>3, <3>1, <3>2 DEF StreamResumes
  <2>4. CASE StreamFails(id, r)
    <3>1. x = id
      BY <2>4, RemoveEnds DEF StreamFails, LeaveLoop
    <3>2. r = "creator"
      BY <1>1, <3>1, StreamStepAt
    <3>3. <<id, r>> \in gone
      BY <1>0, <2>4, <3>1, <3>2 DEF StreamFails, OneReader
    <3>. QED
      BY <2>4, <3>1, <3>3 DEF StreamFails, EndsForAReason
  <2>. QED
    BY <1>1, <2>1, <2>2, <2>3, <2>4 DEF StreamStep
<1>2. ASSUME NEW id \in Ids, CloseSession(id)
      PROVE  x = id /\ sh = id.shard /\ x \notin active'
  <2>1. x = id /\ sh = id.shard
    BY <1>2, RemoveEnds DEF CloseSession
  <2>. QED
    BY <1>2, <2>1 DEF CloseSession
<1>3. ASSUME NEW id \in Ids, DeleteArrives(id)
      PROVE  EndsForAReason(sh, x) /\ x \notin active'
  BY <1>2, <1>3 DEF DeleteArrives, EndsForAReason
<1>4. ASSUME NEW s \in Shards, NEW id \in Ids, HandleDelete(s, id)
      PROVE  EndsForAReason(sh, x) /\ x \notin active'
  <2>1. s = id.shard /\ CloseSession(id)
    BY <1>4 DEF HandleDelete, table
  <2>. QED
    BY <1>2, <1>4, <2>1 DEF EndsForAReason
<1>5. ASSUME NEW s \in Shards, ShardStop(s)
      PROVE  EndsForAReason(sh, x) /\ x \notin active'
  <2>1. s = sh
    BY <1>5 DEF ShardStop, TypeOK
  <2>. QED
    BY <1>5, <2>1 DEF ShardStop, EndsForAReason
<1>6. ASSUME NEW s \in Shards, NEW ip \in Ips \cup {NoIp}, HandleSse(s, ip) \/ HandlePost(s, ip)
      PROVE  FALSE
  <2>1. PICK id : sessions' = [sessions EXCEPT ![s] = @ \cup {id}]
    BY <1>6 DEF HandleSse, HandlePost, AddSession
  <2>. QED
    BY <2>1 DEF TypeOK
<1>7. ASSUME UNCHANGED table
      PROVE  FALSE
  BY <1>7 DEF table
<1>8. CASE UNCHANGED vars
  BY <1>7, <1>8 DEF vars, table
<1>. QED
  BY <1>1, <1>3, <1>4, <1>5, <1>6, <1>7, <1>8 DEF Next, DispatchAsks, DispatchReturns,
     DispatchThrows, HandleGet, Disconnect, BeginStop, SseStopped, StreamableStopped,
     PushToSessions

\* A new session is in its table from the step that makes it active.
LEMMA NewAreInTable ==
  ASSUME TypeOK, [Next]_vars, NEW x \in active' \ active
  PROVE  x \in sessions'[x.shard]
<1>1. ASSUME NEW sh \in Shards, NEW ip \in Ips \cup {NoIp}, HandleSse(sh, ip)
      PROVE  x \in sessions'[x.shard]
  <2>0. active' = active \cup {SessionId(sh)}
    BY <1>1 DEF HandleSse, AddSession
  <2>1. x = SessionId(sh) /\ x.shard = sh
    BY <2>0 DEF SessionId
  <2>. QED
    BY <1>1, <2>1 DEF HandleSse, AddSession, TypeOK
<1>2. ASSUME NEW sh \in Shards, NEW ip \in Ips \cup {NoIp}, HandlePost(sh, ip)
      PROVE  x \in sessions'[x.shard]
  <2>0. active' = active \cup {StreamableId(sh)}
    BY <1>2 DEF HandlePost, AddSession
  <2>1. x = StreamableId(sh) /\ x.shard = sh
    BY <2>0 DEF StreamableId
  <2>. QED
    BY <1>2, <2>1 DEF HandlePost, AddSession, TypeOK
<1>3. ASSUME NEW id \in Ids, CloseSession(id)
      PROVE  FALSE
  BY <1>3 DEF CloseSession
<1>4. ASSUME NEW id \in Ids, NEW r \in Roles, StreamStep(id, r)
      PROVE  FALSE
  BY <1>4 DEF StreamStep, StreamTakes, StreamWaits, StreamFindsClosed, StreamResumes, StreamFails
<1>5. CASE UNCHANGED vars
  BY <1>5 DEF vars
<1>. QED
  BY <1>1, <1>2, <1>3, <1>4, <1>5 DEF Next, DispatchAsks, DispatchReturns, DispatchThrows, HandleGet,
     DeleteArrives, HandleDelete, Disconnect, BeginStop, SseStopped, StreamableStopped,
     ShardStop, PushToSessions

\* A live session is where pushes, DELETE and stop look for it, unless a GET
\* /mcp gave its queue a second reader.
THEOREM ActiveAreInTable == Spec => []ActiveInTable
<1> DEFINE Inv == OneReader /\ ActiveInTable
<1>1. Init => Inv
  BY InitOneReader DEF Init, ActiveInTable
<1>2. TypeOK /\ Inv /\ [Next]_vars => Inv'
  <2> SUFFICES ASSUME TypeOK, Inv, [Next]_vars PROVE ActiveInTable'
    BY StepOneReader
  <2> SUFFICES ASSUME NEW x \in active', ~Reconnected(x)' PROVE x \in sessions'[x.shard]
    BY DEF ActiveInTable
  <2>1. CASE x \in active
    <3>1. x \in Ids /\ x.shard \in Shards
      BY <2>1 DEF TypeOK, Ids
    <3>2. ~Reconnected(x)
      BY <3>1, ReconnectedStay
    <3>3. x \in sessions[x.shard]
      BY <2>1, <3>2 DEF ActiveInTable
    <3>. QED
      BY <2>1, <3>1, <3>2, <3>3, StepEnds
  <2>. QED
    BY <2>1, NewAreInTable
<1>. QED
  BY <1>1, <1>2, TypeCorrect, PTL DEF Spec

\* A live session nobody sent a GET /mcp for leaves the table only when it is
\* deleted, its client's connection is closed, or its shard stops, whatever is
\* sent for other sessions.
THEOREM SessionsEndForAReason == Spec => UnreconnectedSessionsLast
<1>1. TypeOK /\ OneReader /\ [Next]_vars => OneReader'
  BY StepOneReader
<1>2. TypeOK /\ OneReader /\ [Next]_vars =>
        [\A sh \in Shards : \A id \in (sessions[sh] \ sessions'[sh]) \cap active :
           Reconnected(id) \/ EndsForAReason(sh, id)]_vars
  BY StepEnds
<1>. QED
  BY <1>1, <1>2, InitOneReader, TypeCorrect, PTL DEF Spec, UnreconnectedSessionsLast

-----------------------------------------------------------------------------
(* Nobody is left in the table, unless dispatch threw. *)

ServedOrLost(id) == Served(id, "creator") \/ pc[id]["creator"] = "lost"

CreatorServes ==
    \A sh \in Shards : \A id \in sessions[sh] : id.shard = sh /\ ServedOrLost(id)

\* Who stays in the table keeps its reader.
LEMMA CreatorStays ==
  ASSUME CreatorServes,
         \A sh \in Shards : \A id \in sessions'[sh] :
            id \in sessions[sh] /\ (ServedOrLost(id) => ServedOrLost(id)')
  PROVE  CreatorServes'
  BY DEF CreatorServes

LEMMA PushCreatorServes ==
  ASSUME TypeOK, NEW ids, PushOnto(ids), NEW id \in Ids, ServedOrLost(id)
  PROVE  ServedOrLost(id)'
  BY DEF PushOnto, ServedOrLost, Served, InDispatch, Streaming, TypeOK, Roles

LEMMA RemoveShrinks ==
  ASSUME TypeOK, NEW id \in Ids, RemoveSession(id.shard, id), NEW sh \in Shards
  PROVE  sessions'[sh] = IF sh = id.shard THEN sessions[sh] \ {id} ELSE sessions[sh]
  BY DEF RemoveSession, TypeOK

LEMMA CloseCreatorServes ==
  ASSUME TypeOK, CreatorServes, NEW id \in Ids, CloseSession(id)
  PROVE  CreatorServes'
<1>1. \A sh \in Shards : sessions'[sh] \subseteq sessions[sh] /\ sessions[sh] \subseteq Ids
  BY RemoveShrinks DEF CloseSession, TypeOK
<1>2. \A x \in Ids : ServedOrLost(x) => ServedOrLost(x)'
  BY PushCreatorServes DEF CloseSession, ServedOrLost, Served
<1>. QED
  BY <1>1, <1>2, CreatorStays

LEMMA OpenCreatorServes ==
  ASSUME TypeOK, CreatorServes, NEW sh \in Shards, NEW id \in Ids, id.shard = sh,
         sessions' = [sessions EXCEPT ![sh] = @ \cup {id}],
         NEW p \in {"opening", "dispatching"}, pc' = [pc EXCEPT ![id]["creator"] = p]
  PROVE  CreatorServes'
<1>1. \A s \in Shards : sessions[s] \subseteq Ids
                        /\ sessions'[s] \subseteq sessions[s] \cup (IF s = sh THEN {id} ELSE {})
  BY DEF TypeOK
<1>2. \A x \in Ids : x # id => pc'[x] = pc[x]
  BY DEF TypeOK
<1>3. ServedOrLost(id)'
  BY DEF ServedOrLost, Served, InDispatch, Streaming, TypeOK, Roles
<1>4. ASSUME NEW s \in Shards, NEW x \in sessions'[s]
      PROVE  x.shard = s /\ ServedOrLost(x)'
  <2>1. CASE x = id
    <3>1. s = sh \/ x \in sessions[s]
      BY <1>1, <1>4
    <3>. QED
      BY <1>3, <2>1, <3>1 DEF CreatorServes
  <2>2. CASE x # id
    BY <1>1, <1>2, <1>4, <2>2 DEF CreatorServes, ServedOrLost, Served
  <2>. QED
    BY <2>1, <2>2
<1>. QED
  BY <1>4 DEF CreatorServes

LEMMA LeaveCreatorServes ==
  ASSUME TypeOK, CreatorServes, NEW id \in Ids, NEW r \in Roles, LeaveLoop(id, r)
  PROVE  CreatorServes'
<1> SUFFICES ASSUME NEW sh \in Shards, NEW x \in sessions'[sh]
             PROVE  x \in sessions[sh] /\ (ServedOrLost(x) => ServedOrLost(x)')
  BY CreatorStays
<1>0. sessions'[sh] = IF sh = id.shard THEN sessions[sh] \ {id} ELSE sessions[sh]
  BY RemoveShrinks DEF LeaveLoop
<1>1. x \in sessions[sh] /\ x \in Ids /\ x # id
  BY <1>0 DEF CreatorServes, TypeOK
<1>2. pc'[x] = pc[x]
  BY <1>1 DEF LeaveLoop, TypeOK
<1>. QED
  BY <1>1, <1>2 DEF ServedOrLost, Served

LEMMA StepCreatorServes ==
  ASSUME TypeOK, CreatorServes, [Next]_vars
  PROVE  CreatorServes'
<1>0. \A sh \in Shards : sessions[sh] \subseteq Ids
  BY DEF TypeOK
<1>1. ASSUME NEW sh \in Shards, NEW ip \in Ips \cup {NoIp}, HandleSse(sh, ip)
      PROVE  CreatorServes'
  <2>1. SessionId(sh) \in Ids /\ SessionId(sh).shard = sh
    BY <1>1, NewIds DEF HandleSse, SessionId
  <2>. QED
    BY <1>1, <2>1, OpenCreatorServes DEF HandleSse, AddSession
<1>2. ASSUME NEW sh \in Shards, NEW ip \in Ips \cup {NoIp}, HandlePost(sh, ip)
      PROVE  CreatorServes'
  <2>1. StreamableId(sh) \in Ids /\ StreamableId(sh).shard = sh
    BY <1>2, NewIds DEF HandlePost, StreamableId
  <2>. QED
    BY <1>2, <2>1, OpenCreatorServes DEF HandlePost, AddSession
<1>3. ASSUME UNCHANGED sessions,
             \A x \in Ids : ServedOrLost(x) => ServedOrLost(x)'
      PROVE  CreatorServes'
  BY <1>0, <1>3, CreatorStays
<1>4. ASSUME NEW id \in Ids, DispatchAsks(id) \/ DispatchReturns(id) \/ DispatchThrows(id)
      PROVE  CreatorServes'
  <2>1. /\ OnlyAt(id)
        /\ pc'[id]["creator"] \in {"asking", "opening", "lost"}
        /\ sessions' = sessions
    BY <1>4, DispatchAt
  <2>. QED
    BY <1>3, <2>1 DEF OnlyAt, ServedOrLost, Served, InDispatch, Streaming
<1>5. ASSUME NEW id \in Ids, HandleGet(id)
      PROVE  CreatorServes'
  <2>1. \A x \in Ids : pc'[x]["creator"] = pc[x]["creator"]
    BY <1>5 DEF HandleGet, TypeOK, Roles
  <2>. QED
    BY <1>3, <1>5, <2>1 DEF HandleGet, table, ServedOrLost, Served
<1>6. ASSUME NEW id \in Ids, NEW r \in Roles, StreamStep(id, r)
      PROVE  CreatorServes'
  <2>1. ASSUME pc' = [pc EXCEPT ![id][r] = "writing"], UNCHANGED table
        PROVE  CreatorServes'
    <3>1. \A x \in Ids : pc'[x]["creator"] \in {pc[x]["creator"], "writing"}
      BY <2>1 DEF TypeOK, Roles
    <3>. QED
      BY <1>3, <2>1, <3>1 DEF table, ServedOrLost, Served, Streaming
  <2>2. CASE StreamWaits(id, r)
    <3>1. \A x \in Ids : pc'[x]["creator"] \in {pc[x]["creator"], "waiting", "broken"}
      BY <2>2 DEF StreamWaits, TypeOK, Roles
    <3>. QED
      BY <1>3, <2>2, <3>1 DEF StreamWaits, table, ServedOrLost, Served, Streaming
  <2>. QED
    BY <1>6, <2>1, <2>2, LeaveCreatorServes DEF StreamStep, StreamTakes, StreamFindsClosed,
       StreamResumes, StreamFails
<1>7. ASSUME NEW id \in Ids, DeleteArrives(id) \/ \E sh \in Shards : HandleDelete(sh, id)
      PROVE  CreatorServes'
  BY <1>3, <1>7, CloseCreatorServes DEF DeleteArrives, HandleDelete, table, ServedOrLost, Served
<1>8. ASSUME NEW sh \in Shards, ShardStop(sh)
      PROVE  CreatorServes'
  <2>1. \A s \in Shards : sessions'[s] \subseteq sessions[s]
    BY <1>8 DEF ShardStop, TypeOK
  <2>2. \A x \in Ids : ServedOrLost(x) => ServedOrLost(x)'
    BY <1>8, PushCreatorServes DEF ShardStop
  <2>. QED
    BY <1>0, <2>1, <2>2, CreatorStays
<1>9. ASSUME NEW sh \in Shards, NEW ids, PushToSessions(sh, ids)
      PROVE  CreatorServes'
  BY <1>3, <1>9, PushCreatorServes DEF PushToSessions, table
<1>10. CASE \/ \E id \in Ids, r \in Roles : Disconnect(id, r)
            \/ BeginStop \/ SseStopped \/ StreamableStopped \/ UNCHANGED vars
  BY <1>3, <1>10 DEF Disconnect, BeginStop, SseStopped, StreamableStopped, vars, table,
     ServedOrLost, Served
<1>. QED
  BY <1>1, <1>2, <1>4, <1>5, <1>6, <1>7, <1>8, <1>9, <1>10 DEF Next

\* Every session in a table has a request or a stream that will remove it,
\* GET /mcp or not, except one whose request dispatch threw out of.
THEOREM SessionsStayServed == Spec => []SessionsAreServed
<1>1. Init => CreatorServes
  BY DEF Init, CreatorServes
<1>2. TypeOK /\ CreatorServes /\ [Next]_vars => CreatorServes'
  BY StepCreatorServes
<1>3. CreatorServes => SessionsAreServed
  BY DEF CreatorServes, ServedOrLost, SessionsAreServed, Roles
<1>. QED
  BY <1>1, <1>2, <1>3, TypeCorrect, PTL DEF Spec

-----------------------------------------------------------------------------
(* No wake-up is lost, where the queue has one reader. *)

\* A message for some sessions wakes their readers, so they may be closed.
LEMMA PushKeepsAwake ==
  ASSUME TypeOK, NobodySleepsThrough, NEW ids, PushOnto(ids), active \ ids \subseteq active'
  PROVE  NobodySleepsThrough'
<1> SUFFICES ASSUME NEW id \in Ids, NEW r \in Roles, pc'[id][r] = "waiting", ~Reconnected(id)'
             PROVE  id \in active' /\ queued'[id] = 0
  BY DEF NobodySleepsThrough
<1>1. id \notin ids /\ pc[id][r] = "waiting" /\ queued'[id] = queued[id]
  BY DEF PushOnto
<1>2. ~Reconnected(id)
  BY DEF PushOnto, Reconnected, Roles
<1>. QED
  BY <1>1, <1>2 DEF NobodySleepsThrough

\* A reader that does not go to sleep may close its session or take from it.
LEMMA AwakeAt ==
  ASSUME NobodySleepsThrough, NEW id \in Ids, OnlyAt(id), active \ {id} \subseteq active',
         \/ Reconnected(id)'
         \/ pc'[id]["creator"] # "waiting"
         \/ id \in active' /\ queued'[id] = 0
  PROVE  NobodySleepsThrough'
<1> SUFFICES ASSUME NEW x \in Ids, NEW r \in Roles, pc'[x][r] = "waiting", ~Reconnected(x)'
             PROVE  x \in active' /\ queued'[x] = 0
  BY DEF NobodySleepsThrough
<1>1. CASE x = id
  <2>1. r = "creator"
    BY DEF Reconnected, Roles
  <2>. QED
    BY <1>1, <2>1
<1>2. CASE x # id
  BY <1>2 DEF OnlyAt, Reconnected, NobodySleepsThrough
<1>. QED
  BY <1>1, <1>2

LEMMA StepKeepsAwake ==
  ASSUME TypeOK, NobodySleepsThrough, [Next]_vars
  PROVE  NobodySleepsThrough'
<1>1. ASSUME NEW sh \in Shards, NEW ip \in Ips \cup {NoIp}, HandleSse(sh, ip) \/ HandlePost(sh, ip)
      PROVE  NobodySleepsThrough'
  BY <1>1, OpenAt, AwakeAt
<1>2. ASSUME NEW id \in Ids, DispatchAsks(id) \/ DispatchReturns(id) \/ DispatchThrows(id)
      PROVE  NobodySleepsThrough'
  BY <1>2, DispatchAt, AwakeAt
<1>3. ASSUME NEW id \in Ids, HandleGet(id)
      PROVE  NobodySleepsThrough'
  BY <1>3, GetAt, AwakeAt
<1>4. ASSUME NEW id \in Ids, NEW r \in Roles, StreamStep(id, r)
      PROVE  NobodySleepsThrough'
  <2>1. active \ {id} \subseteq active'
    BY <1>4 DEF StreamStep, StreamTakes, StreamWaits, StreamFindsClosed, StreamResumes, StreamFails
  <2>2. CASE StreamWaits(id, r)
    BY <1>4, <2>1, <2>2, StreamStepAt, AwakeAt DEF StreamWaits
  <2>3. CASE ~StreamWaits(id, r)
    <3>1. pc' \in {[pc EXCEPT ![id][r] = "writing"], [pc EXCEPT ![id][r] = "done"]}
      BY <1>4, <2>3 DEF StreamStep, StreamTakes, StreamFindsClosed, StreamResumes, StreamFails,
         LeaveLoop
    <3>2. r = "creator" => pc'[id]["creator"] # "waiting"
      BY <3>1 DEF TypeOK, Roles
    <3>. QED
      BY <1>4, <2>1, <3>2, StreamStepAt, AwakeAt
  <2>. QED
    BY <2>2, <2>3
<1>5. ASSUME UNCHANGED <<pc, queued, active>>
      PROVE  NobodySleepsThrough'
  BY <1>5 DEF NobodySleepsThrough, Reconnected
<1>6. ASSUME NEW id \in Ids, CloseSession(id)
      PROVE  NobodySleepsThrough'
  BY <1>5, <1>6, PushKeepsAwake DEF CloseSession
<1>7. ASSUME NEW id \in Ids, DeleteArrives(id) \/ \E sh \in Shards : HandleDelete(sh, id)
      PROVE  NobodySleepsThrough'
  BY <1>5, <1>6, <1>7 DEF DeleteArrives, HandleDelete
<1>8. ASSUME NEW sh \in Shards, NEW ids, ShardStop(sh) \/ PushToSessions(sh, ids)
      PROVE  NobodySleepsThrough'
  BY <1>8, PushKeepsAwake DEF ShardStop, PushToSessions
<1>9. CASE \/ \E id \in Ids, r \in Roles : Disconnect(id, r)
           \/ BeginStop \/ SseStopped \/ StreamableStopped \/ UNCHANGED vars
  BY <1>5, <1>9 DEF Disconnect, BeginStop, SseStopped, StreamableStopped, vars
<1>. QED
  BY <1>1, <1>2, <1>3, <1>4, <1>7, <1>8, <1>9 DEF Next

\* Who alone reads a queue and waits for a message waits in a live session
\* whose queue is empty: DELETE, a push and a stop wake the reader in the step
\* that gives it something to see.
THEOREM NoWakeUpIsLost == Spec => []NobodySleepsThrough
<1>1. Init => NobodySleepsThrough
  BY DEF Init, NobodySleepsThrough
<1>2. TypeOK /\ NobodySleepsThrough /\ [Next]_vars => NobodySleepsThrough'
  BY StepKeepsAwake
<1>. QED
  BY <1>1, <1>2, TypeCorrect, PTL DEF Spec

\* Whoever alone reads a queue and waits can be woken, and is looked for where
\* it is.
THEOREM SleepersAreReachable == Spec => []SleepersReachable
  BY NoWakeUpIsLost, ActiveAreInTable, PTL DEF SleepersReachable

-----------------------------------------------------------------------------
(* The stop sequence. *)

\* A connection begins to be served only while its transport listens.
LEMMA ServedStep ==
  ASSUME TypeOK, [Next]_vars, NEW x \in Ids, NEW q \in Roles, Served(x, q)', ~Served(x, q)
  PROVE  \/ stage = "running"
         \/ stage = "stop_sse" /\ <<x, q>> \in StreamableStreams
<1> USE DEF TypeOK, Served, InDispatch, Streaming
<1>1. ASSUME NEW sh \in Shards, NEW ip \in Ips \cup {NoIp}, HandleSse(sh, ip)
      PROVE  stage = "running"
  BY <1>1 DEF HandleSse, SseAccepts
<1>2. ASSUME NEW sh \in Shards, NEW ip \in Ips \cup {NoIp}, HandlePost(sh, ip)
      PROVE  \/ stage = "running"
             \/ stage = "stop_sse" /\ <<x, q>> \in StreamableStreams
  <2>1. StreamableId(sh) \in Ids
    BY <1>2, NewIds DEF HandlePost
  <2>2. x = StreamableId(sh)
    BY <1>2, <2>1 DEF HandlePost
  <2>3. x.kind = "sm"
    BY <2>2 DEF StreamableId
  <2>. QED
    BY <1>2, <2>3 DEF HandlePost, StreamableAccepts, StreamableStreams, SseStreams
<1>3. ASSUME NEW id \in Ids, HandleGet(id)
      PROVE  \/ stage = "running"
             \/ stage = "stop_sse" /\ <<x, q>> \in StreamableStreams
  <2>1. q = "reconnect"
    BY <1>3 DEF HandleGet, Roles
  <2>. QED
    BY <1>3, <2>1 DEF HandleGet, StreamableAccepts, StreamableStreams, SseStreams
<1>4. ASSUME NEW id \in Ids, DispatchReturns(id)
      PROVE  FALSE
  <2>1. PICK answered \in BOOLEAN :
          pc' = [pc EXCEPT ![id] =
                   [creator   |-> "opening",
                    reconnect |-> IF answered /\ @["reconnect"] = "waiting"
                                  THEN "ready" ELSE @["reconnect"]]]
    BY <1>4 DEF DispatchReturns
  <2>2. x = id
    BY <2>1
  <2>3. q = "reconnect" /\ pc'[id]["reconnect"] \in {"ready", pc[id]["reconnect"]}
    BY <1>4, <2>1, <2>2 DEF DispatchReturns, Roles
  <2>. QED
    BY <2>1, <2>2, <2>3
<1>5. ASSUME NEW ids, PushOnto(ids)
      PROVE  FALSE
  BY <1>5 DEF PushOnto
<1>6. ASSUME NEW id \in Ids, NEW r \in Roles, StreamStep(id, r)
      PROVE  FALSE
  <2>1. Served(id, r)
    BY <1>6 DEF StreamStep, StreamTakes, StreamWaits, StreamFindsClosed, StreamResumes,
       StreamFails, AtLoopTop, Writes
  <2>2. x # id \/ q # r
    BY <2>1
  <2>3. CASE StreamWaits(id, r)
    BY <2>2, <2>3 DEF StreamWaits
  <2>4. CASE ~StreamWaits(id, r)
    <3>1. \E p \in Pcs : pc' = [pc EXCEPT ![id][r] = p]
      BY <1>6, <2>4 DEF StreamStep, StreamTakes, StreamFindsClosed, StreamResumes,
         StreamFails, LeaveLoop, Pcs
    <3>. QED
      BY <2>2, <3>1
  <2>. QED
    BY <2>3, <2>4
<1>7. ASSUME UNCHANGED pc
      PROVE  FALSE
  BY <1>7
<1>8. ASSUME NEW id \in Ids, DispatchAsks(id) \/ DispatchThrows(id)
      PROVE  FALSE
  <2>1. Served(id, "creator")
    BY <1>8 DEF DispatchAsks, DispatchThrows
  <2>2. pc' \in {[pc EXCEPT ![id]["creator"] = "asking"], [pc EXCEPT ![id]["creator"] = "lost"]}
    BY <1>8 DEF DispatchAsks, DispatchThrows
  <2>3. x # id \/ q # "creator"
    BY <2>1
  <2>. QED
    BY <2>2, <2>3 DEF Roles
<1>9. ASSUME NEW id \in Ids, DeleteArrives(id) \/ \E sh \in Shards : HandleDelete(sh, id)
      PROVE  FALSE
  BY <1>5, <1>7, <1>9 DEF DeleteArrives, HandleDelete, CloseSession
<1>10. ASSUME NEW sh \in Shards, NEW ids, ShardStop(sh) \/ PushToSessions(sh, ids)
      PROVE  FALSE
  BY <1>5, <1>10 DEF ShardStop, PushToSessions
<1>11. CASE \/ \E id \in Ids, r \in Roles : Disconnect(id, r)
            \/ BeginStop \/ SseStopped \/ StreamableStopped \/ UNCHANGED vars
  BY <1>7, <1>11 DEF Disconnect, BeginStop, SseStopped, StreamableStopped, vars
<1>. QED
  BY <1>1, <1>2, <1>3, <1>4, <1>6, <1>8, <1>9, <1>10, <1>11 DEF Next

\* Stop goes forward, each transport only when nothing of it is served.
LEMMA StageStep ==
  ASSUME [Next]_vars
  PROVE  \/ UNCHANGED control
         \/ stage = "running" /\ stage' = "stop_sse" /\ stopped' = stopped
         \/ SseStopped \/ StreamableStopped
         \/ \E sh \in Shards : ShardStop(sh)
<1>1. ASSUME NEW id \in Ids, NEW r \in Roles, StreamStep(id, r)
      PROVE  UNCHANGED control
  BY <1>1 DEF StreamStep, StreamTakes, StreamWaits, StreamFindsClosed, StreamResumes,
     StreamFails
<1>2. CASE UNCHANGED vars
  BY <1>2 DEF vars
<1>3. CASE BeginStop
  BY <1>3 DEF BeginStop
<1>. QED
  BY <1>1, <1>2, <1>3 DEF Next, HandleSse, HandlePost, DispatchAsks, DispatchReturns,
     DispatchThrows, HandleGet, DeleteArrives, Disconnect, HandleDelete, PushToSessions

\* A table gets a new session only while a transport listens.
LEMMA TableGrowsEarly ==
  ASSUME TypeOK, [Next]_vars, NEW sh \in Shards, stage \notin {"running", "stop_sse"}
  PROVE  sessions'[sh] \subseteq sessions[sh]
<1>1. ASSUME NEW id \in Ids, RemoveSession(id.shard, id)
      PROVE  sessions'[sh] \subseteq sessions[sh]
  BY <1>1, RemoveShrinks
<1>2. ASSUME NEW id \in Ids, NEW r \in Roles, StreamStep(id, r)
      PROVE  sessions'[sh] \subseteq sessions[sh]
  BY <1>1, <1>2 DEF StreamStep, StreamTakes, StreamWaits, StreamFindsClosed,
     StreamResumes, StreamFails, LeaveLoop, table
<1>3. ASSUME NEW id \in Ids, DeleteArrives(id) \/ \E s \in Shards : HandleDelete(s, id)
      PROVE  sessions'[sh] \subseteq sessions[sh]
  BY <1>1, <1>3 DEF DeleteArrives, HandleDelete, CloseSession, table
<1>4. ASSUME NEW s \in Shards, ShardStop(s)
      PROVE  sessions'[sh] \subseteq sessions[sh]
  BY <1>4 DEF ShardStop, TypeOK
<1>5. CASE UNCHANGED vars
  BY <1>5 DEF vars, table
<1>. QED
  BY <1>2, <1>3, <1>4, <1>5 DEF Next, HandleSse, SseAccepts, HandlePost, HandleGet,
     StreamableAccepts, DispatchAsks, DispatchReturns, DispatchThrows, Disconnect, BeginStop,
     SseStopped, StreamableStopped, PushToSessions, table

\* What each stage of stop has left behind.
StopInv ==
    /\ stage \in {"stop_streamable", "stop_shards"} =>
         \A s \in SseStreams : ~Served(s[1], s[2])
    /\ stage = "stop_shards" => \A s \in StreamableStreams : ~Served(s[1], s[2])
    /\ stopped # {} => stage = "stop_shards"
    /\ \A sh \in stopped : sessions[sh] = {}

LEMMA StopStep ==
  ASSUME TypeOK, StopInv, [Next]_vars
  PROVE  StopInv'
<1>0. SseStreams \cup StreamableStreams = Ids \X Roles
  BY DEF SseStreams, StreamableStreams, Roles
<1>1. ASSUME stage \in {"stop_streamable", "stop_shards"}, NEW x \in Ids, NEW q \in Roles,
             ~Served(x, q)
      PROVE  ~Served(x, q)'
  BY <1>1, ServedStep
<1>2. CASE UNCHANGED control \/ \E sh \in Shards : ShardStop(sh)
  <2>1. stage' = stage /\ (stopped' # stopped => stage = "stop_shards")
    BY <1>2 DEF control, ShardStop
  <2>2. ASSUME stage' \in {"stop_streamable", "stop_shards"}, NEW s \in SseStreams
        PROVE  ~Served(s[1], s[2])'
    <3>1. s[1] \in Ids /\ s[2] \in Roles
      BY <2>2, <1>0
    <3>. QED
      BY <1>1, <2>1, <2>2, <3>1 DEF StopInv
  <2>3. ASSUME stage' = "stop_shards", NEW s \in StreamableStreams
        PROVE  ~Served(s[1], s[2])'
    <3>1. s[1] \in Ids /\ s[2] \in Roles
      BY <2>3, <1>0
    <3>. QED
      BY <1>1, <2>1, <2>3, <3>1 DEF StopInv
  <2>4. ASSUME NEW sh \in stopped' PROVE sessions'[sh] = {}
    <3>1. CASE sh \in stopped
      <4>1. sh \in Shards /\ stage = "stop_shards" /\ sessions[sh] = {}
        BY <3>1 DEF TypeOK, StopInv
      <4>. QED
        BY <4>1, TableGrowsEarly
    <3>2. CASE sh \notin stopped
      BY <1>2, <2>4, <3>2 DEF control, ShardStop, TypeOK
    <3>. QED
      BY <3>1, <3>2
  <2>. QED
    BY <2>1, <2>2, <2>3, <2>4 DEF StopInv, SseStreams, StreamableStreams
<1>3. CASE stage = "running" /\ stage' = "stop_sse" /\ stopped' = stopped
  BY <1>3 DEF StopInv
<1>4. CASE SseStopped
  BY <1>4 DEF SseStopped, StopInv, Served, SseStreams
<1>5. CASE StreamableStopped
  BY <1>5 DEF StreamableStopped, StopInv, Served, SseStreams, StreamableStreams
<1>. QED
  BY <1>2, <1>3, <1>4, <1>5, StageStep

\* When the shards are stopped no request and no stream is being served, so
\* none can call into a stopped shard, and no stopped shard gets a session
\* again: for every interleaving of stop with requests, streams and DELETEs.
THEOREM StopIsClean == Spec => []StopLeavesNothing
<1>1. Init => StopInv
  BY DEF Init, StopInv
<1>2. TypeOK /\ StopInv /\ [Next]_vars => StopInv'
  BY StopStep
<1>3. StopInv => StopLeavesNothing
  <2>1. SseStreams \cup StreamableStreams = Ids \X Roles
    BY DEF SseStreams, StreamableStreams, Roles
  <2>2. ASSUME StopInv, stage = "stop_shards", NEW id \in Ids, NEW r \in Roles
        PROVE  ~Served(id, r)
    <3>1. <<id, r>> \in SseStreams \/ <<id, r>> \in StreamableStreams
      BY <2>1
    <3>. QED
      BY <2>2, <3>1 DEF StopInv
  <2>. QED
    BY <2>2 DEF StopInv, StopLeavesNothing
<1>. QED
  BY <1>1, <1>2, <1>3, TypeCorrect, PTL DEF Spec
=============================================================================
