-------------------------- MODULE SessionQueueProofs --------------------------
(***************************************************************************)
(* SessionQueue implements SseStream for every set of messages and every   *)
(* capacity of the queue, as far as safety goes: each step of the queue    *)
(* and its reader is a step of the stream or changes nothing in it.        *)
(*                                                                         *)
(* The invariant says what the wake-ups must not confuse: the reader has a *)
(* message exactly between pop and the end of the write, a woken reader    *)
(* finds one, a message is with at most one producer, and the closing      *)
(* message is nowhere while the session is active.                         *)
(***************************************************************************)
EXTENDS SessionQueue, SequenceTheorems, TLAPS

All == Messages \cup {Close}

ReaderInv ==
    /\ hand = NoMessage <=> reader \notin {"popped", "writing"}
    /\ reader = "writing" => hand # Close
    /\ reader = "woken" => messages # <<>>

ProducersInv ==
    /\ unsent \cap resuming = {}
    /\ not_full \notin unsent
    /\ not_full \notin resuming

NotClosed ==
    active => /\ messages \in Seq(Messages)
              /\ hand # Close
              /\ not_full # Close
              /\ Close \notin resuming

IInv == TypeOK /\ ReaderInv /\ ProducersInv /\ NotClosed

-----------------------------------------------------------------------------
LEMMA AppendAll ==
    ASSUME NEW s \in Seq(All), NEW m \in All
    PROVE  Append(s, m) \in Seq(All) /\ Append(s, m) # <<>>
  BY AppendProperties

\* An active session's queue holds messages only.
LEMMA AppendMessages ==
    ASSUME NEW s \in Seq(Messages), NEW m \in Messages
    PROVE  Append(s, m) \in Seq(Messages)
  BY AppendProperties

\* A message that enters the queue or waits for room.
LEMMA PushEventuallyEffect ==
    ASSUME TypeOK, ReaderInv, NEW m \in All, PushEventually(m)
    PROVE  /\ messages' \in Seq(All)
           /\ reader' \in Pcs
           /\ reader' \in {"popped", "writing"} <=> reader \in {"popped", "writing"}
           /\ reader' = "writing" <=> reader = "writing"
           /\ reader' = "woken" => messages' # <<>>
           /\ not_full' \in {not_full, m}
           /\ messages' \in {messages, Append(messages, m)}
  <1>1. CASE full
    BY <1>1 DEF PushEventually, TypeOK, ReaderInv, All
  <1>2. CASE ~full
    <2>1. messages' = Append(messages, m) /\ UNCHANGED not_full
      BY <1>2 DEF PushEventually, Enqueue
    <2>2. reader' = IF reader = "waiting" THEN "woken" ELSE reader
      BY <1>2 DEF PushEventually, Enqueue
    <2> QED
      BY <2>1, <2>2, AppendAll DEF TypeOK, All, Pcs
  <1> QED
    BY <1>1, <1>2

LEMMA PushStep ==
    ASSUME IInv, NEW m \in Messages, Push(m)
    PROVE  IInv'
  <1>1. m \in All /\ PushEventually(m) /\ TypeOK /\ ReaderInv
    BY DEF Push, IInv, All
  <1>2. /\ active /\ m \in unsent /\ unsent' = unsent \ {m}
        /\ UNCHANGED <<active, resuming, hand, written>>
    BY DEF Push
  <1>3. messages' \in Seq(Messages)
    BY <1>1, <1>2, PushEventuallyEffect, AppendMessages DEF IInv, NotClosed
  <1> QED
    BY <1>1, <1>2, <1>3, PushEventuallyEffect, MessageAssumption
    DEF IInv, TypeOK, ReaderInv, ProducersInv, NotClosed, All

LEMMA PushResumesStep ==
    ASSUME IInv, NEW m \in All, PushResumes(m)
    PROVE  IInv'
  <1>1. /\ messages' = Append(messages, m)
        /\ reader' = IF reader = "waiting" THEN "woken" ELSE reader
        /\ resuming' = resuming \ {m}
        /\ UNCHANGED <<unsent, not_full, active, hand, written>>
    BY DEF PushResumes, Enqueue
  <1>2. messages' \in Seq(All) /\ messages' # <<>>
    BY <1>1, AppendAll DEF IInv, TypeOK, All
  <1>3. TypeOK'
    BY <1>1, <1>2 DEF IInv, TypeOK, All, Pcs
  <1>4. ASSUME active PROVE messages' \in Seq(Messages)
    <2>1. m \in Messages
      BY <1>4 DEF PushResumes, IInv, NotClosed, All
    <2> QED
      BY <1>1, <1>4, <2>1, AppendMessages DEF IInv, NotClosed
  <1> QED
    BY <1>1, <1>2, <1>3, <1>4 DEF IInv, ReaderInv, ProducersInv, NotClosed

LEMMA CloseSessionStep ==
    ASSUME IInv, CloseSession
    PROVE  IInv'
  <1>1. Close \in All /\ PushEventually(Close) /\ TypeOK /\ ReaderInv
    BY DEF CloseSession, IInv, All
  <1>2. /\ active /\ active' = FALSE
        /\ UNCHANGED <<unsent, resuming, hand, written>>
    BY DEF CloseSession
  <1> QED
    BY <1>1, <1>2, PushEventuallyEffect, MessageAssumption
    DEF IInv, TypeOK, ReaderInv, ProducersInv, NotClosed, All

\* A pop takes the first message and perhaps wakes a producer.
LEMMA PopEffect ==
    ASSUME IInv, messages # <<>>, Pop, UNCHANGED <<unsent, active>>
    PROVE  /\ hand' = Head(messages) /\ hand' \in All
           /\ messages' = Tail(messages) /\ messages' \in Seq(All)
           /\ not_full' \in {not_full, NoMessage}
           /\ resuming' \subseteq All
           /\ ProducersInv'
           /\ NotClosed'
           /\ (resuming' \cup {not_full'}) \ {NoMessage}
                = (resuming \cup {not_full}) \ {NoMessage}
  <1>1. hand' = Head(messages) /\ messages' = Tail(messages)
    BY DEF Pop
  <1>2. Head(messages) \in All /\ Tail(messages) \in Seq(All)
    BY HeadTailProperties DEF IInv, TypeOK, All
  <1>3. active => Head(messages) \in Messages /\ Tail(messages) \in Seq(Messages)
    BY HeadTailProperties DEF IInv, NotClosed
  <1>4. CASE Len(messages) = Capacity /\ not_full # NoMessage
    <2>1. resuming' = resuming \cup {not_full} /\ not_full' = NoMessage
      BY <1>4 DEF Pop
    <2> QED
      BY <1>1, <1>2, <1>4, <1>3, <2>1, MessageAssumption
      DEF IInv, TypeOK, ProducersInv, NotClosed, All
  <1>5. CASE ~(Len(messages) = Capacity /\ not_full # NoMessage)
    <2>1. UNCHANGED <<resuming, not_full>>
      BY <1>5 DEF Pop
    <2> QED
      BY <1>1, <1>2, <1>3, <2>1, MessageAssumption
      DEF IInv, TypeOK, ProducersInv, NotClosed, All
  <1> QED
    BY <1>4, <1>5

LEMMA ReaderPopsStep ==
    ASSUME IInv, ReaderPops
    PROVE  IInv'
  <1>1. /\ messages # <<>> /\ Pop /\ reader' = "popped"
        /\ UNCHANGED <<unsent, active, written>>
    BY DEF ReaderPops, IInv, ReaderInv
  <1>2. hand' \in All /\ messages' \in Seq(All) /\ ProducersInv' /\ NotClosed'
    BY <1>1, PopEffect
  <1>3. not_full' \in {not_full, NoMessage} /\ resuming' \subseteq All
    BY <1>1, PopEffect
  <1>4. TypeOK'
    BY <1>1, <1>2, <1>3 DEF IInv, TypeOK, All, Pcs
  <1> QED
    BY <1>1, <1>2, <1>4, MessageAssumption DEF IInv, ReaderInv, All

LEMMA ReaderOtherStep ==
    ASSUME IInv, ReaderWaits \/ ReaderWrites \/ WriteEnds \/ WriteFails \/ ReaderLeaves
    PROVE  IInv'
  <1> USE DEF IInv, TypeOK, ReaderInv, ProducersInv, NotClosed, Pcs, producers
  <1>1. CASE ReaderWaits
    BY <1>1 DEF ReaderWaits
  <1>2. CASE ReaderWrites
    BY <1>2 DEF ReaderWrites
  <1>3. CASE WriteEnds
    <2>1. hand \in Messages
      BY <1>3 DEF WriteEnds
    <2>2. written' \in Seq(Messages)
      BY <1>3, <2>1, AppendMessages DEF WriteEnds
    <2>3. /\ hand' = NoMessage /\ reader' = "top"
          /\ UNCHANGED <<producers, messages, active>>
      BY <1>3 DEF WriteEnds
    <2> QED
      BY <2>2, <2>3, MessageAssumption
  <1>4. CASE WriteFails
    BY <1>4, MessageAssumption DEF WriteFails
  <1>5. CASE ReaderLeaves
    BY <1>5, MessageAssumption DEF ReaderLeaves
  <1> QED
    BY <1>1, <1>2, <1>3, <1>4, <1>5

LEMMA InitInv == Init => IInv
  <1> SUFFICES ASSUME Init PROVE IInv
    OBVIOUS
  <1>1. messages \in Seq(All) /\ messages \in Seq(Messages) /\ written \in Seq(Messages)
    BY EmptySeq DEF Init
  <1> QED
    BY <1>1, MessageAssumption
    DEF Init, IInv, TypeOK, ReaderInv, ProducersInv, NotClosed, Pcs, All

LEMMA InvStep == IInv /\ [Next]_vars => IInv'
  <1> SUFFICES ASSUME IInv, [Next]_vars PROVE IInv'
    OBVIOUS
  <1>1. CASE UNCHANGED vars
    BY <1>1 DEF IInv, TypeOK, ReaderInv, ProducersInv, NotClosed, vars, producers
  <1>2. ASSUME ReaderStep PROVE IInv'
    BY <1>2, ReaderPopsStep, ReaderOtherStep DEF ReaderStep
  <1> QED
    BY <1>1, <1>2, PushStep, PushResumesStep, CloseSessionStep DEF Next, All

\* The queue, the producers and the reader keep their types; in particular
\* only messages are written, and never the closing one.
THEOREM TypeCorrect == Spec => []TypeOK
  <1>1. IInv => TypeOK
    BY DEF IInv
  <1> QED
    BY <1>1, InitInv, InvStep, PTL DEF Spec

-----------------------------------------------------------------------------
(* The wake-ups. *)

LEMMA OneLessIsEnough ==
    ASSUME NEW a \in Nat, NEW c \in Nat, a >= c, a # c
    PROVE  a - 1 >= c
  OBVIOUS

\* A pop wakes the waiting producer, or leaves the queue full: one that was
\* over its capacity, filled by producers that did not test again, has a
\* message left to be popped at exactly its capacity.
LEMMA PopKeepsProducers ==
    ASSUME IInv, NoMissedWakeUp, messages # <<>>, Pop
    PROVE  not_full' # NoMessage => full'
  <1> SUFFICES ASSUME not_full' # NoMessage PROVE full'
    OBVIOUS
  <1>1. /\ not_full' = not_full /\ not_full # NoMessage
        /\ ~(Len(messages) = Capacity) /\ messages' = Tail(messages)
    BY DEF Pop
  <1>2. Len(messages) >= Capacity
    BY <1>1 DEF NoMissedWakeUp, full
  <1>3. Len(messages) \in Nat /\ Len(Tail(messages)) = Len(messages) - 1
    BY HeadTailProperties DEF IInv, TypeOK
  <1>4. Len(messages) - 1 >= Capacity
    BY <1>1, <1>2, <1>3, CapacityAssumption, OneLessIsEnough
  <1> QED
    BY <1>1, <1>3, <1>4 DEF full

\* A message that enters wakes the reader and takes no room from a full queue.
LEMMA EnqueueKeepsWakeUps ==
    ASSUME IInv, NoMissedWakeUp, NEW m \in All, Enqueue(m)
    PROVE  /\ reader' # "waiting"
           /\ full => full'
  <1>1. messages' = Append(messages, m) /\ reader' # "waiting"
    BY DEF Enqueue
  <1>2. Len(messages) \in Nat /\ Len(Append(messages, m)) = Len(messages) + 1
    BY AppendProperties DEF IInv, TypeOK, All
  <1> QED
    BY <1>1, <1>2, CapacityAssumption DEF full

LEMMA PushEventuallyKeepsWakeUps ==
    ASSUME IInv, NoMissedWakeUp, NEW m \in All, PushEventually(m)
    PROVE  /\ not_full' # NoMessage => full'
           /\ reader' # "waiting"
  <1>1. CASE ~full
    <2>1. Enqueue(m) /\ not_full' = not_full
      BY <1>1 DEF PushEventually
    <2> QED
      BY <1>1, <2>1, EnqueueKeepsWakeUps DEF NoMissedWakeUp
  <1>2. CASE full
    <2>1. messages' = messages /\ reader' = reader
      BY <1>2 DEF PushEventually
    <2>2. messages # <<>>
      <3>1. Len(<<>>) = 0
        BY EmptySeq
      <3> QED
        BY <1>2, <3>1, CapacityAssumption DEF full
    <2> QED
      BY <1>2, <2>1, <2>2 DEF full, NoMissedWakeUp
  <1> QED
    BY <1>1, <1>2

LEMMA WakeUpsStep == IInv /\ NoMissedWakeUp /\ [Next]_vars => NoMissedWakeUp'
  <1> SUFFICES ASSUME IInv, NoMissedWakeUp, [Next]_vars PROVE NoMissedWakeUp'
    OBVIOUS
  <1>1. CASE UNCHANGED vars
    BY <1>1 DEF vars, producers, NoMissedWakeUp, full
  <1>2. ASSUME NEW m \in Messages, Push(m) PROVE NoMissedWakeUp'
    BY <1>2, PushEventuallyKeepsWakeUps DEF Push, All, NoMissedWakeUp
  <1>3. ASSUME NEW m \in All, PushResumes(m) PROVE NoMissedWakeUp'
    BY <1>3, EnqueueKeepsWakeUps DEF PushResumes, NoMissedWakeUp
  <1>4. ASSUME CloseSession PROVE NoMissedWakeUp'
    BY <1>4, PushEventuallyKeepsWakeUps DEF CloseSession, All, NoMissedWakeUp
  <1>5. ASSUME ReaderPops PROVE NoMissedWakeUp'
    <2>1. messages # <<>> /\ Pop /\ reader' = "popped"
      BY <1>5 DEF ReaderPops, IInv, ReaderInv
    <2> QED
      BY <2>1, PopKeepsProducers DEF NoMissedWakeUp
  <1>6. ASSUME ReaderWaits PROVE NoMissedWakeUp'
    BY <1>6 DEF ReaderWaits, producers, NoMissedWakeUp, full
  <1>7. ASSUME ReaderWrites \/ WriteEnds \/ WriteFails \/ ReaderLeaves
        PROVE  NoMissedWakeUp'
    BY <1>7 DEF ReaderWrites, WriteEnds, WriteFails, ReaderLeaves, producers,
       NoMissedWakeUp, full
  <1> QED
    BY <1>1, <1>2, <1>3, <1>4, <1>5, <1>6, <1>7 DEF Next, ReaderStep, All

\* No wake-up is missed, whatever the capacity of the queue and however many
\* producers push to it: who waits in seastar::queue has something to wait for.
THEOREM NoWakeUpIsMissed == Spec => []NoMissedWakeUp
  <1>1. Init => NoMissedWakeUp
    BY DEF Init, NoMissedWakeUp
  <1> QED
    BY <1>1, InitInv, InvStep, WakeUpsStep, PTL DEF Spec

-----------------------------------------------------------------------------
(* The refinement. *)

\* What waits for the writer of an active session, and what is deferred.
toJoin == IF active THEN (resuming \cup {not_full}) \ {NoMessage} ELSE {}

\* A message in hand, or none, before the others.
LEMMA HandFirst ==
    ASSUME NEW h \in Seq(Messages), NEW s \in Seq(Messages), NEW m \in Messages
    PROVE  /\ h \o s \in Seq(Messages)
           /\ Len(h \o s) = Len(h) + Len(s)
           /\ h \o Append(s, m) = Append(h \o s, m)
  <1>1. h \o s \in Seq(Messages) /\ Len(h \o s) = Len(h) + Len(s)
    BY ConcatProperties
  <1>2. Append(s, m) = s \o <<m>> /\ Append(h \o s, m) = (h \o s) \o <<m>>
    BY <1>1, AppendIsConcat
  <1>3. <<m>> \in Seq(Messages)
    OBVIOUS
  <1>4. (h \o s) \o <<m>> = h \o (s \o <<m>>)
    BY <1>3, ConcatAssociative
  <1> QED
    BY <1>1, <1>2, <1>4

LEMMA HeadInHand ==
    ASSUME NEW s \in Seq(Messages), NEW m \in Messages
    PROVE  /\ <<m>> \o s # <<>>
           /\ Head(<<m>> \o s) = m
           /\ Tail(<<m>> \o s) = s
  <1> DEFINE c == <<m>> \o s
  <1>1. <<m>> \in Seq(Messages) /\ Len(<<m>>) = 1
    OBVIOUS
  <1>2. /\ c \in Seq(Messages) /\ Len(c) = 1 + Len(s)
        /\ \A i \in 1..1 + Len(s) : c[i] = IF i <= 1 THEN m ELSE s[i - 1]
    BY <1>1, ConcatProperties
  <1>3. Len(s) \in Nat
    OBVIOUS
  <1>4. c # <<>>
    BY <1>2, <1>3
  <1>5. Head(c) = m
    BY <1>2, <1>3, <1>4
  <1>6. /\ Tail(c) \in Seq(Messages) /\ Len(Tail(c)) = Len(s)
        /\ \A i \in 1..Len(s) : Tail(c)[i] = c[i + 1]
    BY <1>2, <1>3, <1>4, HeadTailProperties
  <1>7. \A i \in 1..Len(s) : Tail(c)[i] = s[i]
    BY <1>2, <1>3, <1>6
  <1>8. Tail(c) = s
    BY <1>6, <1>7, SeqEqual
  <1> QED
    BY <1>4, <1>5, <1>8

\* Popping moves the first message to the hand.
LEMMA PoppedFirst ==
    ASSUME NEW s \in Seq(Messages), s # <<>>
    PROVE  <<Head(s)>> \o Tail(s) = s
  <1>1. Head(s) \in Messages /\ Tail(s) \in Seq(Messages) /\ Len(Tail(s)) = Len(s) - 1
    BY HeadTailProperties
  <1>2. <<Head(s)>> \in Seq(Messages) /\ Len(<<Head(s)>>) = 1
    BY <1>1
  <1> DEFINE c == <<Head(s)>> \o Tail(s)
  <1>3. /\ c \in Seq(Messages) /\ Len(c) = Len(s)
        /\ \A i \in 1..Len(s) : c[i] = IF i <= 1 THEN Head(s) ELSE Tail(s)[i - 1]
    BY <1>1, <1>2, ConcatProperties
  <1>4. \A i \in 1..Len(Tail(s)) : Tail(s)[i] = s[i + 1]
    BY HeadTailProperties
  <1>5. \A i \in 1..Len(s) : c[i] = s[i]
    BY <1>1, <1>3, <1>4
  <1> QED
    BY <1>3, <1>5, SeqEqual

\* What an active session will write.
LEMMA ActiveToWrite ==
    ASSUME IInv, active
    PROVE  /\ toWrite = inHand \o messages
           /\ inHand \in Seq(Messages) /\ Len(inHand) \in 0..1
           /\ messages \in Seq(Messages) /\ Len(messages) \in Nat
           /\ hand # NoMessage => hand \in Messages /\ inHand = <<hand>>
           /\ hand = NoMessage => inHand = <<>> /\ toWrite = messages
  <1>1. toWrite = inHand \o messages
    BY DEF toWrite
  <1>2. messages \in Seq(Messages) /\ Len(messages) \in Nat
    BY DEF IInv, NotClosed
  <1>3. CASE hand = NoMessage
    <2>1. inHand = <<>>
      BY <1>3 DEF inHand
    <2>2. <<>> \o messages = messages
      BY <1>2, ConcatEmptySeq
    <2> QED
      BY <1>1, <1>2, <1>3, <2>1, <2>2
  <1>4. CASE hand # NoMessage
    <2>1. hand \in Messages
      BY <1>4 DEF IInv, TypeOK, NotClosed
    <2> QED
      BY <1>1, <1>2, <1>4, <2>1 DEF inHand
  <1> QED
    BY <1>3, <1>4

LEMMA OneMoreFits ==
    ASSUME NEW a \in 0..1, NEW b \in Nat, NEW c \in Nat, ~(b >= c)
    PROVE  a + b <= c
  OBVIOUS

LEMMA PushMaps ==
    ASSUME IInv, NEW m \in Messages, Push(m)
    PROVE  Stream!Next
  <1>1. /\ active /\ m \in unsent /\ unsent' = unsent \ {m} /\ PushEventually(m)
        /\ UNCHANGED <<active, resuming, hand, written>>
    BY DEF Push
  <1>2. active' /\ inHand' = inHand
    BY <1>1 DEF inHand
  <1>3. m # NoMessage
    BY MessageAssumption
  <1>4. CASE ~full
    <2>1. messages' = Append(messages, m) /\ not_full' = not_full
      BY <1>1, <1>4 DEF PushEventually, Enqueue
    <2>2. toWrite' = Append(toWrite, m)
      BY <1>1, <1>2, <2>1, ActiveToWrite, HandFirst DEF toWrite
    <2>3. Len(toWrite) <= Capacity
      <3>1. Len(toWrite) = Len(inHand) + Len(messages)
        BY <1>1, ActiveToWrite, HandFirst
      <3>2. Len(inHand) \in 0..1 /\ Len(messages) \in Nat
        BY <1>1, ActiveToWrite
      <3>3. ~(Len(messages) >= Capacity)
        BY <1>4 DEF full
      <3> QED
        BY <3>1, <3>2, <3>3, CapacityAssumption, OneMoreFits
    <2>4. Stream!Accept(m)
      BY <1>1, <1>2, <2>1, <2>2, <2>3 DEF Stream!Accept
    <2> QED
      BY <2>4 DEF Stream!Next
  <1>5. CASE full
    <2>1. messages' = messages /\ not_full' = m
      BY <1>1, <1>5 DEF PushEventually
    <2>2. toWrite' = toWrite
      BY <1>1, <1>2, <2>1 DEF toWrite
    <2>3. Len(toWrite) >= Capacity
      BY <1>1, <1>5, ActiveToWrite, HandFirst, CapacityAssumption DEF full
    <2>4. toJoin' = (resuming \cup {m}) \ {NoMessage}
      BY <1>1, <1>2, <2>1 DEF toJoin
    <2>5. \/ toJoin' = toJoin \cup {m}
          \/ \E d \in toJoin : toJoin' = (toJoin \ {d}) \cup {m}
      <3>1. CASE not_full = NoMessage
        BY <1>1, <1>3, <2>4, <3>1 DEF toJoin
      <3>2. CASE not_full # NoMessage
        <4>1. not_full \in toJoin /\ not_full \notin resuming
          BY <1>1, <3>2 DEF toJoin, IInv, ProducersInv
        <4>2. toJoin' = (toJoin \ {not_full}) \cup {m}
          BY <1>1, <1>3, <2>4, <4>1 DEF toJoin
        <4> QED
          BY <4>1, <4>2
      <3> QED
        BY <3>1, <3>2
    <2>6. Stream!Defer(m)
      BY <1>1, <1>2, <2>2, <2>3, <2>5 DEF Stream!Defer, toJoin
    <2> QED
      BY <2>6 DEF Stream!Next
  <1> QED
    BY <1>4, <1>5

LEMMA PushResumesMaps ==
    ASSUME IInv, NEW m \in All, PushResumes(m)
    PROVE  Stream!Next \/ UNCHANGED Stream!vars
  <1>1. /\ m \in resuming /\ resuming' = resuming \ {m}
        /\ messages' = Append(messages, m)
        /\ reader' = "writing" <=> reader = "writing"
        /\ UNCHANGED <<unsent, not_full, active, hand, written>>
    BY DEF PushResumes, Enqueue
  <1>2. inHand' = inHand
    BY <1>1 DEF inHand
  <1>3. CASE active
    <2>1. m \in Messages /\ m # NoMessage /\ m # not_full
      BY <1>1, <1>3, MessageAssumption DEF IInv, ProducersInv, NotClosed, All
    <2>2. toWrite' = Append(toWrite, m)
      BY <1>1, <1>2, <1>3, <2>1, ActiveToWrite, HandFirst DEF toWrite
    <2>3. m \in toJoin /\ toJoin' = toJoin \ {m}
      BY <1>1, <1>3, <2>1 DEF toJoin
    <2>4. Stream!Join(m)
      BY <1>1, <1>3, <2>2, <2>3 DEF Stream!Join, toJoin
    <2> QED
      BY <2>1, <2>4 DEF Stream!Next
  <1>4. CASE ~active
    <2>1. toWrite' = toWrite
      BY <1>1, <1>2, <1>4 DEF toWrite
    <2> QED
      BY <1>1, <1>4, <2>1 DEF Stream!vars
  <1> QED
    BY <1>3, <1>4

LEMMA CloseSessionMaps ==
    ASSUME IInv, CloseSession
    PROVE  Stream!Next
  <1>1. /\ active /\ active' = FALSE
        /\ UNCHANGED <<unsent, hand, written>>
    BY DEF CloseSession
  <1>2. reader' = "writing" <=> reader = "writing"
    BY PushEventuallyEffect DEF CloseSession, IInv, All
  <1>3. inHand' = inHand
    BY <1>1 DEF inHand
  <1>4. CASE reader = "writing"
    <2>1. hand \in Messages /\ toWrite = <<hand>> \o messages /\ messages \in Seq(Messages)
      BY <1>1, <1>4, ActiveToWrite DEF IInv, ReaderInv
    <2>2. toWrite # <<>> /\ Head(toWrite) = hand
      BY <2>1, HeadInHand
    <2>3. toWrite' = <<hand>>
      BY <1>1, <1>2, <1>3, <1>4, <2>1, MessageAssumption DEF toWrite, inHand
    <2> QED
      BY <1>1, <2>2, <2>3 DEF Stream!Next, Stream!End
  <1>5. CASE reader # "writing"
    <2>1. toWrite' = <<>>
      BY <1>1, <1>2, <1>5 DEF toWrite
    <2> QED
      BY <1>1, <2>1 DEF Stream!Next, Stream!End
  <1> QED
    BY <1>4, <1>5

LEMMA ReaderPopsMaps ==
    ASSUME IInv, ReaderPops
    PROVE  UNCHANGED Stream!vars
  <1>1. /\ messages # <<>> /\ Pop /\ reader' = "popped" /\ reader # "writing"
        /\ hand = NoMessage
        /\ UNCHANGED <<unsent, active, written>>
    BY DEF ReaderPops, IInv, ReaderInv
  <1>2. /\ hand' = Head(messages) /\ messages' = Tail(messages)
        /\ (resuming' \cup {not_full'}) \ {NoMessage}
             = (resuming \cup {not_full}) \ {NoMessage}
    BY <1>1, PopEffect
  <1>3. CASE active
    <2>1. messages \in Seq(Messages) /\ toWrite = messages
      BY <1>1, <1>3, ActiveToWrite
    <2>2. Head(messages) \in Messages
      BY <1>1, <2>1, HeadTailProperties
    <2>3. toWrite' = <<Head(messages)>> \o Tail(messages)
      BY <1>1, <1>2, <1>3, <2>2, MessageAssumption DEF toWrite, inHand
    <2>4. toWrite' = toWrite
      BY <1>1, <2>1, <2>3, PoppedFirst
    <2> QED
      BY <1>1, <1>2, <1>3, <2>4 DEF Stream!vars
  <1>4. CASE ~active
    <2>1. toWrite = <<>> /\ toWrite' = <<>>
      BY <1>1, <1>4 DEF toWrite
    <2> QED
      BY <1>1, <1>4, <2>1 DEF Stream!vars
  <1> QED
    BY <1>3, <1>4

\* The end of a write is the delivery of its message.
LEMMA WriteEndsMaps ==
    ASSUME IInv, WriteEnds
    PROVE  Stream!Next
  <1>1. /\ hand \in Messages /\ hand # NoMessage /\ reader = "writing"
        /\ written' = Append(written, hand) /\ hand' = NoMessage /\ reader' = "top"
        /\ UNCHANGED <<unsent, not_full, resuming, messages, active>>
    BY MessageAssumption DEF WriteEnds, IInv, TypeOK, ReaderInv, producers
  <1>2. CASE active
    <2>1. toWrite = <<hand>> \o messages /\ messages \in Seq(Messages)
      BY <1>1, <1>2, ActiveToWrite
    <2>2. toWrite # <<>> /\ Head(toWrite) = hand /\ Tail(toWrite) = messages
      BY <1>1, <2>1, HeadInHand
    <2>3. toWrite' = messages
      BY <1>1, <1>2, <2>1, ConcatEmptySeq DEF toWrite, inHand
    <2> QED
      BY <1>1, <2>2, <2>3 DEF Stream!Next, Stream!Deliver
  <1>3. CASE ~active
    <2>1. toWrite = <<hand>> /\ toWrite' = <<>>
      BY <1>1, <1>3 DEF toWrite, inHand
    <2>2. toWrite # <<>> /\ Head(toWrite) = hand /\ Tail(toWrite) = <<>>
      BY <1>1, <2>1
    <2> QED
      BY <1>1, <2>1, <2>2 DEF Stream!Next, Stream!Deliver
  <1> QED
    BY <1>2, <1>3

LEMMA WriteFailsMaps ==
    ASSUME IInv, WriteFails
    PROVE  Stream!Next
  <1>1. /\ hand # NoMessage /\ reader = "writing" /\ active' = FALSE /\ reader' = "done"
        /\ UNCHANGED <<unsent, not_full, resuming, messages, written>>
    BY DEF WriteFails, IInv, ReaderInv, producers
  <1>2. toWrite' = <<>>
    BY <1>1 DEF toWrite
  <1>3. CASE active
    BY <1>1, <1>2, <1>3 DEF Stream!Next, Stream!End
  <1>4. CASE ~active
    <2>1. toWrite # <<>>
      BY <1>1, <1>4 DEF toWrite, inHand
    <2> QED
      BY <1>1, <1>2, <1>4, <2>1 DEF Stream!Next, Stream!LastFails, IInv, TypeOK
  <1> QED
    BY <1>3, <1>4

LEMMA ReaderElseMaps ==
    ASSUME IInv, ReaderWaits \/ ReaderWrites \/ ReaderLeaves
    PROVE  UNCHANGED Stream!vars
  <1>1. CASE ReaderWaits
    BY <1>1 DEF ReaderWaits, Stream!vars, toWrite, inHand, producers
  <1>2. CASE ReaderWrites
    BY <1>2 DEF ReaderWrites, Stream!vars, toWrite, inHand, producers
  <1>3. CASE ReaderLeaves
    <2>1. ~active /\ reader # "writing" /\ reader' = "done"
          /\ UNCHANGED <<producers, messages, active, written>>
      BY <1>3 DEF ReaderLeaves, IInv, NotClosed
    <2>2. toWrite = <<>> /\ toWrite' = <<>>
      BY <2>1 DEF toWrite
    <2> QED
      BY <2>1, <2>2 DEF Stream!vars, producers
  <1> QED
    BY <1>1, <1>2, <1>3

LEMMA StepMaps == IInv /\ [Next]_vars => [Stream!Next]_(Stream!vars)
  <1> SUFFICES ASSUME IInv, [Next]_vars PROVE Stream!Next \/ UNCHANGED Stream!vars
    OBVIOUS
  <1>1. CASE UNCHANGED vars
    BY <1>1 DEF vars, producers, Stream!vars, toWrite, inHand
  <1>2. ASSUME ReaderStep PROVE Stream!Next \/ UNCHANGED Stream!vars
    BY <1>2, ReaderPopsMaps, WriteEndsMaps, WriteFailsMaps, ReaderElseMaps DEF ReaderStep
  <1> QED
    BY <1>1, <1>2, PushMaps, PushResumesMaps, CloseSessionMaps DEF Next, All

\* A session's queue and its reader keep the promises of SseStream, whatever
\* its capacity and however many messages are pushed: written once, in the
\* order of the pushes but for deferred ones, and nothing begun after the end.
THEOREM QueueImplementsStream == Spec => Stream!Spec
  <1>1. Init => Stream!Init
    <2> SUFFICES ASSUME Init PROVE Stream!Init
      OBVIOUS
    <2>1. toWrite = <<>>
      BY ConcatEmptySeq, EmptySeq DEF Init, toWrite, inHand
    <2> QED
      BY <2>1 DEF Init, Stream!Init
  <1> QED
    BY <1>1, InitInv, InvStep, StepMaps, PTL DEF Spec, Stream!Spec
=============================================================================
