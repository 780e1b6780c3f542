---------------------------- MODULE SessionQueue -----------------------------
(***************************************************************************)
(* SseSession (include/mcp/transport/transport.hh): the queue between      *)
(* those who push messages to a session (McpShard::push_to_session, the    *)
(* broadcasts) and the one coroutine that writes its stream, down to the   *)
(* wake-ups.  ShardSessions counts the messages of such a queue; this      *)
(* module follows them, and implements SseStream.                          *)
(*                                                                         *)
(* seastar::queue, as it is used here, has one promise for a consumer that *)
(* waits and one for a producer that waits.  A second waiting producer     *)
(* replaces the promise of the first, whose continuation never pushes.     *)
(* What a fulfilled promise lets run is a task of its own.                 *)
(***************************************************************************)
EXTENDS Naturals, Sequences

CONSTANTS
    Messages,  \* what is pushed, each message once
    NoMessage, \* no message
    Close,     \* the empty message that ends the stream
    Capacity   \* the capacity of the queue

ASSUME MessageAssumption ==
    NoMessage \notin Messages /\ Close \notin Messages /\ Close # NoMessage
ASSUME CapacityAssumption == Capacity \in Nat \ {0}

VARIABLES
    unsent,    \* the messages not pushed yet
    messages,  \* SseSession::messages
    active,    \* SseSession::active
    not_full,  \* the message of the producer that waits for room, or NoMessage
    resuming,  \* the messages of woken producers, whose pushes are scheduled
    reader,    \* where the body writer is
    hand,      \* the message it has popped, or NoMessage
    written    \* what it has written to the connection

\* "top": at the loop condition; "waiting": in pop_eventually on an empty queue;
\* "woken": its pop is scheduled; "popped": it has its message, but has not gone
\* on; "writing": in out.write or flush.
Pcs == {"top", "waiting", "woken", "popped", "writing", "done"}

producers == <<unsent, not_full, resuming>>
vars == <<producers, messages, active, reader, hand, written>>
-----------------------------------------------------------------------------
Init ==
    /\ unsent = Messages
    /\ messages = <<>>
    /\ active = TRUE
    /\ not_full = NoMessage
    /\ resuming = {}
    /\ reader = "top"
    /\ hand = NoMessage
    /\ written = <<>>

full == Len(messages) >= Capacity

\* Mutant: a full queue drops the message.
PushEventuallyDrops(m) ==
    \/ /\ Len(messages) < Capacity
       /\ messages' = Append(messages, m)
       /\ reader' = IF reader = "waiting" THEN "woken" ELSE reader
       /\ UNCHANGED not_full
    \/ /\ Len(messages) >= Capacity
       /\ UNCHANGED <<messages, reader, not_full>>

\* A message enters the queue; a waiting reader is woken.
Enqueue(m) ==
    /\ messages' = Append(messages, m)
    /\ reader' = IF reader = "waiting" THEN "woken" ELSE reader

PushEventually(m) ==
    \/ /\ ~full
       /\ Enqueue(m)
       /\ UNCHANGED not_full
    \/ /\ full
       /\ not_full' = m
       /\ UNCHANGED <<messages, reader>>

\* push_to_session and the broadcasts.
Push(m) ==
    /\ m \in unsent
    /\ active
    /\ unsent' = unsent \ {m}
    /\ PushEventually(m)
    /\ UNCHANGED <<active, resuming, hand, written>>

\* The continuation of a push that waited; it does not test again for room.
PushResumes(m) ==
    /\ m \in resuming
    /\ resuming' = resuming \ {m}
    /\ Enqueue(m)
    /\ UNCHANGED <<unsent, not_full, active, hand, written>>

\* Mutant: no closing message is pushed.
CloseSessionNoWake ==
    /\ active
    /\ active' = FALSE
    /\ UNCHANGED <<producers, messages, reader, hand, written>>

\* DELETE /mcp and McpShard::stop.
CloseSession ==
    /\ active
    /\ active' = FALSE
    /\ PushEventually(Close)
    /\ UNCHANGED <<unsent, resuming, hand, written>>

-----------------------------------------------------------------------------
(* The body writer. *)

\* queue::pop: from a queue that is exactly full it wakes the waiting producer.
Pop ==
    /\ hand' = Head(messages)
    /\ messages' = Tail(messages)
    /\ IF Len(messages) = Capacity /\ not_full # NoMessage
       THEN resuming' = resuming \cup {not_full} /\ not_full' = NoMessage
       ELSE UNCHANGED <<resuming, not_full>>

ReaderPops ==
    /\ \/ reader = "top" /\ active /\ messages # <<>>
       \/ reader = "woken"
    /\ Pop
    /\ reader' = "popped"
    /\ UNCHANGED <<unsent, active, written>>

ReaderWaits ==
    /\ reader = "top"
    /\ active
    /\ messages = <<>>
    /\ reader' = "waiting"
    /\ UNCHANGED <<producers, messages, active, hand, written>>

\* Mutant: what was popped is written without looking at it or at active.
ReaderWritesUnchecked ==
    /\ reader = "popped"
    /\ reader' = "writing"
    /\ UNCHANGED <<producers, messages, active, hand, written>>

ReaderWrites ==
    /\ reader = "popped"
    /\ hand # Close
    /\ active
    /\ reader' = "writing"
    /\ UNCHANGED <<producers, messages, active, hand, written>>

WriteEnds ==
    /\ reader = "writing"
    /\ written' = Append(written, hand)
    /\ hand' = NoMessage
    /\ reader' = "top"
    /\ UNCHANGED <<producers, messages, active>>

\* The catch clause.
WriteFails ==
    /\ reader = "writing"
    /\ active' = FALSE
    /\ hand' = NoMessage
    /\ reader' = "done"
    /\ UNCHANGED <<producers, messages, written>>

ReaderLeaves ==
    /\ \/ reader = "top" /\ ~active
       \/ reader = "popped" /\ (hand = Close \/ ~active)
    /\ hand' = NoMessage
    /\ reader' = "done"
    /\ UNCHANGED <<producers, messages, active, written>>

ReaderStep ==
    ReaderPops \/ ReaderWaits \/ ReaderWrites \/ WriteEnds \/ WriteFails \/ ReaderLeaves

Next ==
    \/ \E m \in Messages : Push(m)
    \/ \E m \in Messages \cup {Close} : PushResumes(m)
    \/ CloseSession
    \/ ReaderStep

Spec == Init /\ [][Next]_vars

\* The reactor runs what is ready, and a write ends or fails.
Fairness ==
    /\ WF_vars(ReaderStep)
    /\ \A m \in Messages \cup {Close} : WF_vars(PushResumes(m))

FairSpec == Spec /\ Fairness
-----------------------------------------------------------------------------
(* Properties. *)

TypeOK ==
    /\ unsent \subseteq Messages
    /\ messages \in Seq(Messages \cup {Close})
    /\ active \in BOOLEAN
    /\ not_full \in Messages \cup {Close, NoMessage}
    /\ resuming \subseteq Messages \cup {Close}
    /\ reader \in Pcs
    /\ hand \in Messages \cup {Close, NoMessage}
    /\ written \in Seq(Messages)

\* What the writer will still write, if nothing fails: while the session is
\* active all that is queued, afterwards only what is being written.
inHand == IF hand = NoMessage THEN <<>> ELSE <<hand>>
toWrite ==
    IF active THEN inHand \o messages
    ELSE IF reader = "writing" THEN inHand ELSE <<>>

Stream == INSTANCE SseStream WITH
    Limit <- Capacity,
    fresh <- unsent,
    inbox <- toWrite,
    deferred <- IF active THEN (resuming \cup {not_full}) \ {NoMessage} ELSE {},
    open <- active

\* The queue and its reader keep what SseStream promises: no message is written
\* twice or out of order unless it was deferred, none is lost but a deferred
\* one, nothing is begun after the end, and no wake-up is missed.
\* push_to_session and the body writers.
ImplementsStream == Stream!FairSpec

\* Nobody sleeps through what would wake it: a reader waits only while its
\* session is active and the queue is empty, a producer only while the queue is
\* full.  seastar::queue wakes by a promise, once, and a promise not fulfilled
\* at the right moment (a pop from a full queue, a push to an empty one, a
\* close) is never fulfilled later.
NoMissedWakeUp ==
    /\ reader = "waiting" => active /\ messages = <<>>
    /\ not_full # NoMessage => full

\* A closed session's reader leaves, whatever the queue held when it was closed
\* and although the closing message may have to wait for room.
ClosedReaderLeaves == ~active ~> reader = "done"
=============================================================================
