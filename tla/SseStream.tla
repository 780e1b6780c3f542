------------------------------ MODULE SseStream ------------------------------
(***************************************************************************)
(* What a session's stream promises those who push messages to it: the     *)
(* messages are written once each and in the order of the pushes, up to    *)
(* Limit of them wait, one is perhaps in the writer's hand, and after the  *)
(* end at most that one is still written.  A push that finds Limit waiting *)
(* is deferred: its message joins later, behind messages pushed in the     *)
(* meantime perhaps, and a deferred message may be lost to the next one.   *)
(***************************************************************************)
EXTENDS Naturals, Sequences

CONSTANTS
    Messages,  \* what is pushed, each message once
    Limit      \* the messages that wait before a push is deferred

VARIABLES
    fresh,     \* the messages not pushed yet
    inbox,     \* the messages to be written, in order
    deferred,  \* those that have still to join
    written,   \* what has been written
    open       \* the stream has not ended

vars == <<fresh, inbox, deferred, written, open>>
-----------------------------------------------------------------------------
Init ==
    /\ fresh = Messages
    /\ inbox = <<>>
    /\ deferred = {}
    /\ written = <<>>
    /\ open = TRUE

Accept(m) ==
    /\ open
    /\ m \in fresh
    /\ Len(inbox) <= Limit
    /\ fresh' = fresh \ {m}
    /\ inbox' = Append(inbox, m)
    /\ UNCHANGED <<deferred, written, open>>

\* At most one message that was deferred before is lost to this one.
Defer(m) ==
    /\ open
    /\ m \in fresh
    /\ Len(inbox) >= Limit
    /\ fresh' = fresh \ {m}
    /\ \/ deferred' = deferred \cup {m}
       \/ \E d \in deferred : deferred' = (deferred \ {d}) \cup {m}
    /\ UNCHANGED <<inbox, written, open>>

Join(m) ==
    /\ open
    /\ m \in deferred
    /\ inbox' = Append(inbox, m)
    /\ deferred' = deferred \ {m}
    /\ UNCHANGED <<fresh, written, open>>

Deliver ==
    /\ inbox # <<>>
    /\ written' = Append(written, Head(inbox))
    /\ inbox' = Tail(inbox)
    /\ UNCHANGED <<fresh, deferred, open>>

\* The end, by a close or a failed write, at most once.
End ==
    /\ open
    /\ open' = FALSE
    /\ deferred' = {}
    /\ \/ inbox' = <<>>
       \/ inbox # <<>> /\ inbox' = <<Head(inbox)>>
    /\ UNCHANGED <<fresh, written>>

\* After a close the write under way may still fail.
LastFails ==
    /\ ~open
    /\ inbox # <<>>
    /\ inbox' = <<>>
    /\ UNCHANGED <<fresh, deferred, written, open>>

Next ==
    \/ \E m \in Messages : Accept(m) \/ Defer(m) \/ Join(m)
    \/ Deliver \/ End \/ LastFails

Spec == Init /\ [][Next]_vars

\* Messages that wait are written, and deferred ones join unless they are lost
\* to another; or the stream ends.
FairSpec ==
    /\ Spec
    /\ WF_vars(Deliver)
    /\ \A m \in Messages : WF_vars(Join(m))
=============================================================================
