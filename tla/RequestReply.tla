----------------------------- MODULE RequestReply -----------------------------
(***************************************************************************)
(* What the server promises about a JSON-RPC request body: it is answered  *)
(* as a whole or not at all; the answer holds one response for each        *)
(* element that asks for one, in the order of the elements, or one error   *)
(* if the body is rejected as a whole; and it is handed over at most once. *)
(*                                                                         *)
(* How elements are handled, where answers travel and which sessions are   *)
(* open is Dispatcher's, which implements this.                            *)
(***************************************************************************)
EXTENDS RequestBodies

VARIABLES
    asked,    \* the body of each request
    answer,   \* its answer, a sequence of responses, in a set that is empty before
    handed    \* the requests whose answer was handed over

rrVars == <<asked, answer, handed>>
-----------------------------------------------------------------------------
RRInit ==
    /\ asked = [r \in Reqs |-> NoBody]
    /\ answer = [r \in Reqs |-> {}]
    /\ handed = {}

Ask(r) ==
    /\ asked[r] = NoBody
    /\ \E b \in Bodies : asked' = [asked EXCEPT ![r] = b]
    /\ UNCHANGED <<answer, handed>>

Answer(r) ==
    /\ asked[r] # NoBody
    /\ answer[r] = {}
    /\ \E s \in answer'[r] :
          IsAnswer(asked[r], s) /\ answer' = [answer EXCEPT ![r] = {s}]
    /\ UNCHANGED <<asked, handed>>

HandOver(r) ==
    /\ answer[r] # {} /\ <<>> \notin answer[r]
    /\ r \notin handed
    /\ handed' = handed \cup {r}
    /\ UNCHANGED <<asked, answer>>

RRNext == \E r \in Reqs : Ask(r) \/ Answer(r) \/ HandOver(r)

RRSpec == RRInit /\ [][RRNext]_rrVars
=============================================================================
