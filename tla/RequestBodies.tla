----------------------------- MODULE RequestBodies -----------------------------
(***************************************************************************)
(* JSON-RPC request bodies, as far as their answers depend on them: the    *)
(* vocabulary of RequestReply and of Dispatcher, which implements it.      *)
(***************************************************************************)
EXTENDS Integers, Sequences

CONSTANTS
    Reqs,      \* the requests
    Bodies,    \* their bodies
    NoBody,    \* of a request that has not been made
    MaxBatch   \* size_limits.max_batch_size

Forms == {"unparsable", "single", "batch"}

\* An element of a body: a call of a registered method; an object that is
\* refused with an error (no "jsonrpc", no method, an unknown one); a
\* notification; or something whose fields cannot be read, because it is no
\* object or its method is no string.
Kinds == {"call", "refused", "notification", "unreadable"}

ASSUME BodiesAssumption ==
    /\ Bodies \subseteq [form : Forms, elems : Seq(Kinds)]
    /\ \A b \in Bodies : b.form = "single" => Len(b.elems) = 1
    /\ NoBody \notin Bodies
ASSUME MaxBatchAssumption == MaxBatch \in Nat \ {0}
-----------------------------------------------------------------------------
\* Rejected with a single error, without a look at the elements.
Rejected(b) ==
    \/ b.form = "unparsable"
    \/ b.form = "batch" /\ (b.elems = <<>> \/ Len(b.elems) > MaxBatch)

\* The places of the elements that ask for a response.
Answerable(b) ==
    {i \in 1..Len(b.elems) : b.elems[i] # "notification"}

Positions(s) == {s[i].pos : i \in 1..Len(s)}

Ascending(s) == \A i, j \in 1..Len(s) : i < j => s[i].pos < s[j].pos

\* A response for each element that asks for one, in their order; or the one
\* error.
IsAnswer(b, s) ==
    IF Rejected(b)
    THEN s = <<[pos |-> 0, error |-> TRUE]>>
    ELSE /\ Ascending(s)
         /\ Positions(s) = Answerable(b)
         /\ \A i \in 1..Len(s) : b.elems[s[i].pos] = "refused" => s[i].error
=============================================================================
