----------------------------- MODULE MCDispatcher -----------------------------
(***************************************************************************)
(* Dispatcher for TLC: two requests, with bodies of each form and batches  *)
(* that mix what is answered, what is not, and what throws; one session of *)
(* each transport, on different shards.                                    *)
(***************************************************************************)
EXTENDS Dispatcher

CONSTANTS sh0, sh1

MCShards == {sh0, sh1}

Single(kind) == [form |-> "single", elems |-> <<kind>>]
Batch(kinds) == [form |-> "batch", elems |-> kinds]

MCBodies ==
    { Single("notification"),
      Batch(<<"refused", "notification", "call">>),
      Batch(<<"refused", "unreadable">>),
      Batch(<<"refused", "refused", "refused", "refused">>) }

MCSessions == {[kind |-> "s", shard |-> sh0], [kind |-> "sm", shard |-> sh1]}
=============================================================================
