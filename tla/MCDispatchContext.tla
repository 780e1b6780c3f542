-------------------------- MODULE MCDispatchContext --------------------------
(* Sessions and bodies for the runs of DispatchContext: one session on each  *)
(* shard; single requests, and batches in which an element follows one that  *)
(* suspends.                                                                 *)
EXTENDS DispatchContext, TLC

CONSTANTS sh1, sh2, s1, s2

MCHome == (s1 :> sh1) @@ (s2 :> sh2)

MCBodies == {<<"tool">>, <<"setLevel">>, <<"setLevel", "subscribe">>,
             <<"tool", "subscribe">>}
=============================================================================
