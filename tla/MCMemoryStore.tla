---------------------------- MODULE MCMemoryStore ----------------------------
(* Two versions of one agent, and two reviews of a memory at a time.       *)
EXTENDS MemoryStore, TLC

CONSTANTS m1, v1, v2, n1, d1, q1, q2

MCOwner     == (v1 :> n1) @@ (v2 :> n1)
MCVersionOf == d1 :> v1
=============================================================================
