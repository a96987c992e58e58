---------------------------- MODULE MCEventStore -----------------------------
(* Two processes, one of them with two writers: the lock orders w1 and w2, *)
(* only the uniqueness constraint orders them with w3.                     *)
EXTENDS EventStore, TLC

CONSTANTS p1, p2, w1, w2, w3, e1, e2

MCHome    == (w1 :> p1) @@ (w2 :> p1) @@ (w3 :> p2)
MCBatches == {<<e1>>, <<e2, e1>>}

\* w1 and w2 are interchangeable: the same process, the same batches.
MCSymmetry == Permutations({w1, w2})
=============================================================================
