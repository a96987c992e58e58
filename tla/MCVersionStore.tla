--------------------------- MODULE MCVersionStore ----------------------------
(* One benchmark that passes the policy and one that fails it; every call  *)
(* of a short sequence may race with the others.                           *)
EXTENDS VersionStore, TLC

CONSTANTS b1, b2, b3, c1, c2

Better == [baseline |-> 7, candidate |-> 9, regressions |-> 0,
           constraints |-> TRUE, baselineCost |-> 1, candidateCost |-> 2]
Dearer == [Better EXCEPT !.candidateCost = 3]
MCBenchmarks == {Better, Dearer}
MCPolicy == [score |-> 8, delta |-> 0, regressions |-> 0, multiplier |-> 2]

MCSymmetry == Permutations(Bundles)
=============================================================================
