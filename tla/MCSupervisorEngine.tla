------------------------- MODULE MCSupervisorEngine --------------------------
(* Results are folded to whether they carry the policy over its pass mark. *)
EXTENDS SupervisorEngine, TLC

CONSTANTS t1, t2, r1, r2, g1, g2

Good  == [score |-> 1, retryable |-> FALSE]
Poor  == [score |-> 0, retryable |-> TRUE]
MCResults == {Good, Poor}

MCDirectives ==
    {[action |-> "inject_hint", keys |-> <<"k1", "k1">>],
     [action |-> "pause", keys |-> <<"k1">>],
     [action |-> "spawn_subagent", keys |-> <<>>],
     [action |-> "propose_mutation", keys |-> <<>>]}

\* An advisor that gives one hint, again and again, or asks for a subagent.
MCSingle == {[action |-> "inject_hint", keys |-> <<"k1">>],
             [action |-> "spawn_subagent", keys |-> <<>>]}

MCUsages == {[tokens |-> 1, cost |-> 1]}
MCTokens == {[tokens |-> 1, cost |-> 0], [tokens |-> 3, cost |-> 0]}

MCSymmetry == Permutations(Requests)
=============================================================================
