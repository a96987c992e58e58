-------------------------- MODULE BenchmarkEvidence --------------------------
(***************************************************************************)
(* api/app.py: _derive_promotion_evidence, which turns benchmark runs of   *)
(* two versions into the evidence of a promotion, and PromotionPolicy.     *)
(*                                                                         *)
(* A run is [version, status, score, override, task, hard, cost]: score is *)
(* None before an evaluation, task stands for goal, graders and grading    *)
(* policy, hard are the constraints its last evaluation reported.  Only an *)
(* approval sets override: a run that a human rejected is a failed run     *)
(* like any other, and counts with the score it had.                       *)
(***************************************************************************)
EXTENDS Integers, Sequences, FiniteSets, SequencesExt

CONSTANTS
    BenchmarkRuns,  \* BenchmarkRuns[id]: the run with that id
    Promotion,      \* PromotionPolicy: [score, delta, regressions, multiplier]
    None

ASSUME BenchmarkAssumption ==
    /\ \A id \in DOMAIN BenchmarkRuns :
          /\ BenchmarkRuns[id].score \in Nat \cup {None}
          /\ BenchmarkRuns[id].cost \in Nat
    /\ Promotion.score \in Nat /\ Promotion.delta \in Nat
    /\ Promotion.regressions \in Nat
    /\ Promotion.multiplier \in (Nat \ {0}) \cup {None}

\* _validate_benchmark_run
ValidRun(run, version) ==
    /\ run.version = version
    /\ run.status \in {"succeeded", "failed"}
    /\ run.score # None
    /\ ~run.override

Runs(ids)    == [i \in DOMAIN ids |-> BenchmarkRuns[ids[i]]]
Scores(runs) == [i \in DOMAIN runs |-> runs[i].score]
Costs(runs)  == [i \in DOMAIN runs |-> runs[i].cost]

\* PromotionEvidence asks for one run at least (fmean of none raises).
Derivable(candidate, baseline, baseIds, candIds) ==
    LET base == Runs(baseIds)
        cand == Runs(candIds)
    IN /\ baseline # None
       /\ Len(baseIds) = Len(candIds) /\ baseIds # <<>>
       /\ IsInjective(baseIds \o candIds)
       /\ \A i \in DOMAIN base :
             /\ ValidRun(base[i], baseline)
             /\ ValidRun(cand[i], candidate)
             /\ base[i].task = cand[i].task

\* A bug: the costs of the two sides are exchanged.
EvidenceCrossed(baseIds, candIds) ==
    LET base == Runs(baseIds)
        cand == Runs(candIds)
    IN [runs          |-> Len(base),
        baseline      |-> SumFunction(Scores(base)),
        candidate     |-> SumFunction(Scores(cand)),
        regressions   |-> Cardinality({i \in DOMAIN base : cand[i].score < base[i].score}),
        constraints   |-> \A i \in DOMAIN cand :
                              \A c \in DOMAIN cand[i].hard : cand[i].hard[c],
        baselineCost  |-> SumFunction(Costs(cand)),
        candidateCost |-> SumFunction(Costs(base))]

\* Scores and costs are summed: the two sides have the same number of runs.
Evidence(baseIds, candIds) ==
    LET base == Runs(baseIds)
        cand == Runs(candIds)
    IN [runs          |-> Len(base),
        baseline      |-> SumFunction(Scores(base)),
        candidate     |-> SumFunction(Scores(cand)),
        regressions   |-> Cardinality({i \in DOMAIN base : cand[i].score < base[i].score}),
        constraints   |-> \A i \in DOMAIN cand :
                              \A c \in DOMAIN cand[i].hard : cand[i].hard[c],
        baselineCost  |-> SumFunction(Costs(base)),
        candidateCost |-> SumFunction(Costs(cand))]

\* PromotionPolicy.evaluate
Promotes(shown) ==
    /\ shown.candidate >= Promotion.score * shown.runs
    /\ shown.candidate - shown.baseline >= Promotion.delta * shown.runs
    /\ shown.regressions =< Promotion.regressions
    /\ shown.constraints
    /\ (Promotion.multiplier # None /\ shown.baselineCost > 0) =>
          shown.candidateCost =< shown.baselineCost * Promotion.multiplier
=============================================================================
