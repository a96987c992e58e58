------------------------------ MODULE Decisions ------------------------------
(***************************************************************************)
(* The decisions the control plane computes without suspending: the grade  *)
(* of an output, the candidate of a mutation plan, the evidence of a       *)
(* promotion, the moment of a review.  A behaviour asks one kind of them   *)
(* again and again: a bundle evolves along a lineage, an attempt is        *)
(* observed event by event.                                                *)
(***************************************************************************)
EXTENDS Grading, BundleMutator, BenchmarkEvidence, ObservationPolicy

CONSTANTS
    Rules,          \* the rules of the rule grader, by id
    Outputs,        \* what a harness may put out: path -> value
    Verdicts,       \* what another grader may answer: [score, hard]
    Policies,       \* grading policies
    Roots,          \* bundles a lineage begins with
    Plans,          \* mutation plans
    BaseVersion, CandidateVersion,  \* of a promotion
    MaxBenchmarks,  \* bound on the benchmark runs of a side
    MaxObserved     \* bound on the events of an attempt

\* A rule grader has a rule at least, every rule a positive weight; the policy
\* and the other graders are unrestricted.
ASSUME GradingAssumption ==
    /\ IsFiniteSet(DOMAIN Rules) /\ DOMAIN Rules # {}
    /\ \A id \in DOMAIN Rules : Rules[id].weight \in Nat \ {0}
    /\ \A verdict \in Verdicts : verdict.score \in Nat
    /\ \A policy \in Policies :
          /\ policy.threshold \in Nat
          /\ \A g \in DOMAIN policy.weights : policy.weights[g] \in Int

ASSUME MutationAssumption ==
    /\ \A root \in Roots :
          /\ \A c \in MapNames : IsMap(root.maps[c])
          /\ \A c \in ConfigNames : IsDictionary(root.configs[c])
    /\ \A plan \in Plans, c \in ConfigNames : IsDictionary(plan.patch[c])

VARIABLES
    topic,      \* the kind of decision this behaviour is about
    graded,     \* [policy, results, decision] of the last evaluation
    lineage,    \* [root, bundle]: where a bundle began and what it is now
    promotion,  \* [base, candidate, passed]: the benchmark ids of a promotion
    observed    \* [events, reviews]: of an attempt, and the reviews so far

vars == <<topic, graded, lineage, promotion, observed>>

Topics == {"grading", "mutation", "promotion", "observation"}

Init ==
    /\ topic \in Topics
    /\ graded = None
    /\ lineage \in {[root |-> b, bundle |-> b] : b \in Roots}
    /\ promotion = None
    /\ observed = [events |-> <<>>, reviews |-> {}]

Evaluate ==
    /\ topic = "grading" /\ graded = None
    /\ \E output \in Outputs, verdict \in Verdicts, policy \in Policies :
          LET results == [rules |-> RuleResult(Rules, output), other |-> verdict]
          IN graded' = [policy   |-> policy,
                        results  |-> results,
                        decision |-> Aggregate(policy, results)]
    /\ UNCHANGED <<topic, lineage, promotion, observed>>

Evolve ==
    /\ topic = "mutation"
    /\ \E plan \in Plans :
          /\ Accepted(lineage.bundle, plan)
          /\ lineage' = [lineage EXCEPT !.bundle = Mutate(lineage.bundle, plan)]
    /\ UNCHANGED <<topic, graded, promotion, observed>>

Promote ==
    /\ topic = "promotion" /\ promotion = None
    /\ \E base, candidate \in BoundedSeq(DOMAIN BenchmarkRuns, MaxBenchmarks) :
          /\ Derivable(CandidateVersion, BaseVersion, base, candidate)
          /\ promotion' = [base      |-> base,
                           candidate |-> candidate,
                           passed    |-> Promotes(Evidence(base, candidate))]
    /\ UNCHANGED <<topic, graded, lineage, observed>>

Observe ==
    /\ topic = "observation" /\ Len(observed.events) < MaxObserved
    /\ \E e \in EventKinds :
          LET events == Append(observed.events, e) IN
          observed' = [events  |-> events,
                       reviews |-> IF ShouldReview(events, e)
                                   THEN observed.reviews \cup {Len(events)}
                                   ELSE observed.reviews]
    /\ UNCHANGED <<topic, graded, lineage, promotion>>

Next == Evaluate \/ Evolve \/ Promote \/ Observe

Spec == Init /\ [][Next]_vars

-----------------------------------------------------------------------------
(* A grader cannot buy what another one denies: if an output passes, every *)
(* required constraint was granted by somebody and denied by nobody,       *)
(* whatever the weights; and an evaluation that passes still passes when   *)
(* one of its results is replaced by a better one (a higher score, a       *)
(* constraint granted instead of denied), so no grader is rewarded for a   *)
(* worse answer.                                                           *)
Better(r, s) ==
    /\ s.score >= r.score
    /\ DOMAIN s.hard = DOMAIN r.hard
    /\ \A c \in DOMAIN r.hard : r.hard[c] => s.hard[c]
GradesFailClosed ==
    (graded # None /\ graded.decision = "passed") =>
        /\ \A c \in graded.policy.required :
              /\ \E g \in DOMAIN graded.results : c \in DOMAIN graded.results[g].hard
              /\ \A g \in DOMAIN graded.results :
                    c \in DOMAIN graded.results[g].hard => graded.results[g].hard[c]
        /\ \A verdict \in Verdicts :
              Better(graded.results.other, verdict) =>
                  Aggregate(graded.policy,
                            [graded.results EXCEPT !.other = verdict]) = "passed"

(* However many mutations a lineage has seen, it has its first scope, and  *)
(* the components this scope does not open are those of its first bundle.  *)
LineageKeepsScope ==
    LET open == Allowed(lineage.root.scope) IN
    /\ lineage.bundle.scope = lineage.root.scope
    /\ "system_prompt" \in open \/ lineage.bundle.prompt = lineage.root.prompt
    /\ \A c \in MapNames \ open : lineage.bundle.maps[c] = lineage.root.maps[c]
    /\ \A c \in ConfigNames \ open : lineage.bundle.configs[c] = lineage.root.configs[c]

(* A patch is merged all the way down: a key it does not name keeps its    *)
(* value, a key that is a dictionary on both sides becomes the dictionary  *)
(* of the two merged by the same rule, any other key takes the value of    *)
(* the patch with everything in it; and what comes out is a dictionary.    *)
Within(d, k) ==
    [q \in {Tail(p) : p \in {p \in DOMAIN d : p[1] = k /\ Len(p) > 1}} |-> d[<<k>> \o q]]
Value(d, k) == [is     |-> {d[p] : p \in DOMAIN d \cap {<<k>>}},
                within |-> Within(d, k)]
IsNested(d, k) == <<k>> \in DOMAIN d /\ d[<<k>>] = Dict
MergedDeeply(base, patch, new) ==
    \A k \in Keys :
        Value(new, k) =
            IF <<k>> \notin DOMAIN patch THEN Value(base, k)
            ELSE IF IsNested(base, k) /\ IsNested(patch, k)
            THEN [is |-> {Dict}, within |-> DeepMerge(Within(base, k), Within(patch, k))]
            ELSE Value(patch, k)
PatchesMergeDeeply ==
    topic = "mutation" =>
        \A plan \in Plans, c \in ConfigNames :
            LET new == Patched(lineage.bundle, plan).configs[c] IN
            /\ IsDictionary(new)
            /\ MergedDeeply(lineage.bundle.configs[c], plan.patch[c], new)

(* The policy favours the better version: what passes on some benchmark    *)
(* runs also passes on any others that are pair by pair more favourable (a *)
(* candidate run that scores more, costs less and breaks no constraint, a  *)
(* baseline run that scores less and costs more), and the same runs do not *)
(* lead back from the candidate to the baseline unless the two scored the  *)
(* same.  One exception: a baseline that cost nothing switches the         *)
(* comparison of the costs off, so it must not be exchanged for one that   *)
(* did cost something.                                                     *)
Outdoes(r, s) == r.score >= s.score /\ r.cost =< s.cost
Clean(r)      == \A c \in DOMAIN r.hard : r.hard[c]
MoreFavourable(base, candidate, p) ==
    /\ Len(base) = Len(p.base)
    /\ \A i \in DOMAIN base :
          /\ Outdoes(BenchmarkRuns[p.base[i]], BenchmarkRuns[base[i]])
          /\ Outdoes(BenchmarkRuns[candidate[i]], BenchmarkRuns[p.candidate[i]])
          /\ Clean(BenchmarkRuns[candidate[i]])
PromotionFavoursTheBetter ==
    (promotion # None /\ promotion.passed) =>
        LET shown == Evidence(promotion.base, promotion.candidate) IN
        /\ \A base, candidate \in BoundedSeq(DOMAIN BenchmarkRuns, MaxBenchmarks) :
              /\ Derivable(CandidateVersion, BaseVersion, base, candidate)
              /\ MoreFavourable(base, candidate, promotion)
              /\ base = promotion.base \/ shown.baselineCost > 0
              => Promotes(Evidence(base, candidate))
        /\ Promotes(Evidence(promotion.candidate, promotion.base)) =>
              shown.baseline = shown.candidate

(* Reviews come in rhythm: among the tool errors (the model calls) of an   *)
(* attempt exactly every n-th is reviewed.                                 *)
OnSchedule(kind, n) ==
    LET at      == {i \in DOMAIN observed.events : observed.events[i] = kind}
        reviews == at \cap observed.reviews
    IN IF n = 0 THEN reviews = {}
       ELSE /\ Cardinality(reviews) = Cardinality(at) \div n
            /\ \A i \in reviews : Cardinality({j \in at : j =< i}) % n = 0
ReviewsOnSchedule ==
    OnSchedule("tool_error", AfterToolErrors) /\ OnSchedule("model_call", EveryModelCalls)
=============================================================================
