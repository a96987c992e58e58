------------------------------- MODULE Grading -------------------------------
(***************************************************************************)
(* grading/rules.py and grading/policy.py: what a rule grader says of an   *)
(* output, and what a policy makes of the results of all graders.          *)
(*                                                                         *)
(* Scores are parts of Scale.  An output is a function from the paths that *)
(* the rules name to values; regular expressions are left out.             *)
(***************************************************************************)
EXTENDS Integers, Functions

CONSTANT Scale  \* the score 1.0; the weights of a grader's rules add up to a divisor

ASSUME ScaleAssumption == Scale \in Nat

Missing   == [kind |-> "missing"]
Number(n) == [kind |-> "number", n |-> n]
List(S)   == [kind |-> "list", items |-> S]

\* RuleGrader._matches: a comparison that raises TypeError is a failed rule.
Compares(operator, actual, expected) ==
    CASE operator = "equals"     -> actual = expected
      [] operator = "not_equals" -> actual # expected
      [] operator = "contains"   -> actual.kind = "list" /\ expected \in actual.items
      [] OTHER ->
            /\ actual.kind = "number" /\ expected.kind = "number"
            /\ CASE operator = "gt"  -> actual.n > expected.n
                 [] operator = "gte" -> actual.n >= expected.n
                 [] operator = "lt"  -> actual.n < expected.n
                 [] operator = "lte" -> actual.n =< expected.n

Matches(rule, actual) ==
    CASE rule.operator = "exists"     -> actual # Missing
      [] rule.operator = "not_exists" -> actual = Missing
      [] OTHER -> actual # Missing /\ Compares(rule.operator, actual, rule.expected)

\* RuleGrader.evaluate, the rules by their ids.
RuleResult(rules, output) ==
    LET holds == {id \in DOMAIN rules : Matches(rules[id], output[rules[id].path])}
        Weight(ids) == SumFunction([id \in ids |-> rules[id].weight])
    IN [score |-> (Scale * Weight(holds)) \div Weight(DOMAIN rules),
        hard  |-> [id \in {i \in DOMAIN rules : rules[i].hard} |-> id \in holds]]

-----------------------------------------------------------------------------
(* A policy is [threshold, weights, required], the results a function from *)
(* grader ids to [score, hard].                                            *)

\* A bug: one grader that grants a constraint is enough.
ConstraintGranted(constraint, results) ==
    \E g \in DOMAIN results :
        constraint \in DOMAIN results[g].hard /\ results[g].hard[constraint]

\* GradingPolicy._constraint_passed: somebody reports it, nobody denies it.
ConstraintPassed(constraint, results) ==
    LET reporting == {g \in DOMAIN results : constraint \in DOMAIN results[g].hard}
    IN reporting # {} /\ \A g \in reporting : results[g].hard[constraint]

WeightOf(policy, g) == IF g \in DOMAIN policy.weights THEN policy.weights[g] ELSE 1

\* GradingPolicy.aggregate: "refused" is the ValueError of bad weights.
Aggregate(policy, results) ==
    LET graders == DOMAIN results
        total   == SumFunction([g \in graders |-> WeightOf(policy, g)])
        points  == SumFunction([g \in graders |-> WeightOf(policy, g) * results[g].score])
    IN IF total =< 0 \/ \E g \in graders : WeightOf(policy, g) < 0
       THEN "refused"
       ELSE IF /\ points >= policy.threshold * total
               /\ \A c \in policy.required : ConstraintPassed(c, results)
       THEN "passed" ELSE "failed"
=============================================================================
