----------------------------- MODULE MCDecisions -----------------------------
(* Two rules and one other grader; dictionaries three levels deep; runs    *)
(* that are valid and runs that each break one condition.                  *)
EXTENDS Decisions, TLC

CONSTANTS v1, v2

MCRules ==
    [safe |-> [path |-> "a", operator |-> "not_exists", expected |-> Missing,
               weight |-> 1, hard |-> TRUE],
     done |-> [path |-> "b", operator |-> "gte", expected |-> Number(1),
               weight |-> 1, hard |-> FALSE]]
MCOutputs  == [{"a", "b"} -> {Missing, Number(0), Number(1), List({Number(1)})}]
MCVerdicts == [score : {0, 1, 2},
               hard  : UNION {[S -> BOOLEAN] : S \in SUBSET {"safe", "kind"}}]
MCPolicies == [threshold : {1, 2},
               weights   : UNION {[S -> {-1, 0, 2}] : S \in SUBSET {"rules", "other"}},
               required  : SUBSET {"safe", "kind"}]

Maps(keys, values) == UNION {[S -> values] : S \in SUBSET keys}
Paths    == {<<"k">>, <<"k", "k">>, <<"k", "l">>, <<"k", "l", "m">>}
Trees    == {d \in Maps(Paths, {Dict, "x", "y"}) : IsDictionary(d)}
Entries  == Maps({"s"}, {"c2"})

MCPlans ==
    [prompt : {"", "p2"},
     upsert : [{"skills", "mcp_servers"} -> Entries],
     remove : [{"skills", "mcp_servers"} -> {{}, {"s"}}],
     patch  : [{"workflow_config"} -> Trees]]
MCRoots ==
    [scope   : {"hint_only", "prompt_only", "prompt_and_skills", "full_agent_bundle"},
     prompt  : {"p1"},
     maps    : [{"skills", "mcp_servers"} -> {[s |-> "c1"]}],
     configs : [{"workflow_config"} -> {[p \in Paths |->
                    IF p \in {<<"k">>, <<"k", "l">>} THEN Dict ELSE "x"]}]]

Good(version, score) ==
    [version |-> version, status |-> "succeeded", score |-> score, override |-> FALSE,
     task |-> 1, hard |-> [safe |-> TRUE], cost |-> 1]
MCBenchmarkRuns ==
    <<Good(v1, 1), Good(v1, 2), Good(v2, 1), Good(v2, 3),
      [Good(v1, 1) EXCEPT !.task = 2],
      [Good(v2, 3) EXCEPT !.override = TRUE],
      [Good(v2, 3) EXCEPT !.hard = [safe |-> FALSE]],
      [Good(v2, 3) EXCEPT !.cost = 3],
      [Good(v2, 3) EXCEPT !.status = "running"],
      [Good(v2, 3) EXCEPT !.score = None],
      [Good(v1, 1) EXCEPT !.cost = 0], [Good(v1, 1) EXCEPT !.cost = 3]>>
MCPromotion == [score |-> 1, delta |-> 0, regressions |-> 1, multiplier |-> 2]
=============================================================================
