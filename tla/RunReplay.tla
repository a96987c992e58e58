------------------------------ MODULE RunReplay ------------------------------
(***************************************************************************)
(* domain/runs.py: RunSnapshot.replay, the only reading of a run stream    *)
(* that decides anything.  Replay is the loop of the code; Status and      *)
(* Attempt are the closed forms the engine's model and its proofs use, and *)
(* ReplayIsLastWriter says that they are the same thing.                   *)
(***************************************************************************)
EXTENDS Naturals, Sequences, FiniteSets, SequencesExt

(* An event keeps what replay and the properties read.  `attempt` is the   *)
(* attempt named in the event's data or, for an event without one, the     *)
(* attempt whose code appended it.  `usage` is what an execution reports;  *)
(* the score of an evaluation is what the policy made of it, in `data`.    *)
Resources == {"tokens", "cost"}
NoUsage   == [u \in Resources |-> 0]
Ev(type, attempt) == [type |-> type, attempt |-> attempt, usage |-> NoUsage, data |-> ""]

\* The events that set the attempt number.
StartTypes == {"run.started"}

\* The events that set the status, and the status they set.
StatusAfter(type) ==
    CASE type = "run.started"           -> "running"
      [] type \in {"evaluation.started", "evaluation.completed"} -> "evaluating"
      [] type \in {"run.retry_scheduled", "run.resumed", "run.recovered"}
                                        -> "retry_scheduled"
      [] type = "run.waiting_human"     -> "waiting_human"
      [] type = "run.paused"            -> "paused"
      [] type = "run.succeeded"         -> "succeeded"
      [] type = "run.failed"            -> "failed"
      [] type = "run.cancelled"         -> "cancelled"

StatusTypes ==
    {"run.started", "evaluation.started", "evaluation.completed",
     "run.retry_scheduled", "run.resumed", "run.recovered", "run.waiting_human",
     "run.paused", "run.succeeded", "run.failed", "run.cancelled"}

Runnable == {"created", "retry_scheduled"}
Active   == {"running", "evaluating"}
Terminal == {"succeeded", "failed", "cancelled"}

-----------------------------------------------------------------------------
\* A bug: the projection does not read who decided.
ApplyUnattributed(state, e) ==
    LET s1 == IF e.type \in StatusTypes
              THEN [state EXCEPT !.status = StatusAfter(e.type)] ELSE state
    IN  IF e.type = "evaluation.completed" THEN [s1 EXCEPT !.score = e.data] ELSE s1

\* replay: one turn of the match statement.
Apply(state, e) ==
    LET s1 == IF e.type \in StatusTypes
              THEN [state EXCEPT !.status = StatusAfter(e.type)] ELSE state
    IN  CASE e.type = "run.started"   -> [s1 EXCEPT !.attempt = e.attempt]
          [] e.type = "agent.execution.completed"
                                      -> [s1 EXCEPT !.used =
                                            [u \in Resources |-> s1.used[u] + e.usage[u]]]
          [] e.type = "agent.event" /\ e.data = "step"
                                      -> [s1 EXCEPT !.steps = @ + 1]
          [] e.type = "evaluation.completed"
                                      -> [s1 EXCEPT !.score = e.data]
          [] e.type = "hint.published"-> [s1 EXCEPT !.hints = Append(@, e)]
          [] e.type = "run.succeeded" -> [s1 EXCEPT !.override = (e.data = "human")]
          [] OTHER                    -> s1

Replay(log) ==
    FoldLeft(Apply,
             [status |-> "created", attempt |-> 0, used |-> NoUsage, steps |-> 0,
              score |-> "none", hints |-> <<>>, override |-> FALSE],
             Tail(log))

-----------------------------------------------------------------------------
\* The last position of an event of one of the types, 0 if there is none.
LastOf(log, types) ==
    LET at == {i \in DOMAIN log : log[i].type \in types}
    IN  IF at = {} THEN 0 ELSE CHOOSE i \in at : \A j \in at : j =< i

Status(log) ==
    LET i == LastOf(log, StatusTypes)
    IN  IF i = 0 THEN "created" ELSE StatusAfter(log[i].type)

Attempt(log) ==
    LET i == LastOf(log, StartTypes) IN IF i = 0 THEN 0 ELSE log[i].attempt

\* last_score
Score(log) ==
    LET i == LastOf(log, {"evaluation.completed"}) IN IF i = 0 THEN "none" ELSE log[i].data

\* human_override
Override(log) ==
    LET i == LastOf(log, {"run.succeeded"}) IN i # 0 /\ log[i].data = "human"

\* total_tokens, total_cost: one for every unit of every completed execution.
Used(log, u) ==
    Cardinality(UNION {{i} \X (1 .. log[i].usage[u]) :
        i \in {j \in DOMAIN log : log[j].type = "agent.execution.completed"}})

\* The n-th of a set of positions: what SelectSeq finds, without its recursion.
Nth(S, n) == CHOOSE i \in S : Cardinality({j \in S : j =< i}) = n

\* {hint.deduplication_key for hint in snapshot.hints}
HintKeys(log) == {log[i].data : i \in {j \in DOMAIN log : log[j].type = "hint.published"}}
=============================================================================
