--------------------------- MODULE EngineAttempt ----------------------------
(***************************************************************************)
(* application/engine.py: run_until_blocked, _execute_attempt, _evaluate   *)
(* and their error paths, run as the background task RunTaskManager._run   *)
(* (application/tasks.py), with the harness and the graders it calls.      *)
(***************************************************************************)
EXTENDS EngineState

Appending ==
    {"start", "completed", "evaluate", "evaluated", "verdict", "control",
     "budget", "failed", "internal"}

\* run_until_blocked: one snapshot per turn of the loop.
Load(t) ==
    /\ task[t].pc = "load"
    /\ IF Status(log) \in Runnable
       THEN task' = [task EXCEPT ![t].pc = "start", ![t].snap = Snapshot]
       ELSE Goto(t, "done")
    /\ UNCHANGED <<log, manager, emits, grades, request, bounds>>

\* The events of the append a task is about to make.
Verdict(a, arg) ==
    CASE arg = "pass"  -> <<[Ev("run.succeeded", a) EXCEPT !.data = "graders"]>>
      [] arg = "retry" -> <<[Ev("hint.published", a) EXCEPT !.data = "evaluation"],
                            Ev("run.retry_scheduled", a + 1)>>
      [] arg = "human" -> <<Ev("run.waiting_human", a)>>
      [] arg = "fail"  -> <<Ev("run.failed", a)>>

Control(a, action) ==
    CASE action = "pause"         -> <<Ev("run.paused", a)>>
      [] action = "request_human" -> <<Ev("run.waiting_human", a)>>
      [] action = "abort"         -> <<Ev("run.failed", a)>>

Batch(t) ==
    LET a   == AttemptOf(t)
        arg == task[t].arg
        pc  == task[t].pc
    IN  CASE pc = "start"     -> <<Ev("run.started", a)>>
          [] pc = "completed" -> <<[Ev("agent.execution.completed", a)
                                    EXCEPT !.usage = task[t].usage]>>
          [] pc = "evaluate"  -> <<Ev("evaluation.started", a)>>
          [] pc = "evaluated" -> <<[Ev("evaluation.completed", a) EXCEPT !.data =
                                    IF arg = "pass" THEN "passed" ELSE "not passed"]>>
          [] pc = "verdict"   -> Verdict(a, arg)
          [] pc = "control"   -> Control(a, arg)
          [] pc = "budget"    -> <<Ev("budget.exhausted", a), Ev("run.waiting_human", a)>>
          [] pc = "failed"    -> <<Ev("agent.execution.failed", a),
                                   Ev("run.waiting_human", a)>>
          [] pc = "internal"  -> <<Ev("run.internal_failed", a),
                                   Ev("run.waiting_human", a)>>

Limit == [u \in Resources |-> IF u = "tokens" THEN MaxTokens ELSE MaxCost]

\* A bug: the budget of the run is compared with the usage of one attempt.
OverBudgetAlone(t) == \E u \in Resources : task[t].usage[u] > Limit[u]

OverBudget(t) == \E u \in Resources : task[t].snap.used[u] + task[t].usage[u] > Limit[u]

\* Where the task goes once the append has returned.
After(t) ==
    CASE task[t].pc = "start"     -> "execute"
      [] task[t].pc = "completed" -> IF OverBudget(t) THEN "budget" ELSE "evaluate"
      [] task[t].pc = "evaluate"  -> "gather"
      [] task[t].pc = "evaluated" -> "verdict"
      [] task[t].pc = "internal"  -> "done"
      [] OTHER                    -> "load"

\* asyncio.gather over _safe_grade
NewGrades(t) ==
    {[owner |-> t, attempt |-> AttemptOf(t), grader |-> g, pc |-> "grading",
      ver |-> 0, res |-> [score |-> 0, retryable |-> FALSE]] : g \in Graders}

TaskReadsVersion(t) ==
    /\ task[t].pc \in Appending /\ task[t].ver = 0
    /\ task' = [task EXCEPT ![t] = ReadVersion(@)]
    /\ UNCHANGED <<log, manager, emits, grades, request, bounds>>

TaskAppends(t) ==
    /\ task[t].pc \in Appending /\ task[t].ver # 0
    /\ Accepted(task[t])
    /\ log' = log \o Batch(t)
    /\ Continue(t, After(t))
    /\ grades' = IF task[t].pc = "evaluate" THEN grades \cup NewGrades(t) ELSE grades
    /\ UNCHANGED <<manager, emits, request, bounds>>

\* EventStoreConcurrencyError leaves run_until_blocked: _run records the
\* error and calls record_internal_failure, whose own failure is dropped.
TaskConflicts(t) ==
    /\ task[t].pc \in Appending /\ task[t].ver # 0
    /\ ~Accepted(task[t])
    /\ Goto(t, IF task[t].pc = "internal" THEN "done" ELSE "crashed")
    /\ failure' = TRUE
    /\ UNCHANGED <<log, registered, startLock, emits, grades, request, bounds>>

\* record_internal_failure reads a snapshot of its own.
RecordInternalFailure(t) ==
    /\ task[t].pc = "crashed"
    /\ Goto(t, IF Status(log) \in Terminal THEN "done" ELSE "internal")
    /\ UNCHANGED <<log, manager, emits, grades, request, bounds>>

-----------------------------------------------------------------------------
(* harness.execute, and the emit calls it makes.  The harness awaits one   *)
(* emit before the next.  What it does with its answers is external.       *)

HarnessEmits(t) ==
    /\ task[t].pc = "execute"
    /\ OwnEmits(t) = {}
    /\ Cardinality({i \in DOMAIN log : log[i].type = "agent.event"}) < MaxEvents
    /\ \E kind \in HarnessEvents :
          emits' = emits \cup {[owner |-> t, attempt |-> AttemptOf(t), pc |-> "event",
                                ver |-> 0, kind |-> kind, known |-> task[t].snap.keys,
                                dir |-> [action |-> "continue", keys |-> <<>>]]}
    /\ UNCHANGED <<log, task, manager, grades, request, bounds>>

HarnessReturns(t) ==
    /\ task[t].pc = "execute"
    /\ OwnEmits(t) = {}
    /\ \E u \in Usages :
          task' = [task EXCEPT ![t].pc = "completed", ![t].usage = u]
    /\ UNCHANGED <<log, manager, emits, grades, request, bounds>>

\* The harness, or the memory query before it, raises.
HarnessRaises(t) ==
    /\ task[t].pc = "execute"
    /\ OwnEmits(t) = {}
    /\ Goto(t, "failed")
    /\ UNCHANGED <<log, manager, emits, grades, request, bounds>>

\* asyncio.wait_for: the harness call is cancelled.  An emit that another
\* thread scheduled on the loop (harness/dsh.py) is not.
AttemptTimesOut(t) ==
    /\ task[t].pc = "execute"
    /\ Goto(t, "failed")
    /\ emits' = IF DetachedEmit THEN emits ELSE emits \ OwnEmits(t)
    /\ UNCHANGED <<log, manager, grades, request, bounds>>

-----------------------------------------------------------------------------
(* The graders of an evaluation: asyncio.gather over _safe_grade.  A       *)
(* grader that raises appends grader.failed; if that append conflicts, the *)
(* gather raises, and the other graders go on running with nobody to       *)
(* collect them.                                                           *)

OwnGrades(t) == {g \in grades : g.owner = t /\ g.attempt = AttemptOf(t)}
Gathered(g)  == task[g.owner].pc = "gather" /\ AttemptOf(g.owner) = g.attempt

GradeDone(g, res) ==
    grades' = (grades \ {g}) \cup
              (IF Gathered(g) THEN {[g EXCEPT !.pc = "done", !.ver = 0, !.res = res]} ELSE {})

GraderReturns(g) ==
    /\ g.pc = "grading"
    /\ \E res \in Results : GradeDone(g, res)
    /\ UNCHANGED <<log, task, manager, emits, request, bounds>>

GraderRaises(g) ==
    /\ g.pc = "grading"
    /\ grades' = (grades \ {g}) \cup {[g EXCEPT !.pc = "record"]}
    /\ UNCHANGED <<log, task, manager, emits, request, bounds>>

GraderReadsVersion(g) ==
    /\ g.pc = "record" /\ g.ver = 0
    /\ grades' = (grades \ {g}) \cup {ReadVersion(g)}
    /\ UNCHANGED <<log, task, manager, emits, request, bounds>>

GraderAppends(g) ==
    /\ g.pc = "record" /\ g.ver # 0
    /\ Accepted(g)
    /\ log' = log \o <<Ev("grader.failed", g.attempt)>>
    /\ GradeDone(g, [score |-> 0, retryable |-> FALSE])
    /\ UNCHANGED <<task, manager, emits, request, bounds>>

\* A bug: the append is tried again and again with the version already read.
GraderConflictsInVain(g) ==
    /\ g.pc = "record" /\ g.ver # 0
    /\ ~Accepted(g)
    /\ UNCHANGED vars

GraderConflicts(g) ==
    /\ g.pc = "record" /\ g.ver # 0
    /\ ~Accepted(g)
    /\ IF Gathered(g)
       THEN /\ grades' = {h \in grades \ {g} : h \in OwnGrades(g.owner) => h.pc # "done"}
            /\ Goto(g.owner, "crashed")
            /\ failure' = TRUE
       ELSE /\ grades' = grades \ {g}
            /\ UNCHANGED <<task, failure>>
    /\ UNCHANGED <<log, registered, startLock, emits, request, bounds>>

\* grading_policy.aggregate, with the weights folded into the scores.
Passes(results)   == MapThenSumSet(LAMBDA g : g.res.score, results) >= PassMark
CanRetryOnceMore(a) == a =< MaxRetries + 1  \* a bug: off by one
CanRetry(a)       == a =< MaxRetries
Decide(results, a) ==
    CASE Passes(results)          -> "pass"
      [] /\ ~Passes(results)
         /\ \E g \in results : g.res.retryable
         /\ CanRetry(a)           -> "retry"
      [] OTHER                    -> IF HumanOnExhaustion THEN "human" ELSE "fail"

Gather(t) ==
    /\ task[t].pc = "gather"
    /\ \A g \in OwnGrades(t) : g.pc = "done"
    /\ GotoWith(t, "evaluated", Decide(OwnGrades(t), AttemptOf(t)))
    /\ grades' = grades \ OwnGrades(t)
    /\ UNCHANGED <<log, manager, emits, request, bounds>>

\* The weights are negative or add up to nothing: aggregate raises out of
\* run_until_blocked, after the graders have run.
AggregateRaises(t) ==
    /\ BadWeights
    /\ task[t].pc = "gather"
    /\ \A g \in OwnGrades(t) : g.pc = "done"
    /\ Goto(t, "crashed")
    /\ failure' = TRUE
    /\ grades' = grades \ OwnGrades(t)
    /\ UNCHANGED <<log, registered, startLock, emits, request, bounds>>

TaskNext(t) ==
    \/ Load(t) \/ TaskReadsVersion(t) \/ TaskAppends(t) \/ TaskConflicts(t)
    \/ RecordInternalFailure(t) \/ Gather(t) \/ AggregateRaises(t)
    \/ HarnessEmits(t) \/ HarnessReturns(t) \/ HarnessRaises(t) \/ AttemptTimesOut(t)

GradeNext(g) ==
    \/ GraderReturns(g) \/ GraderRaises(g)
    \/ GraderReadsVersion(g) \/ GraderAppends(g) \/ GraderConflicts(g)
=============================================================================
