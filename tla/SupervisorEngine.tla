-------------------------- MODULE SupervisorEngine --------------------------
(***************************************************************************)
(* One run of the control plane: its background task (EngineAttempt.tla),  *)
(* the supervision of its harness (EngineSupervision.tla), the requests of *)
(* its operators (EngineRequests.tla) and the death of the process.        *)
(***************************************************************************)
EXTENDS EngineAttempt, EngineSupervision, EngineRequests

-----------------------------------------------------------------------------
\* The process dies, or RunTaskManager.shutdown cancels its tasks (a
\* CancelledError records nothing), and a new one starts with empty memory.
Stop ==
    /\ crashes < MaxCrashes
    /\ \/ \E t \in Tasks : Live(t)
       \/ \E r \in Requests : request[r].pc # "idle"
    /\ crashes' = crashes + 1
    /\ task' = [t \in Tasks |-> NoTask]
    /\ registered' = None
    /\ failure' = FALSE
    /\ startLock' = None
    /\ emits' = {}
    /\ grades' = {}
    /\ request' = [r \in Requests |-> NoRequest]
    /\ UNCHANGED <<log, requests>>

Init ==
    /\ log = <<>>
    /\ task = [t \in Tasks |-> NoTask]
    /\ registered = None
    /\ failure = FALSE
    /\ startLock = None
    /\ emits = {}
    /\ grades = {}
    /\ request = [r \in Requests |-> NoRequest]
    /\ requests = 0
    /\ crashes = 0

Next ==
    \/ CreateRun
    \/ \E t \in Tasks : TaskNext(t)
    \/ \E e \in emits : EmitNext(e)
    \/ \E g \in grades : GradeNext(g)
    \/ \E r \in Requests : RequestNext(r)
    \/ Stop

Spec == Init /\ [][Next]_vars

(* Fairness: the event loop runs every coroutine that can run; a harness   *)
(* call is cut off by wait_for at the attempt timeout; graders return or   *)
(* raise (a script grader has its own timeout).  Nothing is assumed of the *)
(* operators or of crashes.                                                *)
Fairness ==
    /\ \A t \in Tasks : WF_vars(TaskNext(t))
    /\ WF_vars(\E e \in emits : EmitNext(e))
    /\ WF_vars(\E g \in grades : GradeNext(g))

FairSpec == Spec /\ Fairness

-----------------------------------------------------------------------------
(* Properties.                                                             *)

EventTypes ==
    StatusTypes \cup
    {"run.created", "run.pause_requested", "run.internal_failed", "hitl.resolved",
     "agent.event", "agent.execution.completed", "agent.execution.failed",
     "budget.exhausted", "hint.published", "grader.failed", "supervisor.reviewed",
     "supervisor.action_requested", "supervisor.action_completed",
     "supervisor.action_failed", "team.created", "team.member.spawn_requested",
     "team.member.spawned", "team.member.spawn_failed"}

TypeOK ==
    /\ log \in Seq([type : EventTypes, attempt : Nat, usage : [Resources -> Nat],
                  data : Words])
    /\ task \in [Tasks -> [pc    : Appending \cup {"done", "load", "execute",
                                                    "gather", "crashed"},
                           ver   : Nat,
                           snap  : [attempt : Nat, used : [Resources -> Nat],
                                    keys : SUBSET Words],
                           arg   : Words,
                           usage : [Resources -> Nat]]]
    /\ registered \in Tasks \cup {None}
    /\ startLock \in Requests \cup {None}
    /\ failure \in BOOLEAN
    /\ request \in [Requests -> [op   : AllOperations \cup {"none"},
                                 pc   : {"idle", "lock", "create", "check", "append"},
                                 ver  : Nat,
                                 from : Nat]]
    /\ requests \in 0 .. MaxRequests
    /\ crashes \in 0 .. MaxCrashes

Positions(type) == {i \in DOMAIN log : log[i].type = type}
Count(type)     == Cardinality(Positions(type))

(* The comment in RunTaskManager.start: "concurrent API requests cannot    *)
(* execute the same event stream twice".  Whatever requests, races and     *)
(* restarts happen, at most one task of the process executes the run.      *)
OneLiveTask == \A t, u \in Tasks : Live(t) /\ Live(u) => t = u

(* No two attempts of a run ever carry the same number, so the execution   *)
(* id "run:attempt" that a harness uses for idempotency is never reused:   *)
(* not after a recovery, a resume, a human retry or a restart, and not     *)
(* with stale requests or detached emits appending to the stream.          *)
AttemptsIncrease ==
    \A i, j \in Positions("run.started") : i < j => log[i].attempt < log[j].attempt

(* The retry loop is bounded: a run is attempted once, at most MaxRetries  *)
(* times more of its own accord, and once more for each time an operator   *)
(* reopened it (a human retry, a resume, a recovery).                      *)
Reopened ==
    Positions("run.resumed") \cup Positions("run.recovered")
    \cup {i \in Positions("hitl.resolved") : log[i].data = "retry"}
RetriesBounded == Count("run.started") =< 1 + MaxRetries + Cardinality(Reopened)

(* The token and cost budgets are over the whole run, and are checked      *)
(* before grading: no evaluation starts once the reported usage of all     *)
(* attempts, retries and recoveries included, exceeds one of them.         *)
GradingWithinBudget ==
    \A i \in Positions("evaluation.started"), u \in Resources :
        Used(SubSeq(log, 1, i), u) =< Limit[u]

(* An attempt that exceeded its step budget is stopped at the first step   *)
(* over it and never counts as completed.                                  *)
StepsWithinBudget ==
    \A i \in Positions("run.started") :
        LET a == log[i].attempt IN
        /\ Cardinality(StepsOf(a)) =< MaxSteps + 1
        /\ OfAttempt(a, "agent.execution.completed") # {}
              => Cardinality(StepsOf(a)) =< MaxSteps

(* A run succeeds on grader evidence only if the evaluation of the very    *)
(* attempt passed and no later attempt began; any other success follows a  *)
(* human approval.                                                         *)
EarnedSuccess ==
    \A i \in Positions("run.succeeded") :
        IF log[i].data = "human"
        THEN i > 1 /\ log[i - 1] = Resolved(log[i].attempt, "approve")
        ELSE \E j \in OfAttempt(log[i].attempt, "evaluation.completed") :
                /\ j < i
                /\ log[j].data = "passed"
                /\ \A k \in Positions("run.started") : ~(j < k /\ k < i)

(* What promotion may count as evidence (_validate_benchmark_run accepts   *)
(* it: scored, and its projection says no human override) and that         *)
(* succeeded, did so on grades: its last score is the passing one of its   *)
(* last attempt, not that of an earlier attempt or of one a human waved    *)
(* through, whatever decisions, pauses and recoveries came in between.     *)
BenchmarkIsGraded ==
    Status(log) = "succeeded" =>
        LET state == Replay(log) IN
        state.score # "none" /\ ~state.override =>
            /\ state.score = "passed"
            /\ log[LastOf(log, {"evaluation.completed"})].attempt = state.attempt

(* How far the deduplication of hints goes: the Supervisor Agent's hint is *)
(* published again only by the directive that published it, or by an emit  *)
(* that outlived its attempt (one of the two was published after the run   *)
(* had been scheduled anew).  Otherwise a key that is on record stays out, *)
(* in whichever windows and attempts the advisor repeats it.               *)
Late(i) ==
    \E s \in Positions("run.started") :
        /\ log[s].attempt = log[i].attempt
        /\ \E k \in s .. i : log[k].type \in StatusTypes /\ StatusAfter(log[k].type) \in Runnable
OneDirective(i, j) ==
    \A k \in i .. j : log[k].type = "hint.published" /\ log[k].attempt = log[i].attempt
HintsRepeatOnlyLate ==
    \A i, j \in Positions("hint.published") :
        i < j /\ log[i].data = log[j].data /\ log[i].data # "evaluation"
            => OneDirective(i, j) \/ Late(i) \/ Late(j)

(* A pause, an abort or a request for a human that is on record ends the   *)
(* attempt: the attempt neither completes nor is graded.                   *)
SignalsTakeEffect ==
    \A i \in Positions("supervisor.action_requested") :
        log[i].data \in Signals =>
            /\ OfAttempt(log[i].attempt, "agent.execution.completed") = {}
            /\ OfAttempt(log[i].attempt, "evaluation.started") = {}

(* What replay computes event by event is what the last event of each kind *)
(* says: the closed forms used above are the code's loop.                  *)
ReplayIsLastWriter ==
    log # <<>> =>
        LET state == Replay(log) IN
        /\ state.status = Status(log)
        /\ state.attempt = Attempt(log)
        /\ \A u \in Resources : state.used[u] = Used(log, u)
        /\ state.score = Score(log)
        /\ state.override = Override(log)
        /\ {state.hints[i].data : i \in DOMAIN state.hints} = HintKeys(log)

(* Every task that starts ends: the run reaches a state in which it waits  *)
(* for somebody, whatever harness, advisor, graders and handlers do.       *)
EveryTaskEnds == \A t \in Tasks : Live(t) ~> ~Live(t)

-----------------------------------------------------------------------------
(* Statements of the repository that the code does not keep.               *)

(* The run graph of docs/architecture.md: a run that succeeded or failed   *)
(* stays so.  A request whose check came before the end appends after it.  *)
TerminalIsFinal == [][Status(log) \in Terminal => Status(log') = Status(log)]_log

(* "Structured Hint bus with TTL, priority, evidence and deduplication"    *)
(* (README.md): no hint of the Supervisor Agent is published twice.  The   *)
(* filter of emit compares a directive with earlier ones only, and an emit *)
(* that outlives its attempt publishes a key that the next attempt's       *)
(* snapshot cannot know.                                                   *)
HintsPublishedOnce ==
    \A i, j \in Positions("hint.published") :
        log[i].data = log[j].data /\ log[i].data # "evaluation" => i = j
=============================================================================
