------------------------- MODULE EngineEvidenceProofs -------------------------
(***************************************************************************)
(* What the stream of a run says of it is earned: its retries, steps,      *)
(* tokens and cost are bounded, signals take effect, a success has         *)
(* evidence, and only a late emit repeats a hint of another directive, for *)
(* any numbers of tasks, requests, emits, graders and crashes.             *)
(*                                                                         *)
(* The invariants rest on IInv of EngineProofs.tla: since the only live    *)
(* task is the registered one, a task in an attempt is in the attempt of   *)
(* the last run.started, and an emit belongs to that attempt or to one     *)
(* that is over.                                                           *)
(***************************************************************************)
EXTENDS EngineProofs

-----------------------------------------------------------------------------
(* The attempt of a task and the emits of an attempt.                      *)

Grading  == {"completed", "evaluate", "gather", "evaluated", "verdict"}
Within   == Grading \cup {"execute", "control", "budget", "failed"}
In(t)    == task[t].pc \in Within

\* An attempt is over for its emits when one of these is on record.
Completed(a) == OfAttempt(a, "agent.execution.completed") # {}
Evaluated(a) == OfAttempt(a, "evaluation.started") # {}
Signalled(a) ==
    \E i \in OfAttempt(a, "supervisor.action_requested") : log[i].data \in Signals

Numbered == {"agent.event", "agent.execution.completed", "evaluation.started",
             "supervisor.action_requested"}

\* The task that is in an attempt is in the last one; events and emits are of
\* that attempt or of an earlier one.
InLast     == \A t \in Tasks : In(t) => AttemptOf(t) = Attempt(log)
EventsPast == \A i \in DOMAIN log : log[i].type \in Numbered => log[i].attempt =< Attempt(log)
EmitsPast  == \A e \in emits : e.attempt =< Attempt(log)

\* An attempt has one emit at a time, which its own task awaits.
OneEmit    == \A e, f \in emits : e.attempt = f.attempt => e = f
EmitOwned  == \A t \in Tasks, e \in emits :
                 In(t) /\ e.attempt = AttemptOf(t) => e.owner = t /\ task[t].pc \notin Grading

\* What is not on record yet, for an emit, for a task, and for good.
EmitOpen   == \A e \in emits :
                 ~Completed(e.attempt) /\ ~Evaluated(e.attempt) /\ ~Signalled(e.attempt)
TaskOpen   == \A t \in Tasks : \A a \in {AttemptOf(t)} :
                 /\ task[t].pc = "execute" => ~Completed(a) /\ ~Evaluated(a)
                 /\ task[t].pc \in {"execute", "completed", "evaluate"} => ~Signalled(a)
SignalWins == \A a \in Nat : Signalled(a) => ~Completed(a) /\ ~Evaluated(a)

AttemptInv ==
    /\ InLast
    /\ EventsPast
    /\ EmitsPast
    /\ OneEmit
    /\ EmitOwned
    /\ EmitOpen
    /\ TaskOpen
    /\ SignalWins

\* The steps of an attempt: one over the budget at most, and then neither the
\* task nor an emit of the attempt goes on.
Afford(a)  == Cardinality(StepsOf(a)) =< MaxSteps
StepsEnd   == \A a \in Nat : /\ Cardinality(StepsOf(a)) =< MaxSteps + 1
                             /\ Completed(a) => Afford(a)
TaskSteps  == \A t \in Tasks : \A a \in {AttemptOf(t)} :
                 task[t].pc \in {"execute", "completed"} => Afford(a)
EmitSteps  == \A e \in emits : e.pc = "event" => Afford(e.attempt)

StepInv == StepsEnd /\ TaskSteps /\ EmitSteps

-----------------------------------------------------------------------------
(* The tokens and the cost of the run.                                     *)

\* The snapshot of a task tells what was used until it has added its own.
SnapUsage  == \A t \in Tasks : task[t].pc \in {"start", "execute", "completed"}
                  => task[t].snap.used = UsedOf(log)
Affordable(l) == \A u \in Resources : Used(l, u) =< Limit[u]
GradeUsage == \A t \in Tasks : task[t].pc = "evaluate" => Affordable(log)

UsageInv == SnapUsage /\ GradeUsage /\ GradingWithinBudget

-----------------------------------------------------------------------------
(* The evidence of a success.                                              *)

\* The evaluation of attempt a passed, and neither an attempt nor an
\* evaluation came after it.
Turns == {"run.started", "evaluation.completed"}
Passed(a) ==
    \E j \in OfAttempt(a, "evaluation.completed") :
        log[j].data = "passed" /\ \A type \in Turns : \A k \in Positions(type) : ~(j < k)
EarnedAt(i) ==
    IF log[i].data = "human"
    THEN i > 1 /\ log[i - 1] = Resolved(log[i].attempt, "approve")
    ELSE \E j \in OfAttempt(log[i].attempt, "evaluation.completed") :
            /\ j < i
            /\ log[j].data = "passed"
            /\ \A type \in Turns : \A k \in Positions(type) : ~(j < k /\ k < i)
VerdictEarned == \A t \in Tasks : \A a \in {AttemptOf(t)} :
                    task[t].pc = "verdict" /\ task[t].arg = "pass" => Passed(a)

SuccessInv == VerdictEarned /\ \A i \in Positions("run.succeeded") : EarnedAt(i)

-----------------------------------------------------------------------------
(* The retries of the run.                                                 *)

\* The retries that the engine scheduled of its own accord.
AutoRetries == {i \in Positions("run.retry_scheduled") : i > 1 /\ log[i - 1].type = "hint.published"}
Scheduled == Cardinality(AutoRetries) + Cardinality(Reopened)

\* Every attempt but the first was scheduled; Ready says that one more was.
Ready == Count("run.started") =< Scheduled \/ Count("run.started") = 0

RetryArgs     == \A t \in Tasks : \A a \in {AttemptOf(t)} :
                    task[t].pc \in {"evaluated", "verdict"} /\ task[t].arg = "retry"
                       => a =< MaxRetries
AutoNumbers   == \A i \in AutoRetries : /\ log[i].attempt \in 2 .. (MaxRetries + 1)
                                        /\ log[i].attempt =< Attempt(log) + 1
AutoDistinct  == \A i, j \in AutoRetries : log[i].attempt = log[j].attempt => i = j
AutoOver      == (\E t \in Tasks : In(t)) =>
                    \A i \in AutoRetries : log[i].attempt =< Attempt(log)
StartsCounted == Count("run.started") =< 1 + Scheduled
RunnableReady == Status(log) \in Runnable => Ready
StartReady    == (\E t \in Tasks : task[t].pc = "start") => Ready

RetryInv ==
    /\ RetryArgs
    /\ AutoNumbers
    /\ AutoDistinct
    /\ AutoOver
    /\ StartsCounted
    /\ RunnableReady
    /\ StartReady

-----------------------------------------------------------------------------
(* The hints of the run.                                                   *)

\* The run was scheduled anew, and attempt a began before that.
Anew(k)    == log[k].type \in StatusTypes /\ StatusAfter(log[k].type) \in Runnable
LateNow(a) ==
    \E s \in Positions("run.started") :
        log[s].attempt = a /\ \E k \in DOMAIN log : s =< k /\ Anew(k)

\* What an attempt that has read the keys knows of the hint at i.
Known(i, keys, a) ==
    \/ Late(i)
    \/ log[i].data \in keys \cup {"evaluation"}
    \/ log[i].attempt = a

\* The attempt of an emit is on record; of two emits of different attempts,
\* and of an emit and the attempt that executes, one belongs to the past.
EmitsBegan == \A e \in emits : \E s \in Positions("run.started") : log[s].attempt = e.attempt
EmitsApart == \A e, f \in emits :
                 e.attempt = f.attempt \/ LateNow(e.attempt) \/ LateNow(f.attempt)
TaskApart  == \A t \in Tasks, e \in emits : task[t].pc \in {"start", "execute"} =>
                 e.attempt = AttemptOf(t) \/ LateNow(e.attempt)

TaskKnows  == \A t \in Tasks : task[t].pc \in {"start", "execute"} =>
                 \A i \in Positions("hint.published") :
                    Known(i, task[t].snap.keys, AttemptOf(t))
EmitKnows  == \A e \in emits :
                 \/ LateNow(e.attempt)
                 \/ \A i \in Positions("hint.published") : Known(i, e.known, e.attempt)

HintInv ==
    /\ EmitsBegan
    /\ EmitsApart
    /\ TaskApart
    /\ TaskKnows
    /\ EmitKnows
    /\ HintsRepeatOnlyLate

-----------------------------------------------------------------------------
(* What an append changes.                                                 *)

LEMMA LogGrows ==
    ASSUME TypeOK, NEW b \in Seq(LogEvent), log' = log \o b
    PROVE  /\ Len(log) \in Nat /\ DOMAIN log = 1 .. Len(log)
           /\ Len(log') = Len(log) + Len(b) /\ DOMAIN log' = 1 .. Len(log')
           /\ log' \in Seq(LogEvent)
           /\ \A i \in DOMAIN log : i \in DOMAIN log' /\ log'[i] = log[i]
           /\ \A i \in DOMAIN log' \ DOMAIN log :
                 i - Len(log) \in DOMAIN b /\ log'[i] = b[i - Len(log)]
<1>1. log \in Seq(LogEvent)
  BY LogIsStream
<1>2. Len(log) \in Nat /\ DOMAIN log = 1 .. Len(log)
  BY <1>1, LenProperties
<1>3. Len(log') = Len(log) + Len(b) /\ log' \in Seq(LogEvent)
  BY <1>1, ConcatProperties
<1>4. DOMAIN log' = 1 .. Len(log')
  BY <1>3, LenProperties
<1> QED
  BY <1>1, <1>2, <1>3, <1>4, Appended

LEMMA OneMore ==
    ASSUME TypeOK, NEW x \in LogEvent, log' = log \o <<x>>
    PROVE  /\ Len(log) \in Nat /\ DOMAIN log = 1 .. Len(log)
           /\ Len(log') = Len(log) + 1 /\ log' \in Seq(LogEvent)
           /\ DOMAIN log' = DOMAIN log \cup {Len(log')} /\ Len(log') \notin DOMAIN log
           /\ log'[Len(log')] = x
           /\ \A i \in DOMAIN log : log'[i] = log[i] /\ i < Len(log')
<1> DEFINE b == <<x>>
<1>1. b \in Seq(LogEvent) /\ Len(b) = 1 /\ b[1] = x
  OBVIOUS
<1>2. log' = log \o b
  OBVIOUS
<1> HIDE DEF b
<1>3. /\ Len(log) \in Nat /\ DOMAIN log = 1 .. Len(log)
      /\ Len(log') = Len(log) + Len(b) /\ DOMAIN log' = 1 .. Len(log')
      /\ log' \in Seq(LogEvent)
      /\ \A i \in DOMAIN log : i \in DOMAIN log' /\ log'[i] = log[i]
      /\ \A i \in DOMAIN log' \ DOMAIN log :
            i - Len(log) \in DOMAIN b /\ log'[i] = b[i - Len(log)]
  BY <1>1, <1>2, LogGrows
<1>4. Len(log') = Len(log) + 1
  BY <1>1, <1>3
<1>5. /\ DOMAIN log' = DOMAIN log \cup {Len(log')} /\ Len(log') \notin DOMAIN log
      /\ \A i \in DOMAIN log : i < Len(log')
  BY <1>3, <1>4
<1>6. Len(log') - Len(log) = 1
  BY <1>3, <1>4
<1>7. log'[Len(log')] = x
  BY <1>1, <1>3, <1>5, <1>6
<1> QED
  BY <1>3, <1>4, <1>5, <1>7

LEMMA TwoMore ==
    ASSUME TypeOK, NEW x \in LogEvent, NEW y \in LogEvent, log' = log \o <<x, y>>
    PROVE  /\ Len(log) \in Nat /\ DOMAIN log = 1 .. Len(log)
           /\ Len(log') = Len(log) + 2 /\ log' \in Seq(LogEvent)
           /\ DOMAIN log' = DOMAIN log \cup {Len(log) + 1, Len(log')}
           /\ log'[Len(log) + 1] = x /\ log'[Len(log')] = y
           /\ \A i \in DOMAIN log : log'[i] = log[i] /\ i < Len(log) + 1
<1> DEFINE b == <<x, y>>
<1>1. b \in Seq(LogEvent) /\ Len(b) = 2 /\ b[1] = x /\ b[2] = y
  OBVIOUS
<1>2. log' = log \o b
  OBVIOUS
<1> HIDE DEF b
<1>3. /\ Len(log) \in Nat /\ DOMAIN log = 1 .. Len(log)
      /\ Len(log') = Len(log) + Len(b) /\ DOMAIN log' = 1 .. Len(log')
      /\ log' \in Seq(LogEvent)
      /\ \A i \in DOMAIN log : i \in DOMAIN log' /\ log'[i] = log[i]
      /\ \A i \in DOMAIN log' \ DOMAIN log :
            i - Len(log) \in DOMAIN b /\ log'[i] = b[i - Len(log)]
  BY <1>1, <1>2, LogGrows
<1>4. Len(log') = Len(log) + 2
  BY <1>1, <1>3
<1>5. /\ DOMAIN log' = DOMAIN log \cup {Len(log) + 1, Len(log')}
      /\ Len(log') \in DOMAIN log' \ DOMAIN log
      /\ Len(log) + 1 \in DOMAIN log' \ DOMAIN log
      /\ \A i \in DOMAIN log : i < Len(log) + 1
  BY <1>3, <1>4
<1>6. Len(log') - Len(log) = 2 /\ Len(log) + 1 - Len(log) = 1
  BY <1>3, <1>4
<1>7. log'[Len(log')] = y /\ log'[Len(log) + 1] = x
  BY <1>1, <1>3, <1>5, <1>6
<1> QED
  BY <1>3, <1>4, <1>5, <1>7

\* The events that the invariants below do not notice.
Loud == {"run.started", "agent.event", "agent.execution.completed", "evaluation.started",
         "evaluation.completed", "supervisor.action_requested", "run.succeeded",
         "run.retry_scheduled", "run.resumed", "run.recovered"}
Quiet(x) == x.type \notin Loud /\ ~(x.type = "hitl.resolved" /\ x.data = "retry")
QuietLog == \E b \in Seq(LogEvent) : log' = log \o b /\ \A i \in DOMAIN b : Quiet(b[i])

LEMMA QuietKeeps ==
    ASSUME TypeOK, QuietLog
    PROVE  /\ Len(log) \in Nat /\ Len(log') \in Nat /\ Len(log) =< Len(log')
           /\ \A i \in DOMAIN log : log'[i] = log[i] /\ i \in DOMAIN log' /\ i =< Len(log)
           /\ \A i \in DOMAIN log' : i \in DOMAIN log \/ Quiet(log'[i])
           /\ Attempt(log') = Attempt(log) /\ UsedOf(log') = UsedOf(log)
<1>1. PICK b \in Seq(LogEvent) : log' = log \o b /\ \A i \in DOMAIN b : Quiet(b[i])
  BY DEF QuietLog
<1>2. log \in Seq(LogEvent)
  BY LogIsStream
<1>3. /\ Len(log) \in Nat /\ DOMAIN log = 1 .. Len(log)
      /\ Len(log') = Len(log) + Len(b) /\ DOMAIN log' = 1 .. Len(log')
      /\ \A i \in DOMAIN log : i \in DOMAIN log' /\ log'[i] = log[i]
      /\ \A i \in DOMAIN log' \ DOMAIN log :
            i - Len(log) \in DOMAIN b /\ log'[i] = b[i - Len(log)]
  BY <1>1, LogGrows
<1>4. \A i \in DOMAIN b : b[i].type \notin Loud
  BY <1>1 DEF Quiet
<1>5. Attempt(log') = Attempt(log)
  BY <1>1, <1>2, <1>4, AttemptKept DEF LogEvent, Loud
<1>6. UsedOf(log') = UsedOf(log)
  BY <1>1, <1>2, <1>4, UsedOfKept DEF LogEvent, Loud
<1>7. Len(b) \in Nat
  BY LenProperties
<1>8. Len(log') \in Nat /\ Len(log) =< Len(log') /\ \A i \in DOMAIN log : i =< Len(log)
  BY <1>3, <1>7
<1> QED
  BY <1>1, <1>3, <1>5, <1>6, <1>8

\* What the evidence and the retries are counted on is not changed by them.
LEMMA QuietReads ==
    ASSUME TypeOK, QuietLog
    PROVE  /\ \A T \in Loud : Positions(T)' = Positions(T)
           /\ \A T \in Loud, a \in Nat : OfAttempt(a, T)' = OfAttempt(a, T)
           /\ Reopened' = Reopened /\ AutoRetries' = AutoRetries
<1>1. /\ \A i \in DOMAIN log : log'[i] = log[i] /\ i \in DOMAIN log' /\ i =< Len(log)
      /\ \A i \in DOMAIN log' : i \in DOMAIN log \/ Quiet(log'[i])
  BY QuietKeeps
<1>2. \A T \in Loud : Positions(T)' = Positions(T)
  BY <1>1 DEF Positions, Quiet
<1>3. \A T \in Loud, a \in Nat : OfAttempt(a, T)' = OfAttempt(a, T)
  BY <1>1 DEF OfAttempt, Quiet
<1>4. "run.resumed" \in Loud /\ "run.recovered" \in Loud /\ "run.retry_scheduled" \in Loud
  BY DEF Loud
<1>5. Reopened' = Reopened
  <2>1. {i \in Positions("hitl.resolved") : log[i].data = "retry"}'
          = {i \in Positions("hitl.resolved") : log[i].data = "retry"}
    BY <1>1 DEF Positions, Quiet
  <2> QED
    BY <1>2, <1>4, <2>1 DEF Reopened
<1>6. AutoRetries' = AutoRetries
  <2>1. \A i \in Positions("run.retry_scheduled") : i > 1 => i - 1 \in DOMAIN log
    BY LogIsStream, LenProperties DEF Positions
  <2>2. \A i \in Positions("run.retry_scheduled") : i > 1 => log'[i - 1] = log[i - 1]
    BY <1>1, <2>1
  <2> QED
    BY <1>2, <1>4, <2>2 DEF AutoRetries
<1> QED
  BY <1>2, <1>3, <1>5, <1>6

-----------------------------------------------------------------------------
(* The steps, by what they mean for the attempt.  A calm step moves a task *)
(* out of its attempt or nowhere, and its events are quiet.  The others are *)
(* named in StepShape.                                                     *)

Same(u) ==
    /\ task'[u].pc = task[u].pc /\ task'[u].arg = task[u].arg
    /\ task'[u].snap = task[u].snap /\ task'[u].usage = task[u].usage
Stops(u) ==
    \/ task'[u].pc \in {"done", "load", "crashed", "internal"}
    \/ /\ task'[u].pc \in {"budget", "failed", "control"}
       /\ In(u) /\ task'[u].snap = task[u].snap
Keeps(u) == Same(u) \/ Stops(u)

\* No emit is new; one at most has moved, and not to the storing of an event.
EmitsKeep ==
    \/ emits' \subseteq emits
    \/ \E e \in emits : \E f \in emits' :
          /\ emits' \subseteq (emits \ {e}) \cup {f}
          /\ f.owner = e.owner /\ f.attempt = e.attempt /\ f.known = e.known
          /\ f.pc = "event" => e.pc = "event"

Settled == (\A u \in Tasks : Keeps(u)) /\ EmitsKeep
Calm    == QuietLog /\ Settled

Loads(t)   == Load(t) /\ Status(log) \in Runnable
Appends(t) == TaskAppends(t)
              /\ task[t].pc \in {"start", "completed", "evaluate", "evaluated", "verdict"}
Shown(e)   == EmitAppends(e) /\ e.pc \in {"event", "requested"}
Reopens(r) == RequestAppends(r) /\ request[r].op \in {"resume", "recover", "retry", "approve"}

LEMMA QuietLogs ==
    ASSUME TypeOK
    PROVE  /\ UNCHANGED log => QuietLog
           /\ \A x \in Plain : Quiet(x) /\ log' = log \o <<x>> => QuietLog
           /\ \A x, y \in Plain : Quiet(x) /\ Quiet(y) /\ log' = log \o <<x, y>> => QuietLog
<1>1. log \in Seq(LogEvent) /\ Plain \subseteq LogEvent
  BY LogIsStream, RecordSets
<1>2. ASSUME UNCHANGED log PROVE QuietLog
  <2>1. <<>> \in Seq(LogEvent) /\ log' = log \o <<>> /\ DOMAIN <<>> = {}
    BY <1>1, <1>2, ConcatEmptySeq
  <2> QED
    BY <2>1 DEF QuietLog
<1>3. ASSUME NEW x \in Plain, Quiet(x), log' = log \o <<x>> PROVE QuietLog
  <2> DEFINE b == <<x>>
  <2>1. b \in Seq(LogEvent) /\ \A i \in DOMAIN b : b[i] = x
    BY <1>1
  <2>2. log' = log \o b
    BY <1>3
  <2> HIDE DEF b
  <2> QED
    BY <1>3, <2>1, <2>2 DEF QuietLog
<1>4. ASSUME NEW x \in Plain, NEW y \in Plain, Quiet(x), Quiet(y), log' = log \o <<x, y>>
      PROVE  QuietLog
  <2> DEFINE b == <<x, y>>
  <2>1. b \in Seq(LogEvent) /\ \A i \in DOMAIN b : b[i] = x \/ b[i] = y
    BY <1>1
  <2>2. log' = log \o b
    BY <1>4
  <2> HIDE DEF b
  <2> QED
    BY <1>4, <2>1, <2>2 DEF QuietLog
<1> QED
  BY <1>2, <1>3, <1>4

LEMMA GotoSettles ==
    ASSUME TasksTyped, NEW t \in Tasks, NEW pc \in Pcs, NEW arg \in Words,
           GotoWith(t, pc, arg),
           \/ pc \in {"done", "load", "crashed", "internal"}
           \/ pc \in {"budget", "failed", "control"} /\ In(t)
    PROVE  \A u \in Tasks : Keeps(u)
<1>1. /\ task' = [task EXCEPT ![t] = Moved(task[t], pc, arg)] /\ task'[t].pc = pc
      /\ \A u \in Tasks : u # t => task'[u] = task[u]
  BY GotoStep
<1>2. task'[t] = Moved(task[t], pc, arg) /\ task[t] \in TaskRec
  BY <1>1 DEF TasksTyped
<1>3. pc \in {"budget", "failed", "control"} => task'[t].snap = task[t].snap
  BY <1>2 DEF Moved, TaskRec
<1>4. Stops(t)
  BY <1>1, <1>3 DEF Stops
<1> QED
  BY <1>1, <1>4 DEF Keeps, Same

LEMMA StaySettled ==
    ASSUME UNCHANGED task
    PROVE  \A u \in Tasks : Keeps(u)
  BY DEF Keeps, Same

LEMMA EmitRaisesSettles ==
    ASSUME IInv, NEW e \in emits, NEW pc \in {"budget", "control", "failed"},
           NEW arg \in Words, EmitRaises(e, pc, arg)
    PROVE  Settled
<1>1. TasksTyped /\ e.owner \in Tasks /\ pc \in Pcs
  BY Typed DEF IInv, CallsTyped, Emit, Pcs, Appending
<1>2. EmitsKeep
  BY DEF EmitRaises, EmitsKeep
<1>3. CASE Attended(e)
  <2>1. In(e.owner)
    BY <1>3 DEF Attended, In, Within
  <2> QED
    BY <1>1, <1>2, <1>3, <2>1, GotoSettles DEF EmitRaises, Settled
<1>4. CASE ~Attended(e)
  BY <1>2, <1>4, StaySettled DEF EmitRaises, Settled
<1> QED
  BY <1>3, <1>4

LEMMA MoveEmitSettles ==
    ASSUME CallsTyped, NEW e \in emits,
           NEW pc \in {"review", "hints", "requested", "handle", "spawning", "acted", "unacted"},
           MoveEmit(e, pc), UNCHANGED task
    PROVE  Settled
<1> DEFINE f == [e EXCEPT !.pc = pc, !.ver = 0]
<1>1. f \in emits' /\ emits' \subseteq (emits \ {e}) \cup {f}
  BY DEF MoveEmit
<1>2. e \in Emit /\ f.owner = e.owner /\ f.attempt = e.attempt /\ f.known = e.known
      /\ f.pc = pc
  BY DEF CallsTyped, Emit
<1> HIDE DEF f
<1>3. EmitsKeep
  BY <1>1, <1>2 DEF EmitsKeep
<1> QED
  BY <1>3, StaySettled DEF Settled

LEMMA EmitSettles ==
    ASSUME IInv, NEW e \in emits, EmitNext(e)
    PROVE  Settled
<1>1. CallsTyped /\ e \in Emit /\ "" \in Words /\ "steps" \in Words
  BY DEF IInv, CallsTyped, Words
<1>2. ASSUME EmitReturns(e) PROVE Settled
  BY <1>2, StaySettled DEF EmitReturns, Settled, EmitsKeep
<1>3. CASE EmitReadsVersion(e)
  <2> DEFINE f == ReadVersion(e)
  <2>1. f \in emits' /\ emits' \subseteq (emits \ {e}) \cup {f} /\ UNCHANGED task
    BY <1>3 DEF EmitReadsVersion
  <2>2. f.owner = e.owner /\ f.attempt = e.attempt /\ f.known = e.known /\ f.pc = e.pc
    BY <1>1 DEF ReadVersion, Emit
  <2> HIDE DEF f
  <2> QED
    BY <2>1, <2>2, StaySettled DEF EmitsKeep, Settled
<1>4. CASE EmitAppends(e)
  <2>1. ASSUME NEW pc \in {"return", "hints", "requested"}, MoveOrReturn(e, pc)
        PROVE  Settled
    BY <1>1, <1>2, <2>1, MoveEmitSettles DEF MoveOrReturn
  <2>2. CASE EventStored(e)
    BY <1>1, <1>2, <2>2, EmitRaisesSettles, MoveEmitSettles DEF EventStored
  <2>3. CASE DirectiveStored(e)
    <3>1. CASE e.pc = "reviewed" /\ MoveOrReturn(e, AfterReviewed(e))
      <4>1. AfterReviewed(e) \in {"return", "hints", "requested"}
        BY DEF AfterReviewed, AfterHints
      <4> QED
        BY <2>1, <3>1, <4>1
    <3>2. CASE e.pc = "hints" /\ MoveOrReturn(e, AfterHints(e))
      <4>1. AfterHints(e) \in {"return", "hints", "requested"}
        BY DEF AfterHints
      <4> QED
        BY <2>1, <3>2, <4>1
    <3>3. CASE e.dir.action \in Signals /\ EmitRaises(e, "control", e.dir.action)
      <4>1. e.dir.action \in Words
        BY <1>1 DEF Emit, Directive, Words
      <4> QED
        BY <3>3, <4>1, EmitRaisesSettles
    <3>4. CASE MoveOrReturn(e, IF HasHandler THEN "handle" ELSE "return")
      BY <1>1, <1>2, <3>4, MoveEmitSettles DEF MoveOrReturn
    <3>5. CASE e.pc = "acted" /\ EmitReturns(e)
      BY <1>2, <3>5
    <3>6. CASE e.pc = "unacted" /\ EmitRaises(e, "control", "request_human")
      <4>1. "request_human" \in Words
        BY DEF Words, Actions
      <4> QED
        BY <3>6, <4>1, EmitRaisesSettles
    <3> QED
      BY <2>3, <3>1, <3>2, <3>3, <3>4, <3>5, <3>6 DEF DirectiveStored
  <2> QED
    BY <1>4, <2>2, <2>3 DEF EmitAppends
<1>5. CASE EmitConflicts(e)
  BY <1>1, <1>5, EmitRaisesSettles, MoveEmitSettles DEF EmitConflicts
<1>6. CASE AdvisorAnswers(e)
  <2>1. PICK d \in Directives :
           emits' = (emits \ {e}) \cup {[e EXCEPT !.pc = "reviewed", !.dir = d]}
    BY <1>6 DEF AdvisorAnswers
  <2> DEFINE f == [e EXCEPT !.pc = "reviewed", !.dir = d]
  <2>2. f \in emits' /\ emits' \subseteq (emits \ {e}) \cup {f} /\ UNCHANGED task
    BY <1>6, <2>1 DEF AdvisorAnswers
  <2>3. f.owner = e.owner /\ f.attempt = e.attempt /\ f.known = e.known /\ f.pc = "reviewed"
    BY <1>1 DEF Emit
  <2> HIDE DEF f
  <2> QED
    BY <2>2, <2>3, StaySettled DEF EmitsKeep, Settled
<1>7. CASE AdvisorRaises(e)
  BY <1>1, <1>7, EmitRaisesSettles DEF AdvisorRaises
<1>8. CASE HandlerSpawns(e)
  <2>1. CASE UNCHANGED emits
    BY <1>8, <2>1, StaySettled DEF HandlerSpawns, EmitsKeep, Settled
  <2>2. CASE \E pc \in {"spawning", "acted", "unacted"} : MoveEmit(e, pc)
    BY <1>1, <1>8, <2>2, MoveEmitSettles DEF HandlerSpawns
  <2> QED
    BY <1>8, <2>1, <2>2 DEF HandlerSpawns
<1>9. CASE HandlerSucceeds(e) \/ HandlerRaises(e)
  BY <1>1, <1>9, MoveEmitSettles DEF HandlerSucceeds, HandlerRaises
<1> QED
  BY <1>3, <1>4, <1>5, <1>6, <1>7, <1>8, <1>9 DEF EmitNext

\* The types of the quiet events.
LEMMA QuietTypes ==
    ASSUME NEW x,
           x.type \in {"run.created", "run.pause_requested", "run.internal_failed",
                       "agent.execution.failed", "budget.exhausted", "hint.published",
                       "grader.failed", "supervisor.reviewed", "supervisor.action_completed",
                       "supervisor.action_failed", "team.created",
                       "team.member.spawn_requested", "team.member.spawned",
                       "team.member.spawn_failed", "run.waiting_human", "run.failed",
                       "run.paused"}
    PROVE  Quiet(x)
  BY DEF Quiet, Loud

LEMMA EmitQuiet ==
    ASSUME IInv, NEW e \in emits, EmitNext(e), ~Shown(e)
    PROVE  QuietLog
<1>1. CallsTyped /\ e \in Emit /\ e.attempt \in Nat /\ log \in Seq(LogEvent) /\ TypeOK
  BY LogIsStream DEF IInv, CallsTyped, Emit
<1>2. UNCHANGED log => QuietLog
  BY <1>1, QuietLogs
<1>3. CASE EmitAppends(e)
  <2> DEFINE b == EmitBatch(e)
  <2>1. b \in Seq(Plain) /\ log' = log \o b
    BY <1>1, <1>3, EmitBatchPlain DEF EmitAppends
  <2>2. b \in Seq(LogEvent)
    BY <2>1, RecordSets, SeqMonotonic
  <2>3. e.pc \in {"reviewed", "hints", "acted", "unacted"}
    BY <1>3 DEF Shown, EmitAppends, EmitAppending
  <2>4. \A i \in DOMAIN b : b[i].type \in {"supervisor.reviewed", "hint.published",
                             "supervisor.action_completed", "supervisor.action_failed"}
    <3>1. CASE e.pc = "hints"
      BY <3>1 DEF EmitBatch, Ev
    <3>2. CASE e.pc \in {"reviewed", "acted", "unacted"}
      <4>1. \/ b = <<Ev("supervisor.reviewed", e.attempt)>>
            \/ b = <<Ev("supervisor.action_completed", e.attempt)>>
            \/ b = <<Ev("supervisor.action_failed", e.attempt)>>
        BY <3>2 DEF EmitBatch
      <4> HIDE DEF b
      <4>2. /\ Ev("supervisor.reviewed", e.attempt).type = "supervisor.reviewed"
            /\ Ev("supervisor.action_completed", e.attempt).type = "supervisor.action_completed"
            /\ Ev("supervisor.action_failed", e.attempt).type = "supervisor.action_failed"
        BY DEF Ev
      <4>3. \A x : \A i \in DOMAIN <<x>> : <<x>>[i] = x
        OBVIOUS
      <4> QED
        BY <4>1, <4>2, <4>3
    <3> QED
      BY <2>3, <3>1, <3>2
  <2> HIDE DEF b
  <2>5. \A i \in DOMAIN b : Quiet(b[i])
    BY <2>4, QuietTypes
  <2> QED
    BY <2>1, <2>2, <2>5 DEF QuietLog
<1>4. CASE HandlerSpawns(e)
  <2>1. /\ Ev("team.created", e.attempt) \in Plain
        /\ Ev("team.member.spawn_requested", e.attempt) \in Plain
        /\ Ev("team.member.spawned", e.attempt) \in Plain
        /\ Ev("team.member.spawn_failed", e.attempt) \in Plain
    BY <1>1, PlainTypes, EvPlain
  <2>2. ASSUME NEW x \in Plain, log' = Append(log, x), Quiet(x) PROVE QuietLog
    <3>1. log' = log \o <<x>>
      BY <1>1, <2>2, RecordSets, AppendIsConcat
    <3> QED
      BY <1>1, <2>2, <3>1, QuietLogs
  <2>3. /\ Quiet(Ev("team.created", e.attempt))
        /\ Quiet(Ev("team.member.spawn_requested", e.attempt))
        /\ Quiet(Ev("team.member.spawned", e.attempt))
        /\ Quiet(Ev("team.member.spawn_failed", e.attempt))
    BY DEF Quiet, Loud, Ev
  <2> QED
    BY <1>4, <2>1, <2>2, <2>3 DEF HandlerSpawns, Team
<1>5. CASE EmitReadsVersion(e) \/ EmitConflicts(e) \/ AdvisorAnswers(e) \/ AdvisorRaises(e)
           \/ HandlerSucceeds(e) \/ HandlerRaises(e)
  BY <1>2, <1>5 DEF EmitReadsVersion, EmitConflicts, AdvisorAnswers, AdvisorRaises,
     HandlerSucceeds, HandlerRaises
<1> QED
  BY <1>3, <1>4, <1>5 DEF EmitNext

LEMMA TaskShape ==
    ASSUME IInv, NEW t \in Tasks, TaskNext(t)
    PROVE  \/ Calm
           \/ Loads(t) \/ Appends(t) \/ HarnessEmits(t) \/ HarnessReturns(t) \/ Gather(t)
<1>1. /\ TasksTyped /\ TypeOK /\ Args /\ task[t] \in TaskRec /\ "" \in Words
      /\ task[t].arg \in Words
  BY Typed DEF IInv, TasksTyped, Words, TaskRec
<1>2. UNCHANGED log => QuietLog
  BY <1>1, QuietLogs
<1>3. UNCHANGED emits => EmitsKeep
  BY DEF EmitsKeep
<1>4. CASE Load(t)
  <2>1. CASE Status(log) \in Runnable
    BY <1>4, <2>1 DEF Loads
  <2>2. CASE Status(log) \notin Runnable
    <3>1. GotoWith(t, "done", "") /\ "done" \in Pcs
      BY <1>4, <2>2 DEF Load, Goto, Pcs
    <3>2. \A u \in Tasks : Keeps(u)
      BY <1>1, <3>1, GotoSettles
    <3> QED
      BY <1>2, <1>3, <1>4, <3>2 DEF Load, Calm, Settled
  <2> QED
    BY <2>1, <2>2
<1>5. CASE TaskReadsVersion(t)
  <2>1. task' = [task EXCEPT ![t].ver = Len(log)]
    BY <1>1, <1>5 DEF TaskReadsVersion, ReadVersion
  <2>2. \A u \in Tasks : Same(u)
    BY <1>1, <2>1 DEF TasksTyped, TaskRec, Same
  <2> QED
    BY <1>2, <1>3, <1>5, <2>2 DEF TaskReadsVersion, Calm, Settled, Keeps
<1>6. CASE TaskAppends(t) /\ ~Appends(t)
  <2>1. task[t].pc \in {"control", "budget", "failed", "internal"}
    BY <1>6 DEF TaskAppends, Appends, Appending
  <2>2. /\ GotoWith(t, After(t), task[t].arg) /\ After(t) \in {"load", "done"}
        /\ log' = log \o Batch(t) /\ UNCHANGED emits
    BY <1>6, <2>1 DEF TaskAppends, Continue, After
  <2>3. After(t) \in Pcs
    BY <2>2 DEF Pcs
  <2>4. \A u \in Tasks : Keeps(u)
    BY <1>1, <2>2, <2>3, GotoSettles
  <2>5. QuietLog
    <3>1. PICK a \in Nat : a = AttemptOf(t)
      BY <1>1, AttemptTyped
    <3>2. /\ Ev("budget.exhausted", a) \in Plain /\ Ev("run.waiting_human", a) \in Plain
          /\ Ev("agent.execution.failed", a) \in Plain
          /\ Ev("run.internal_failed", a) \in Plain
          /\ Ev("run.paused", a) \in Plain /\ Ev("run.failed", a) \in Plain
      BY PlainTypes, EvPlain
    <3>3. /\ Quiet(Ev("budget.exhausted", a)) /\ Quiet(Ev("run.waiting_human", a))
          /\ Quiet(Ev("agent.execution.failed", a))
          /\ Quiet(Ev("run.internal_failed", a))
          /\ Quiet(Ev("run.paused", a)) /\ Quiet(Ev("run.failed", a))
      BY DEF Quiet, Loud, Ev
    <3>4. task[t].pc = "control" => task[t].arg \in Signals
      BY <1>1 DEF Args, ArgOf
    <3>5. \/ Batch(t) = <<Ev("budget.exhausted", a), Ev("run.waiting_human", a)>>
          \/ Batch(t) = <<Ev("agent.execution.failed", a), Ev("run.waiting_human", a)>>
          \/ Batch(t) = <<Ev("run.internal_failed", a), Ev("run.waiting_human", a)>>
          \/ Batch(t) = Control(a, task[t].arg) /\ task[t].arg \in Signals
      BY <2>1, <3>1, <3>4 DEF Batch
    <3>6. CASE Batch(t) = Control(a, task[t].arg) /\ task[t].arg \in Signals
      <4>1. \/ Batch(t) = <<Ev("run.paused", a)>>
            \/ Batch(t) = <<Ev("run.waiting_human", a)>>
            \/ Batch(t) = <<Ev("run.failed", a)>>
        BY <3>6 DEF Control, Signals
      <4> QED
        BY <1>1, <2>2, <3>2, <3>3, <4>1, QuietLogs
    <3> QED
      BY <1>1, <2>2, <3>2, <3>3, <3>5, <3>6, QuietLogs
  <2> QED
    BY <1>3, <2>2, <2>4, <2>5 DEF Calm, Settled
<1>7. CASE TaskConflicts(t)
  <2>1. PICK pc \in {"done", "crashed"} : GotoWith(t, pc, "") /\ UNCHANGED <<log, emits>>
    BY <1>7 DEF TaskConflicts, Goto
  <2>2. pc \in Pcs
    BY DEF Pcs
  <2>3. \A u \in Tasks : Keeps(u)
    BY <1>1, <2>1, <2>2, GotoSettles
  <2> QED
    BY <1>2, <1>3, <2>1, <2>3 DEF Calm, Settled
<1>8. CASE RecordInternalFailure(t)
  <2>1. PICK pc \in {"done", "internal"} : GotoWith(t, pc, "") /\ UNCHANGED <<log, emits>>
    BY <1>8 DEF RecordInternalFailure, Goto
  <2>2. pc \in Pcs
    BY DEF Pcs, Appending
  <2>3. \A u \in Tasks : Keeps(u)
    BY <1>1, <2>1, <2>2, GotoSettles
  <2> QED
    BY <1>2, <1>3, <2>1, <2>3 DEF Calm, Settled
<1>10. CASE AggregateRaises(t)
  <2>1. GotoWith(t, "crashed", "") /\ UNCHANGED <<log, emits>>
    BY <1>10 DEF AggregateRaises, Goto
  <2>2. "crashed" \in Pcs
    BY DEF Pcs
  <2>3. \A u \in Tasks : Keeps(u)
    BY <1>1, <2>1, <2>2, GotoSettles
  <2> QED
    BY <1>2, <1>3, <2>1, <2>3 DEF Calm, Settled
<1>9. CASE HarnessRaises(t) \/ AttemptTimesOut(t)
  <2>1. /\ GotoWith(t, "failed", "") /\ UNCHANGED log /\ emits' \subseteq emits
        /\ task[t].pc = "execute"
    BY <1>9 DEF HarnessRaises, AttemptTimesOut, Goto
  <2>2. "failed" \in Pcs /\ In(t)
    BY <2>1 DEF Pcs, Appending, In, Within
  <2>3. \A u \in Tasks : Keeps(u)
    BY <1>1, <2>1, <2>2, GotoSettles
  <2> QED
    BY <1>2, <2>1, <2>3 DEF Calm, Settled, EmitsKeep
<1> QED
  BY <1>4, <1>5, <1>6, <1>7, <1>8, <1>9, <1>10 DEF TaskNext

LEMMA GradeCalm ==
    ASSUME IInv, NEW g \in grades, GradeNext(g)
    PROVE  Calm
<1>1. /\ TasksTyped /\ TypeOK /\ g \in Grade /\ g.attempt \in Nat /\ g.owner \in Tasks
      /\ "" \in Words /\ "crashed" \in Pcs
  BY Typed DEF IInv, CallsTyped, Grade, Words, Pcs
<1>2. EmitsKeep
  BY DEF GradeNext, GraderReturns, GraderRaises, GraderReadsVersion, GraderAppends,
     GraderConflicts, EmitsKeep
<1>3. UNCHANGED log => QuietLog
  BY <1>1, QuietLogs
<1>4. CASE GraderAppends(g)
  <2>1. Ev("grader.failed", g.attempt) \in Plain /\ Quiet(Ev("grader.failed", g.attempt))
    BY <1>1, PlainTypes, EvPlain DEF Quiet, Loud, Ev
  <2>2. QuietLog /\ UNCHANGED task
    BY <1>1, <1>4, <2>1, QuietLogs DEF GraderAppends
  <2> QED
    BY <1>2, <2>2, StaySettled DEF Calm, Settled
<1>5. CASE GraderConflicts(g)
  <2>1. CASE Gathered(g)
    <3>1. GotoWith(g.owner, "crashed", "") /\ UNCHANGED log
      BY <1>5, <2>1 DEF GraderConflicts, Goto
    <3>2. \A u \in Tasks : Keeps(u)
      BY <1>1, <3>1, GotoSettles
    <3> QED
      BY <1>2, <1>3, <3>1, <3>2 DEF Calm, Settled
  <2>2. CASE ~Gathered(g)
    BY <1>2, <1>3, <1>5, <2>2, StaySettled DEF GraderConflicts, Calm, Settled
  <2> QED
    BY <2>1, <2>2
<1>6. CASE GraderReturns(g) \/ GraderRaises(g) \/ GraderReadsVersion(g)
  BY <1>2, <1>3, <1>6, StaySettled
  DEF GraderReturns, GraderRaises, GraderReadsVersion, Calm, Settled
<1> QED
  BY <1>4, <1>5, <1>6 DEF GradeNext

LEMMA RequestShape ==
    ASSUME IInv, NEW r \in Requests, RequestNext(r)
    PROVE  Settled /\ (QuietLog \/ Reopens(r))
<1>1. TasksTyped /\ RequestsTyped /\ Ops /\ TypeOK
  BY Typed DEF IInv
<1>2. EmitsKeep
  BY DEF RequestNext, Arrives, TakeStartLock, CreateTask, CheckStatus, RequestReadsVersion,
     RequestAppends, RequestConflicts, EmitsKeep
<1>3. \A u \in Tasks : Keeps(u)
  <2>1. CASE UNCHANGED task
    BY <2>1, StaySettled
  <2>2. CASE CreateTask(r) /\ ~ UNCHANGED task
    <3>1. PICK t \in Tasks : task' = [task EXCEPT ![t] = [NoTask EXCEPT !.pc = "load"]]
      BY <2>2 DEF CreateTask
    <3>2. [NoTask EXCEPT !.pc = "load"].pc = "load"
      BY DEF NoTask
    <3>3. task'[t].pc = "load" /\ \A u \in Tasks : u # t => task'[u] = task[u]
      BY <1>1, <3>1, <3>2 DEF TasksTyped
    <3> QED
      BY <3>3 DEF Keeps, Same, Stops
  <2> QED
    BY <2>1, <2>2 DEF RequestNext, Arrives, TakeStartLock, CheckStatus, RequestReadsVersion,
       RequestAppends, RequestConflicts
<1>4. CASE UNCHANGED log
  BY <1>1, <1>2, <1>3, <1>4, QuietLogs DEF Settled
<1>5. CASE RequestAppends(r) /\ ~Reopens(r)
  <2> DEFINE a == request[r].from
  <2>1. a \in Nat
    BY <1>1 DEF RequestsTyped, Request
  <2>2. request[r].op \in {"pause", "reject"}
    BY <1>1, <1>5 DEF Reopens, RequestAppends, Ops, AllOperations
  <2> HIDE DEF a
  <2>3. /\ Ev("run.pause_requested", a) \in Plain /\ Ev("run.paused", a) \in Plain
        /\ Ev("run.failed", a) \in Plain /\ Resolved(a, "reject") \in Plain
    <3>1. "reject" \in Words
      BY DEF Words, AllOperations
    <3> QED
      BY <2>1, <3>1, PlainTypes, EvPlain DEF Resolved
  <2>4. /\ Quiet(Ev("run.pause_requested", a)) /\ Quiet(Ev("run.paused", a))
        /\ Quiet(Ev("run.failed", a)) /\ Quiet(Resolved(a, "reject"))
    BY DEF Quiet, Loud, Resolved, Ev
  <2>5. \/ RequestBatch(r) = <<Ev("run.pause_requested", a), Ev("run.paused", a)>>
        \/ RequestBatch(r) = <<Resolved(a, "reject"), Ev("run.failed", a)>>
    BY <2>2 DEF RequestBatch, a
  <2>6. PICK x \in Plain, y \in Plain :
           RequestBatch(r) = <<x, y>> /\ Quiet(x) /\ Quiet(y)
    BY <2>3, <2>4, <2>5
  <2>7. QuietLog
    BY <1>1, <1>5, <2>6, QuietLogs DEF RequestAppends
  <2> QED
    BY <1>2, <1>3, <2>7 DEF Settled
<1>6. CASE Reopens(r)
  BY <1>2, <1>3, <1>6 DEF Settled
<1> QED
  BY <1>4, <1>5, <1>6 DEF RequestNext, Arrives, TakeStartLock, CreateTask, CheckStatus,
     RequestReadsVersion, RequestConflicts

LEMMA StepShape ==
    ASSUME IInv, [Next]_vars
    PROVE  \/ Calm
           \/ \E t \in Tasks : \/ Loads(t) \/ Appends(t) \/ HarnessEmits(t)
                              \/ HarnessReturns(t) \/ Gather(t)
           \/ \E e \in emits : Shown(e) /\ Settled
           \/ \E r \in Requests : Reopens(r) /\ Settled
<1>1. TypeOK
  BY DEF IInv
<1>2. ASSUME NEW e \in emits, EmitNext(e) PROVE Calm \/ (Shown(e) /\ Settled)
  BY <1>2, EmitSettles, EmitQuiet DEF Calm
<1>3. CASE CreateRun
  <2>1. Ev("run.created", 0) \in Plain /\ Quiet(Ev("run.created", 0))
    BY PlainTypes, EvPlain DEF Quiet, Loud, Ev
  <2>2. log' = log \o <<Ev("run.created", 0)>> /\ UNCHANGED <<task, emits>>
    BY <1>3 DEF CreateRun
  <2> QED
    BY <1>1, <2>1, <2>2, QuietLogs, StaySettled DEF Calm, Settled, EmitsKeep
<1>4. CASE Stop
  <2>1. \A u \in Tasks : task'[u].pc = "done"
    BY <1>4, NoTaskTyped DEF Stop
  <2> QED
    BY <1>1, <1>4, <2>1, QuietLogs DEF Stop, Calm, Settled, EmitsKeep, Keeps, Stops
<1>5. CASE UNCHANGED vars
  BY <1>1, <1>5, QuietLogs, StaySettled DEF vars, Calm, Settled, EmitsKeep
<1> QED
  BY <1>2, <1>3, <1>4, <1>5, TaskShape, GradeCalm, RequestShape DEF Next, Calm

-----------------------------------------------------------------------------
(* What a step reads of an attempt afterwards.                             *)

Unnumbered ==
    \E b \in Seq(LogEvent) :
        log' = log \o b /\ \A i \in DOMAIN b : b[i].type \notin Numbered \cup {"run.started"}

LEMMA UnnumberedReads ==
    ASSUME TypeOK, Unnumbered
    PROVE  /\ Attempt(log') = Attempt(log) /\ UsedOf(log') = UsedOf(log)
           /\ \A a \in Nat : StepsOf(a)' = StepsOf(a)
           /\ \A a \in Nat : Completed(a)' <=> Completed(a)
           /\ \A a \in Nat : Evaluated(a)' <=> Evaluated(a)
           /\ \A a \in Nat : Signalled(a)' <=> Signalled(a)
           /\ EventsPast => EventsPast'
<1>1. PICK b \in Seq(LogEvent) :
         log' = log \o b /\ \A i \in DOMAIN b : b[i].type \notin Numbered \cup {"run.started"}
  BY DEF Unnumbered
<1>2. log \in Seq(LogEvent)
  BY LogIsStream
<1>3. /\ \A i \in DOMAIN log : i \in DOMAIN log' /\ log'[i] = log[i]
      /\ \A i \in DOMAIN log' \ DOMAIN log :
            i - Len(log) \in DOMAIN b /\ log'[i] = b[i - Len(log)]
  BY <1>1, LogGrows
<1>4. Attempt(log') = Attempt(log)
  BY <1>1, <1>2, AttemptKept DEF LogEvent
<1>5. UsedOf(log') = UsedOf(log)
  BY <1>1, <1>2, UsedOfKept DEF LogEvent, Numbered
<1>6. \A i \in DOMAIN log' : log'[i].type \in Numbered => i \in DOMAIN log /\ log'[i] = log[i]
  BY <1>1, <1>3
<1>7. \A a \in Nat, T \in Numbered : OfAttempt(a, T)' = OfAttempt(a, T)
  BY <1>3, <1>6 DEF OfAttempt
<1>8. /\ "agent.event" \in Numbered /\ "agent.execution.completed" \in Numbered
      /\ "evaluation.started" \in Numbered /\ "supervisor.action_requested" \in Numbered
  BY DEF Numbered
<1>9. \A a \in Nat, T \in Numbered : \A i \in OfAttempt(a, T) : log'[i] = log[i]
  BY <1>3 DEF OfAttempt
<1>10. \A a \in Nat : StepsOf(a)' = StepsOf(a)
  BY <1>7, <1>8, <1>9 DEF StepsOf
<1>11. /\ \A a \in Nat : Completed(a)' <=> Completed(a)
       /\ \A a \in Nat : Evaluated(a)' <=> Evaluated(a)
  BY <1>7, <1>8 DEF Completed, Evaluated
<1>12. \A a \in Nat : Signalled(a)' <=> Signalled(a)
  BY <1>7, <1>8, <1>9 DEF Signalled
<1>13. EventsPast => EventsPast'
  BY <1>4, <1>6 DEF EventsPast
<1> QED
  BY <1>4, <1>5, <1>10, <1>11, <1>12, <1>13

Is(x, type, a) == x.type = type /\ x.attempt = a
IsSignal(x, a) == Is(x, "supervisor.action_requested", a) /\ x.data \in Signals
IsStep(x, a)   == Is(x, "agent.event", a) /\ x.data = "step"

LEMMA EventReads ==
    ASSUME TypeOK, NEW x \in LogEvent, log' = log \o <<x>>
    PROVE  /\ x.attempt \in Nat
           /\ \A a \in Nat : Completed(a)' <=> (Completed(a) \/ Is(x, "agent.execution.completed", a))
           /\ \A a \in Nat : Evaluated(a)' <=> (Evaluated(a) \/ Is(x, "evaluation.started", a))
           /\ \A a \in Nat : Signalled(a)' <=> (Signalled(a) \/ IsSignal(x, a))
           /\ \A a \in Nat : StepsOf(a)' = IF IsStep(x, a) THEN StepsOf(a) \cup {Len(log')}
                                           ELSE StepsOf(a)
           /\ x.type # "run.started" => Attempt(log') = Attempt(log)
           /\ x.type = "run.started" => Attempt(log') = x.attempt
           /\ IF x.type = "agent.execution.completed"
              THEN UsedOf(log') = [u \in Resources |-> UsedOf(log)[u] + x.usage[u]]
              ELSE UsedOf(log') = UsedOf(log)
           /\ /\ EventsPast /\ Attempt(log) =< Attempt(log')
              /\ x.type \in Numbered => x.attempt =< Attempt(log')
              => EventsPast'
<1> DEFINE n == Len(log')
<1>1. log \in Seq(LogEvent) /\ x.attempt \in Nat
  BY LogIsStream, RecordSets
<1>2. /\ DOMAIN log' = DOMAIN log \cup {n} /\ n \notin DOMAIN log /\ log'[n] = x
      /\ \A i \in DOMAIN log : log'[i] = log[i]
      /\ log' \in Seq(LogEvent)
  BY OneMore
<1> HIDE DEF n
<1>3. \A a \in Nat : \A T : OfAttempt(a, T)' = IF Is(x, T, a)
                                  THEN OfAttempt(a, T) \cup {n} ELSE OfAttempt(a, T)
  BY <1>2 DEF OfAttempt, Is
<1>4. \A a \in Nat : \A T : \A i \in OfAttempt(a, T) : log'[i] = log[i] /\ i # n
  BY <1>2 DEF OfAttempt
<1>5. \A a \in Nat : Completed(a)' <=> (Completed(a) \/ Is(x, "agent.execution.completed", a))
  BY <1>3 DEF Completed
<1>6. \A a \in Nat : Evaluated(a)' <=> (Evaluated(a) \/ Is(x, "evaluation.started", a))
  BY <1>3 DEF Evaluated
<1>7. \A a \in Nat : Signalled(a)' <=> (Signalled(a) \/ IsSignal(x, a))
  <2> TAKE a \in Nat
  <2> DEFINE S == OfAttempt(a, "supervisor.action_requested")
  <2>1. Signalled(a)' <=> \E i \in S' : log'[i].data \in Signals
    BY DEF Signalled
  <2>2. Signalled(a) <=> \E i \in S : log[i].data \in Signals
    BY DEF Signalled
  <2>3. \A i \in S : log'[i] = log[i]
    BY <1>4
  <2>4. S' = IF Is(x, "supervisor.action_requested", a) THEN S \cup {n} ELSE S
    BY <1>3
  <2> HIDE DEF S
  <2> QED
    BY <1>2, <2>1, <2>2, <2>3, <2>4 DEF IsSignal
<1>8. \A a \in Nat : StepsOf(a)' = IF IsStep(x, a) THEN StepsOf(a) \cup {n} ELSE StepsOf(a)
  <2> TAKE a \in Nat
  <2>1. StepsOf(a)' = {i \in OfAttempt(a, "agent.event")' : log'[i].data = "step"}
    BY DEF StepsOf
  <2>2. \A i \in OfAttempt(a, "agent.event") : log'[i] = log[i]
    BY <1>4
  <2>3. OfAttempt(a, "agent.event")' = IF Is(x, "agent.event", a)
           THEN OfAttempt(a, "agent.event") \cup {n} ELSE OfAttempt(a, "agent.event")
    BY <1>3
  <2> QED
    BY <1>2, <2>1, <2>2, <2>3 DEF StepsOf, IsStep
<1>9. <<x>> \in Seq(LogEvent) /\ \A i \in DOMAIN <<x>> : <<x>>[i].type = x.type
  OBVIOUS
<1>10. x.type # "run.started" => Attempt(log') = Attempt(log)
  <2> DEFINE b == <<x>>
  <2>1. b \in Seq(LogEvent) /\ log' = log \o b /\ \A i \in DOMAIN b : b[i].type = x.type
    BY <1>9
  <2> HIDE DEF b
  <2> QED
    BY <1>1, <2>1, AttemptKept DEF LogEvent
<1>11. x.type = "run.started" => Attempt(log') = x.attempt
  BY <1>1, AttemptSet DEF LogEvent
<1>12. x.type = "agent.execution.completed" => UsedOf(log') = [u \in Resources |-> UsedOf(log)[u] + x.usage[u]]
  BY <1>1, UsedOfIs DEF LogEvent
<1>13. x.type # "agent.execution.completed" => UsedOf(log') = UsedOf(log)
  <2> DEFINE b == <<x>>
  <2>1. b \in Seq(LogEvent) /\ log' = log \o b /\ \A i \in DOMAIN b : b[i].type = x.type
    BY <1>9
  <2> HIDE DEF b
  <2> QED
    BY <1>1, <2>1, UsedOfKept DEF LogEvent
<1>14. ASSUME EventsPast, Attempt(log) =< Attempt(log'),
              x.type \in Numbered => x.attempt =< Attempt(log')
       PROVE  EventsPast'
  <2>1. Attempt(log) \in Nat /\ Attempt(log') \in Nat
    BY <1>1, <1>2, AttemptIs DEF LogEvent
  <2>3. \A i \in DOMAIN log : log[i].attempt \in Nat
    BY <1>1, ElementOfSeq, RecordSets
  <2>2. \A i \in DOMAIN log : log[i].type \in Numbered => log[i].attempt =< Attempt(log')
    BY <1>14, <2>1, <2>3 DEF EventsPast
  <2> QED
    BY <1>2, <1>14, <2>2 DEF EventsPast
<1> QED
  BY <1>1, <1>5, <1>6, <1>7, <1>10, <1>11, <1>12, <1>13, <1>14, <1>8 DEF n

-----------------------------------------------------------------------------
(* The steps of an attempt that are not calm.                              *)

\* A task that appends is the only live one, and goes on in its attempt.
LEMMA TaskMoves ==
    ASSUME IInv, NEW t \in Tasks, Appends(t)
    PROVE  /\ \A u \in Tasks : u # t => task'[u] = task[u] /\ task[u].pc = "done"
           /\ UNCHANGED emits
           /\ task'[t].pc = After(t)
           /\ task[t].pc # "verdict" =>
                 task'[t].snap = task[t].snap /\ task'[t].arg = task[t].arg
<1>1. TasksTyped /\ task[t] \in TaskRec /\ task[t].arg \in Words
  BY Typed DEF IInv, TasksTyped, TaskRec
<1>2. /\ GotoWith(t, After(t), task[t].arg) /\ UNCHANGED emits
      /\ task[t].pc \in {"start", "completed", "evaluate", "evaluated", "verdict"}
  BY DEF Appends, TaskAppends, Continue
<1>3. /\ After(t) \in Pcs
      /\ task[t].pc # "verdict" => After(t) \notin {"done", "load"}
  BY <1>2 DEF After, Pcs, Appending
<1>4. /\ task' = [task EXCEPT ![t] = Moved(task[t], After(t), task[t].arg)]
      /\ task'[t].pc = After(t)
      /\ \A u \in Tasks : u # t => task'[u] = task[u]
  BY <1>1, <1>2, <1>3, GotoStep
<1>5. task'[t] = Moved(task[t], After(t), task[t].arg)
  BY <1>1, <1>4 DEF TasksTyped
<1>6. task[t].pc # "verdict" =>
         task'[t].snap = task[t].snap /\ task'[t].arg = task[t].arg
  BY <1>1, <1>3, <1>5 DEF Moved, TaskRec
<1>7. \A u \in Tasks : u # t => task[u].pc = "done"
  BY <1>2 DEF IInv, Alone, Live
<1> QED
  BY <1>2, <1>4, <1>6, <1>7

\* The event it appends, or two of them.
LEMMA TaskEvent ==
    ASSUME IInv, NEW t \in Tasks, Appends(t)
    PROVE  /\ task[t].pc = "start" => \E x \in LogEvent :
                 /\ log' = log \o <<x>> /\ x.type = "run.started"
                 /\ x.attempt = AttemptOf(t) /\ AttemptOf(t) = Attempt(log) + 1
           /\ task[t].pc = "completed" => \E x \in LogEvent :
                 /\ log' = log \o <<x>> /\ x.type = "agent.execution.completed"
                 /\ x.attempt = AttemptOf(t) /\ x.usage = task[t].usage
           /\ task[t].pc = "evaluate" => \E x \in LogEvent :
                 /\ log' = log \o <<x>> /\ x.type = "evaluation.started"
                 /\ x.attempt = AttemptOf(t)
           /\ task[t].pc = "evaluated" => \E x \in LogEvent :
                 /\ log' = log \o <<x>> /\ x.type = "evaluation.completed"
                 /\ x.attempt = AttemptOf(t)
                 /\ task[t].arg = "pass" => x.data = "passed"
           /\ task[t].pc = "verdict" =>
                 \/ \E x \in LogEvent :
                       /\ log' = log \o <<x>>
                       /\ \/ Quiet(x)
                          \/ /\ task[t].arg = "pass" /\ x.type = "run.succeeded"
                             /\ x.attempt = AttemptOf(t) /\ x.data = "graders"
                 \/ /\ task[t].arg = "retry"
                    /\ \E x, y \in LogEvent :
                          /\ log' = log \o <<x, y>> /\ x.type = "hint.published"
                          /\ y.type = "run.retry_scheduled" /\ y.attempt = AttemptOf(t) + 1
<1>1. TasksTyped /\ Args /\ task[t].arg \in Words /\ Plain \subseteq LogEvent
  BY Typed, RecordSets DEF IInv, TasksTyped, TaskRec
<1>2. PICK a \in Nat : a = AttemptOf(t)
  BY <1>1, AttemptTyped
<1>3. PICK n \in Amounts : n = task[t].usage
  BY <1>1, AttemptTyped
<1>4. log' = log \o Batch(t)
  BY DEF Appends, TaskAppends
<1>5. CASE task[t].pc = "start"
  <2>1. Batch(t) = <<Ev("run.started", a)>> /\ a = Attempt(log) + 1
    BY <1>2, <1>5 DEF Batch, AttemptOf, IInv, FreshStart
  <2>2. Ev("run.started", a) \in LogEvent
    BY StartTyped
  <2>3. Ev("run.started", a).type = "run.started" /\ Ev("run.started", a).attempt = a
    BY DEF Ev
  <2> QED
    BY <1>2, <1>4, <1>5, <2>1, <2>2, <2>3
<1>6. CASE task[t].pc = "completed"
  <2> DEFINE x == [Ev("agent.execution.completed", a) EXCEPT !.usage = n]
  <2>1. Batch(t) = <<x>>
    BY <1>2, <1>3, <1>6 DEF Batch
  <2>2. x \in LogEvent
    BY <1>1, PlainTypes, EvPlain
  <2>3. x.type = "agent.execution.completed" /\ x.attempt = a /\ x.usage = n
    BY DEF Ev
  <2> HIDE DEF x
  <2> QED
    BY <1>2, <1>3, <1>4, <1>6, <2>1, <2>2, <2>3
<1>7. CASE task[t].pc = "evaluate"
  <2> DEFINE x == Ev("evaluation.started", a)
  <2>1. Batch(t) = <<x>>
    BY <1>2, <1>7 DEF Batch
  <2>2. x \in LogEvent
    BY <1>1, PlainTypes, EvPlain
  <2>3. x.type = "evaluation.started" /\ x.attempt = a
    BY DEF Ev
  <2> HIDE DEF x
  <2> QED
    BY <1>2, <1>4, <1>7, <2>1, <2>2, <2>3
<1>8. CASE task[t].pc = "evaluated"
  <2>1. PICK d \in Words : d = IF task[t].arg = "pass" THEN "passed" ELSE "not passed"
    BY DEF Words
  <2> DEFINE x == [Ev("evaluation.completed", a) EXCEPT !.data = d]
  <2>2. Batch(t) = <<x>>
    BY <1>2, <1>8, <2>1 DEF Batch
  <2>3. x \in LogEvent
    BY <1>1, PlainTypes, EvPlain
  <2>4. x.type = "evaluation.completed" /\ x.attempt = a /\ x.data = d
    BY DEF Ev
  <2> HIDE DEF x
  <2> QED
    BY <1>2, <1>4, <1>8, <2>1, <2>2, <2>3, <2>4
<1>9. CASE task[t].pc = "verdict"
  <2>1. Batch(t) = Verdict(a, task[t].arg) /\ task[t].arg \in Verdicts
    BY <1>1, <1>2, <1>9 DEF Batch, Args, ArgOf
  <2>2. CASE task[t].arg = "pass"
    <3> DEFINE x == [Ev("run.succeeded", a) EXCEPT !.data = "graders"]
    <3>1. Batch(t) = <<x>>
      BY <2>1, <2>2 DEF Verdict
    <3>2. x \in LogEvent
      <4>1. "graders" \in Words
        BY DEF Words
      <4> QED
        BY <1>1, <4>1, PlainTypes, EvPlain
    <3>3. x.type = "run.succeeded" /\ x.attempt = a /\ x.data = "graders"
      BY DEF Ev
    <3> HIDE DEF x
    <3> QED
      BY <1>2, <1>4, <1>9, <2>2, <3>1, <3>2, <3>3
  <2>3. CASE task[t].arg = "retry"
    <3> DEFINE x == [Ev("hint.published", a) EXCEPT !.data = "evaluation"]
               y == Ev("run.retry_scheduled", a + 1)
    <3>1. Batch(t) = <<x, y>>
      BY <2>1, <2>3 DEF Verdict
    <3>2. x \in LogEvent /\ y \in LogEvent
      <4>1. "evaluation" \in Words /\ a + 1 \in Nat
        BY DEF Words
      <4> QED
        BY <1>1, <4>1, PlainTypes, EvPlain
    <3>3. x.type = "hint.published" /\ y.type = "run.retry_scheduled" /\ y.attempt = a + 1
      BY DEF Ev
    <3> HIDE DEF x, y
    <3> QED
      BY <1>2, <1>4, <1>9, <2>3, <3>1, <3>2, <3>3
  <2>4. CASE task[t].arg \in {"human", "fail"}
    <3>1. PICK type \in {"run.waiting_human", "run.failed"} : Batch(t) = <<Ev(type, a)>>
      BY <2>1, <2>4 DEF Verdict
    <3>2. Ev(type, a) \in LogEvent /\ Quiet(Ev(type, a))
      BY <1>1, PlainTypes, EvPlain DEF Quiet, Loud, Ev
    <3> QED
      BY <1>4, <1>9, <3>1, <3>2
  <2> QED
    BY <2>1, <2>2, <2>3, <2>4 DEF Verdicts
<1> QED
  BY <1>5, <1>6, <1>7, <1>8, <1>9 DEF Appends

\* The events by which a request reopens the run, or ends it by approval.
LEMMA ReopenEvents ==
    ASSUME IInv, NEW r \in Requests, Reopens(r)
    PROVE  \/ \E x \in LogEvent : log' = log \o <<x>> /\ x.type = "run.resumed"
           \/ \E x, y \in LogEvent :
                 /\ log' = log \o <<x, y>>
                 /\ \/ x.type = "run.recovered"
                    \/ x.type = "hitl.resolved" /\ x.data = "retry"
                 /\ y.type = "run.retry_scheduled"
           \/ \E x, y \in LogEvent :
                 /\ log' = log \o <<x, y>>
                 /\ x = Resolved(y.attempt, "approve") /\ x.type = "hitl.resolved"
                 /\ x.data = "approve" /\ y.type = "run.succeeded" /\ y.data = "human"
<1>1. RequestsTyped /\ Plain \subseteq LogEvent
  BY Typed, RecordSets DEF IInv
<1>2. PICK a \in Nat : a = request[r].from
  BY <1>1 DEF RequestsTyped, Request
<1>3. log' = log \o RequestBatch(r)
  BY DEF Reopens, RequestAppends
<1>4. /\ "approve" \in Words /\ "retry" \in Words /\ "human" \in Words /\ a + 1 \in Nat
  BY DEF Words, AllOperations
<1>5. /\ Ev("run.resumed", a + 1) \in LogEvent /\ Ev("run.recovered", a) \in LogEvent
      /\ Ev("run.retry_scheduled", a + 1) \in LogEvent
  BY <1>1, <1>4, PlainTypes, EvPlain
<1>6. /\ Resolved(a, "approve") \in LogEvent /\ Resolved(a, "retry") \in LogEvent
      /\ [Ev("run.succeeded", a) EXCEPT !.data = "human"] \in LogEvent
  BY <1>1, <1>4, PlainTypes, EvPlain DEF Resolved
<1>7. CASE request[r].op = "resume"
  <2> DEFINE x == Ev("run.resumed", a + 1)
  <2>1. RequestBatch(r) = <<x>> /\ x \in LogEvent
    BY <1>2, <1>5, <1>7 DEF RequestBatch
  <2>2. x.type = "run.resumed"
    BY DEF Ev
  <2> HIDE DEF x
  <2> QED
    BY <1>3, <2>1, <2>2
<1>8. CASE request[r].op = "recover"
  <2> DEFINE x == Ev("run.recovered", a)
             y == Ev("run.retry_scheduled", a + 1)
  <2>1. RequestBatch(r) = <<x, y>> /\ x \in LogEvent /\ y \in LogEvent
    BY <1>2, <1>5, <1>8 DEF RequestBatch
  <2>2. x.type = "run.recovered" /\ y.type = "run.retry_scheduled"
    BY DEF Ev
  <2> HIDE DEF x, y
  <2> QED
    BY <1>3, <2>1, <2>2
<1>9. CASE request[r].op = "retry"
  <2> DEFINE x == Resolved(a, "retry")
             y == Ev("run.retry_scheduled", a + 1)
  <2>1. RequestBatch(r) = <<x, y>> /\ x \in LogEvent /\ y \in LogEvent
    BY <1>2, <1>5, <1>6, <1>9 DEF RequestBatch
  <2>2. x.type = "hitl.resolved" /\ x.data = "retry" /\ y.type = "run.retry_scheduled"
    BY DEF Ev, Resolved
  <2> HIDE DEF x, y
  <2> QED
    BY <1>3, <2>1, <2>2
<1>10. CASE request[r].op = "approve"
  <2> DEFINE x == Resolved(a, "approve")
             y == [Ev("run.succeeded", a) EXCEPT !.data = "human"]
  <2>1. RequestBatch(r) = <<x, y>> /\ x \in LogEvent /\ y \in LogEvent
    BY <1>2, <1>6, <1>10 DEF RequestBatch
  <2>2. /\ x = Resolved(y.attempt, "approve") /\ x.type = "hitl.resolved"
        /\ x.data = "approve" /\ y.type = "run.succeeded" /\ y.data = "human"
    BY DEF Ev, Resolved
  <2> HIDE DEF x, y
  <2> QED
    BY <1>3, <2>1, <2>2
<1> QED
  BY <1>7, <1>8, <1>9, <1>10 DEF Reopens

LEMMA UnnumberedLogs ==
    ASSUME IInv
    PROVE  /\ UNCHANGED log => Unnumbered
           /\ QuietLog => Unnumbered
           /\ \A r \in Requests : Reopens(r) => Unnumbered
           /\ \A t \in Tasks : Appends(t) /\ task[t].pc \in {"evaluated", "verdict"} => Unnumbered
<1> DEFINE Others(x) == x.type \notin Numbered \cup {"run.started"}
<1>1. TypeOK /\ log \in Seq(LogEvent)
  BY LogIsStream DEF IInv
<1>2. QuietLog => Unnumbered
  BY DEF QuietLog, Unnumbered, Quiet, Loud, Numbered
<1>3. UNCHANGED log => Unnumbered
  BY <1>1, <1>2, QuietLogs
<1>4. ASSUME NEW x \in LogEvent, log' = log \o <<x>>, Others(x) PROVE Unnumbered
  <2> DEFINE b == <<x>>
  <2>1. b \in Seq(LogEvent) /\ log' = log \o b /\ \A i \in DOMAIN b : b[i] = x
    BY <1>4
  <2> HIDE DEF b
  <2> QED
    BY <1>4, <2>1 DEF Unnumbered
<1>5. ASSUME NEW x \in LogEvent, NEW y \in LogEvent, log' = log \o <<x, y>>,
             Others(x), Others(y)
      PROVE  Unnumbered
  <2> DEFINE b == <<x, y>>
  <2>1. /\ b \in Seq(LogEvent) /\ log' = log \o b
        /\ \A i \in DOMAIN b : b[i] = x \/ b[i] = y
    BY <1>5
  <2> HIDE DEF b
  <2> QED
    BY <1>5, <2>1 DEF Unnumbered
<1>6. \A x \in LogEvent : Quiet(x) => Others(x)
  BY DEF Quiet, Loud, Numbered
<1>7. \A x \in LogEvent :
         x.type \in {"run.resumed", "run.recovered", "run.retry_scheduled", "hitl.resolved",
                    "run.succeeded", "evaluation.completed", "hint.published"} => Others(x)
  BY DEF Numbered
<1> HIDE DEF Others
<1>8. ASSUME NEW r \in Requests, Reopens(r) PROVE Unnumbered
  <2>1. CASE \E x \in LogEvent : log' = log \o <<x>> /\ x.type = "run.resumed"
    BY <1>4, <1>7, <2>1
  <2>2. CASE \E x, y \in LogEvent :
               /\ log' = log \o <<x, y>>
               /\ x.type \in {"run.recovered", "hitl.resolved"}
               /\ y.type \in {"run.retry_scheduled", "run.succeeded"}
    <3>1. PICK x \in LogEvent, y \in LogEvent :
             /\ log' = log \o <<x, y>>
             /\ x.type \in {"run.recovered", "hitl.resolved"}
             /\ y.type \in {"run.retry_scheduled", "run.succeeded"}
      BY <2>2
    <3>2. Others(x) /\ Others(y)
      BY <1>7, <3>1
    <3> QED
      BY <1>5, <3>1, <3>2
  <2> QED
    BY <1>8, <2>1, <2>2, ReopenEvents
<1>9. ASSUME NEW t \in Tasks, Appends(t), task[t].pc \in {"evaluated", "verdict"}
      PROVE  Unnumbered
  <2>1. ASSUME NEW x \in LogEvent, log' = log \o <<x>>,
               Quiet(x) \/ x.type \in {"run.succeeded", "evaluation.completed"}
        PROVE  Unnumbered
    BY <1>4, <1>6, <1>7, <2>1
  <2>2. ASSUME NEW x \in LogEvent, NEW y \in LogEvent, log' = log \o <<x, y>>,
               x.type = "hint.published", y.type = "run.retry_scheduled"
        PROVE  Unnumbered
    BY <1>5, <1>7, <2>2
  <2>3. CASE task[t].pc = "evaluated"
    <3>1. PICK x \in LogEvent : log' = log \o <<x>> /\ x.type = "evaluation.completed"
      BY <1>9, <2>3, TaskEvent
    <3> QED
      BY <2>1, <3>1
  <2>4. CASE task[t].pc = "verdict"
    <3>1. CASE \E x \in LogEvent :
                 /\ log' = log \o <<x>>
                 /\ \/ Quiet(x)
                    \/ /\ task[t].arg = "pass" /\ x.type = "run.succeeded"
                       /\ x.attempt = AttemptOf(t) /\ x.data = "graders"
      <4>1. PICK x \in LogEvent :
               log' = log \o <<x>> /\ (Quiet(x) \/ x.type = "run.succeeded")
        BY <3>1
      <4> QED
        BY <2>1, <4>1
    <3>2. CASE \E x, y \in LogEvent :
                 /\ log' = log \o <<x, y>> /\ x.type = "hint.published"
                 /\ y.type = "run.retry_scheduled" /\ y.attempt = AttemptOf(t) + 1
      BY <2>2, <3>2
    <3> QED
      BY <1>9, <2>4, <3>1, <3>2, TaskEvent
  <2> QED
    BY <1>9, <2>3, <2>4
<1> QED
  BY <1>2, <1>3, <1>8, <1>9

-----------------------------------------------------------------------------
(* AttemptInv is inductive relative to IInv.                               *)

LEMMA EmitsFrom ==
    ASSUME EmitsKeep
    PROVE  /\ \A f \in emits' : \E e \in emits :
                 /\ f.owner = e.owner /\ f.attempt = e.attempt /\ f.known = e.known
                 /\ f.pc = "event" => e.pc = "event"
           /\ OneEmit => OneEmit'
<1>1. CASE emits' \subseteq emits
  BY <1>1 DEF OneEmit
<1>2. CASE \E e \in emits : \E f \in emits' :
             /\ emits' \subseteq (emits \ {e}) \cup {f}
             /\ f.owner = e.owner /\ f.attempt = e.attempt /\ f.known = e.known
             /\ f.pc = "event" => e.pc = "event"
  BY <1>2 DEF OneEmit
<1> QED
  BY <1>1, <1>2 DEF EmitsKeep

\* A task does not enter an attempt, and within it goes on in the order of
\* execution, completion and evaluation.
Proceeds(u) ==
    In(u)' =>
        /\ In(u) /\ AttemptOf(u)' = AttemptOf(u)
        /\ task'[u].pc \in Grading => task[u].pc \in Grading
        /\ task'[u].pc = "execute" => task[u].pc = "execute"
        /\ task'[u].pc \in {"execute", "completed"} => task[u].pc \in {"execute", "completed"}
        /\ task'[u].pc \in {"execute", "completed", "evaluate"}
              => task[u].pc \in {"execute", "completed", "evaluate"}
Proceed == (\A u \in Tasks : Proceeds(u)) /\ EmitsKeep

LEMMA SettledProceed ==
    ASSUME Settled
    PROVE  Proceed
<1>1. ASSUME NEW u \in Tasks PROVE Proceeds(u)
  <2>1. CASE Same(u)
    BY <2>1 DEF Same, Proceeds, In, AttemptOf
  <2>2. CASE Stops(u)
    BY <2>2 DEF Stops, Proceeds, In, Within, Grading, AttemptOf
  <2> QED
    BY <2>1, <2>2 DEF Settled, Keeps
<1> QED
  BY <1>1 DEF Proceed, Settled

LEMMA ProceedKeeps ==
    ASSUME IInv, AttemptInv, Proceed, Attempt(log') = Attempt(log)
    PROVE  InLast' /\ EmitsPast' /\ OneEmit' /\ EmitOwned'
<1>1. InLast'
  <2> SUFFICES ASSUME NEW u \in Tasks, In(u)' PROVE AttemptOf(u)' = Attempt(log')
    BY DEF InLast
  <2> QED
    BY DEF Proceed, Proceeds, AttemptInv, InLast
<1>2. \A f \in emits' : \E e \in emits : f.owner = e.owner /\ f.attempt = e.attempt
  BY EmitsFrom DEF Proceed
<1>3. EmitsPast'
  BY <1>2 DEF AttemptInv, EmitsPast
<1>4. OneEmit'
  BY EmitsFrom DEF Proceed, AttemptInv
<1>5. EmitOwned'
  <2> SUFFICES ASSUME NEW u \in Tasks, NEW f \in emits', In(u)', f.attempt = AttemptOf(u)'
               PROVE  f.owner = u /\ task'[u].pc \notin Grading
    BY DEF EmitOwned
  <2> QED
    BY <1>2 DEF Proceed, Proceeds, AttemptInv, EmitOwned
<1> QED
  BY <1>1, <1>3, <1>4, <1>5

\* The attempt of a task that executes, completes or evaluates after the step.
LEMMA ProceedFrom ==
    ASSUME IInv, Proceed, NEW t \in Tasks, NEW a, a = AttemptOf(t)',
           task'[t].pc \in {"execute", "completed", "evaluate"}
    PROVE  /\ a = AttemptOf(t) /\ a \in Nat
           /\ task[t].pc \in {"execute", "completed", "evaluate"}
           /\ task'[t].pc = "execute" => task[t].pc = "execute"
<1>1. In(t)'
  BY DEF In, Within, Grading
<1>2. TasksTyped
  BY Typed DEF IInv
<1> QED
  BY <1>1, <1>2, AttemptTyped DEF Proceed, Proceeds

LEMMA UnnumberedKeeps ==
    ASSUME IInv, AttemptInv, Proceed, Unnumbered
    PROVE  AttemptInv'
<1>1. TypeOK /\ emits \subseteq Emit
  BY DEF IInv, CallsTyped
<1>2. /\ Attempt(log') = Attempt(log) /\ EventsPast'
      /\ \A a \in Nat : Completed(a)' <=> Completed(a)
      /\ \A a \in Nat : Evaluated(a)' <=> Evaluated(a)
      /\ \A a \in Nat : Signalled(a)' <=> Signalled(a)
  BY <1>1, UnnumberedReads DEF AttemptInv
<1>3. InLast' /\ EmitsPast' /\ OneEmit' /\ EmitOwned'
  BY <1>2, ProceedKeeps
<1>4. \A f \in emits' : \E e \in emits : f.attempt = e.attempt /\ e.attempt \in Nat
  BY <1>1, EmitsFrom DEF Proceed, Emit
<1>5. EmitOpen'
  BY <1>2, <1>4 DEF AttemptInv, EmitOpen
<1>6. TaskOpen'
  <2> SUFFICES ASSUME NEW t \in Tasks, NEW a, a = AttemptOf(t)',
                      task'[t].pc \in {"execute", "completed", "evaluate"}
               PROVE  /\ task'[t].pc = "execute" => ~Completed(a)' /\ ~Evaluated(a)'
                      /\ ~Signalled(a)'
    BY DEF TaskOpen
  <2> QED
    BY <1>2, ProceedFrom DEF AttemptInv, TaskOpen
<1>7. SignalWins'
  BY <1>2 DEF AttemptInv, SignalWins
<1> QED
  BY <1>2, <1>3, <1>5, <1>6, <1>7 DEF AttemptInv

\* An event that closes its attempt, when nothing in the attempt is open to it.
LEMMA EventKeeps ==
    ASSUME IInv, AttemptInv, Proceed,
           NEW x \in LogEvent, log' = log \o <<x>>, x.type # "run.started",
           x.attempt =< Attempt(log),
           x.type \in {"agent.execution.completed", "evaluation.started"} =>
              /\ \A e \in emits : e.attempt # x.attempt
              /\ \A t \in Tasks : task'[t].pc = "execute" => AttemptOf(t)' # x.attempt
              /\ ~Signalled(x.attempt),
           x.type = "supervisor.action_requested" /\ x.data \in Signals =>
              /\ \A f \in emits' : f.attempt # x.attempt
              /\ \A t \in Tasks : task'[t].pc \in {"execute", "completed", "evaluate"}
                                  => AttemptOf(t)' # x.attempt
              /\ ~Completed(x.attempt) /\ ~Evaluated(x.attempt)
    PROVE  AttemptInv'
<1>1. TypeOK /\ emits \subseteq Emit /\ log \in Seq(LogEvent) /\ Attempt(log) \in Nat
  BY LogIsStream, SnapshotTyped DEF IInv, CallsTyped
<1>2. /\ x.attempt \in Nat
      /\ \A a \in Nat : Completed(a)' <=> (Completed(a) \/ Is(x, "agent.execution.completed", a))
      /\ \A a \in Nat : Evaluated(a)' <=> (Evaluated(a) \/ Is(x, "evaluation.started", a))
      /\ \A a \in Nat : Signalled(a)' <=> (Signalled(a) \/ IsSignal(x, a))
      /\ Attempt(log') = Attempt(log)
      /\ /\ EventsPast /\ Attempt(log) =< Attempt(log')
         /\ x.type \in Numbered => x.attempt =< Attempt(log')
         => EventsPast'
  BY <1>1, EventReads
<1>3. EventsPast'
  BY <1>1, <1>2 DEF AttemptInv
<1>4. InLast' /\ EmitsPast' /\ OneEmit' /\ EmitOwned'
  BY <1>2, ProceedKeeps
<1>5. \A f \in emits' : \E e \in emits : f.attempt = e.attempt /\ e.attempt \in Nat
  BY <1>1, EmitsFrom DEF Proceed, Emit
<1>6. EmitOpen'
  BY <1>2, <1>5 DEF AttemptInv, EmitOpen, Is, IsSignal
<1>7. TaskOpen'
  <2> SUFFICES ASSUME NEW t \in Tasks, NEW a, a = AttemptOf(t)',
                      task'[t].pc \in {"execute", "completed", "evaluate"}
               PROVE  /\ task'[t].pc = "execute" => ~Completed(a)' /\ ~Evaluated(a)'
                      /\ ~Signalled(a)'
    BY DEF TaskOpen
  <2>1. /\ a = AttemptOf(t) /\ a \in Nat
        /\ task[t].pc \in {"execute", "completed", "evaluate"}
        /\ task'[t].pc = "execute" => task[t].pc = "execute"
    BY ProceedFrom
  <2> QED
    BY <1>2, <2>1 DEF AttemptInv, TaskOpen, Is, IsSignal
<1>8. SignalWins'
  BY <1>2 DEF AttemptInv, SignalWins, Is, IsSignal
<1> QED
  BY <1>3, <1>4, <1>6, <1>7, <1>8 DEF AttemptInv

\* Steps that move a task and append nothing.
LEMMA LoadsMoves ==
    ASSUME IInv, NEW t \in Tasks, Loads(t)
    PROVE  /\ UNCHANGED <<log, emits>> /\ task[t].pc = "load"
           /\ task'[t].pc = "start" /\ task'[t].snap = Snapshot
           /\ \A u \in Tasks : u # t => task'[u] = task[u] /\ task[u].pc = "done"
<1>1. TasksTyped /\ Snapshot \in Snap
  BY Typed, SnapshotTyped DEF IInv
<1>2. /\ task' = [task EXCEPT ![t].pc = "start", ![t].snap = Snapshot]
      /\ UNCHANGED <<log, emits>> /\ task[t].pc = "load"
  BY DEF Loads, Load
<1>3. /\ task'[t].pc = "start" /\ task'[t].snap = Snapshot
      /\ \A u \in Tasks : u # t => task'[u] = task[u]
  BY <1>1, <1>2 DEF TasksTyped, TaskRec
<1>4. \A u \in Tasks : u # t => task[u].pc = "done"
  BY <1>2 DEF IInv, Alone, Live
<1> QED
  BY <1>2, <1>3, <1>4

LEMMA ReturnsMoves ==
    ASSUME IInv, NEW t \in Tasks, HarnessReturns(t)
    PROVE  /\ UNCHANGED <<log, emits>> /\ task[t].pc = "execute" /\ OwnEmits(t) = {}
           /\ task'[t].pc = "completed" /\ task'[t].snap = task[t].snap
           /\ \A u \in Tasks : u # t => task'[u] = task[u] /\ task[u].pc = "done"
<1>1. TasksTyped
  BY Typed DEF IInv
<1>2. PICK n \in Usages : task' = [task EXCEPT ![t].pc = "completed", ![t].usage = n]
  BY DEF HarnessReturns
<1>3. UNCHANGED <<log, emits>> /\ task[t].pc = "execute" /\ OwnEmits(t) = {}
  BY DEF HarnessReturns
<1>4. /\ task'[t].pc = "completed" /\ task'[t].snap = task[t].snap
      /\ \A u \in Tasks : u # t => task'[u] = task[u]
  BY <1>1, <1>2 DEF TasksTyped, TaskRec
<1>5. \A u \in Tasks : u # t => task[u].pc = "done"
  BY <1>3 DEF IInv, Alone, Live
<1> QED
  BY <1>3, <1>4, <1>5

LEMMA GatherMoves ==
    ASSUME IInv, NEW t \in Tasks, Gather(t)
    PROVE  /\ UNCHANGED <<log, emits>> /\ task[t].pc = "gather"
           /\ task'[t].pc = "evaluated" /\ task'[t].snap = task[t].snap
           /\ task'[t].arg = Decide(OwnGrades(t), AttemptOf(t))
           /\ \A u \in Tasks : u # t => task'[u] = task[u] /\ task[u].pc = "done"
<1>1. TasksTyped /\ task[t] \in TaskRec
  BY Typed DEF IInv, TasksTyped
<1>2. PICK arg \in Words : arg = Decide(OwnGrades(t), AttemptOf(t))
  BY DEF Decide, Words, AllOperations
<1>3. /\ GotoWith(t, "evaluated", arg) /\ UNCHANGED <<log, emits>> /\ task[t].pc = "gather"
      /\ "evaluated" \in Pcs
  BY <1>2 DEF Gather, Pcs, Appending
<1>4. /\ task' = [task EXCEPT ![t] = Moved(task[t], "evaluated", arg)]
      /\ task'[t].pc = "evaluated" /\ task'[t].arg = arg
      /\ \A u \in Tasks : u # t => task'[u] = task[u]
  BY <1>1, <1>3, GotoStep
<1>5. task'[t].snap = task[t].snap
  BY <1>1, <1>4 DEF Moved, TaskRec, TasksTyped
<1>6. \A u \in Tasks : u # t => task[u].pc = "done"
  BY <1>3 DEF IInv, Alone, Live
<1> QED
  BY <1>2, <1>3, <1>4, <1>5, <1>6

LEMMA MovesProceed ==
    ASSUME IInv, NEW t \in Tasks,
           Loads(t) \/ Gather(t) \/ (Appends(t) /\ task[t].pc # "start")
    PROVE  Proceed
<1>1. EmitsKeep /\ \A u \in Tasks : u # t => task'[u] = task[u]
  BY LoadsMoves, GatherMoves, TaskMoves DEF EmitsKeep
<1>2. \A u \in Tasks : task'[u] = task[u] => Proceeds(u)
  BY DEF Proceeds, In, AttemptOf
<1> SUFFICES Proceeds(t)
  BY <1>1, <1>2 DEF Proceed
<1>3. CASE Loads(t)
  BY <1>3, LoadsMoves DEF Proceeds, In, Within, Grading
<1>4. CASE Gather(t)
  BY <1>4, GatherMoves DEF Proceeds, In, Within, Grading, AttemptOf
<1>5. CASE Appends(t) /\ task[t].pc # "start"
  <2>1. task[t].pc \in {"completed", "evaluate", "evaluated", "verdict"}
    BY <1>5 DEF Appends
  <2>2. /\ task[t].pc = "completed" => task'[t].pc \in {"budget", "evaluate"}
        /\ task[t].pc = "evaluate" => task'[t].pc = "gather"
        /\ task[t].pc = "evaluated" => task'[t].pc = "verdict"
        /\ task[t].pc = "verdict" => task'[t].pc = "load"
        /\ task[t].pc # "verdict" => task'[t].snap = task[t].snap
    BY <1>5, TaskMoves DEF After
  <2> QED
    BY <2>1, <2>2 DEF Proceeds, In, Within, Grading, AttemptOf
<1> QED
  BY <1>3, <1>4, <1>5

\* The first append of a task: the attempt is new to emits and events.
LEMMA StartKeeps ==
    ASSUME IInv, AttemptInv, NEW t \in Tasks, Appends(t), task[t].pc = "start"
    PROVE  AttemptInv'
<1>1. /\ TasksTyped /\ TypeOK /\ emits \subseteq Emit /\ log \in Seq(LogEvent)
      /\ Attempt(log) \in Nat
  BY Typed, LogIsStream, SnapshotTyped DEF IInv, CallsTyped
<1>2. PICK x \in LogEvent : /\ log' = log \o <<x>> /\ x.type = "run.started"
                            /\ x.attempt = AttemptOf(t) /\ AttemptOf(t) = Attempt(log) + 1
  BY TaskEvent
<1>3. /\ x.attempt \in Nat /\ Attempt(log') = x.attempt
      /\ \A a \in Nat : Completed(a)' <=> Completed(a)
      /\ \A a \in Nat : Evaluated(a)' <=> Evaluated(a)
      /\ \A a \in Nat : Signalled(a)' <=> Signalled(a)
      /\ /\ EventsPast /\ Attempt(log) =< Attempt(log')
         /\ x.type \in Numbered => x.attempt =< Attempt(log')
         => EventsPast'
  BY <1>1, <1>2, EventReads DEF Is, IsSignal
<1>4. /\ UNCHANGED emits /\ task'[t].pc = "execute" /\ AttemptOf(t)' = AttemptOf(t)
      /\ \A u \in Tasks : u # t => task'[u].pc = "done"
  BY <1>1, TaskMoves DEF After, AttemptOf
<1>5. \A u \in Tasks : In(u)' => u = t
  BY <1>4 DEF In, Within, Grading
<1>6. InLast' /\ EventsPast'
  BY <1>1, <1>2, <1>3, <1>4, <1>5 DEF AttemptInv, InLast
<1>7. \A e \in emits : e.attempt \in Nat /\ e.attempt =< Attempt(log) /\ e.attempt # x.attempt
  BY <1>1, <1>2 DEF AttemptInv, EmitsPast, Emit
<1>8. EmitsPast' /\ OneEmit' /\ EmitOpen'
  BY <1>1, <1>2, <1>3, <1>4, <1>7 DEF AttemptInv, EmitsPast, OneEmit, EmitOpen
<1>9. EmitOwned'
  <2> SUFFICES ASSUME NEW u \in Tasks, NEW e \in emits, In(u)', e.attempt = AttemptOf(u)'
               PROVE  FALSE
    BY <1>4 DEF EmitOwned
  <2> QED
    BY <1>2, <1>4, <1>5, <1>7
<1>10. ~Completed(x.attempt) /\ ~Evaluated(x.attempt) /\ ~Signalled(x.attempt)
  <2>1. \A i \in DOMAIN log : log[i].attempt \in Nat
    BY <1>1, ElementOfSeq, RecordSets
  <2>2. \A i \in DOMAIN log : log[i].type \in Numbered => log[i].attempt # x.attempt
    BY <1>1, <1>2, <2>1 DEF AttemptInv, EventsPast
  <2> QED
    BY <2>2 DEF Completed, Evaluated, Signalled, OfAttempt, Numbered
<1>11. TaskOpen'
  <2> SUFFICES ASSUME NEW u \in Tasks, NEW a, a = AttemptOf(u)',
                      task'[u].pc \in {"execute", "completed", "evaluate"}
               PROVE  ~Completed(a)' /\ ~Evaluated(a)' /\ ~Signalled(a)'
    BY DEF TaskOpen
  <2>1. a = x.attempt
    BY <1>2, <1>4
  <2> QED
    BY <1>3, <1>10, <2>1
<1>12. SignalWins'
  BY <1>3 DEF AttemptInv, SignalWins
<1> QED
  BY <1>6, <1>8, <1>9, <1>11, <1>12 DEF AttemptInv

LEMMA HarnessEmitsKeeps ==
    ASSUME IInv, AttemptInv, NEW t \in Tasks, HarnessEmits(t)
    PROVE  AttemptInv'
<1>1. /\ TasksTyped /\ AttemptOf(t) \in Nat /\ UNCHANGED <<log, task>>
      /\ task[t].pc = "execute" /\ OwnEmits(t) = {}
  BY Typed, AttemptTyped DEF IInv, HarnessEmits
<1>2. PICK a \in Nat : a = AttemptOf(t)
  BY <1>1
<1>3. PICK kind \in HarnessEvents :
         emits' = emits \cup {[owner |-> t, attempt |-> AttemptOf(t), pc |-> "event",
                               ver |-> 0, kind |-> kind, known |-> task[t].snap.keys,
                               dir |-> [action |-> "continue", keys |-> <<>>]]}
  BY DEF HarnessEmits
<1>4. PICK known \in SUBSET Words : known = task[t].snap.keys
  BY <1>1 DEF TasksTyped, TaskRec, Snap
<1> DEFINE new == [owner |-> t, attempt |-> a, pc |-> "event", ver |-> 0, kind |-> kind,
                   known |-> known, dir |-> [action |-> "continue", keys |-> <<>>]]
<1>5. emits' = emits \cup {new}
  BY <1>2, <1>3, <1>4
<1>6. new.owner = t /\ new.attempt = a
  OBVIOUS
<1> HIDE DEF new
<1>7. In(t) /\ a = Attempt(log) /\ \A u \in Tasks : In(u) => u = t
  BY <1>1, <1>2 DEF In, Within, Grading, AttemptInv, InLast, IInv, Alone, Live
<1>8. \A e \in emits : e.attempt # a
  BY <1>1, <1>2, <1>7 DEF OwnEmits, AttemptInv, EmitOwned
<1>9. ~Completed(a) /\ ~Evaluated(a) /\ ~Signalled(a)
  BY <1>1, <1>2 DEF AttemptInv, TaskOpen
<1>10. UNCHANGED <<log, task>>
  BY <1>1
<1>11. InLast' /\ EventsPast' /\ SignalWins'
  BY <1>10 DEF AttemptInv, InLast, EventsPast, SignalWins, In, AttemptOf, Completed, Evaluated,
     Signalled, OfAttempt
<1>12. TaskOpen'
  BY <1>10 DEF AttemptInv, TaskOpen, AttemptOf, Completed, Evaluated, Signalled, OfAttempt
<1>13. EmitsPast'
  BY <1>5, <1>6, <1>7, <1>10, SnapshotTyped DEF AttemptInv, EmitsPast, IInv
<1>14. OneEmit'
  BY <1>5, <1>6, <1>8 DEF AttemptInv, OneEmit
<1>15. EmitOwned'
  <2> SUFFICES ASSUME NEW u \in Tasks, NEW e \in emits', In(u)', e.attempt = AttemptOf(u)'
               PROVE  e.owner = u /\ task'[u].pc \notin Grading
    BY DEF EmitOwned
  <2>1. In(u) /\ e.attempt = AttemptOf(u)
    BY <1>10 DEF In, AttemptOf
  <2>2. CASE e \in emits
    BY <1>10, <2>1, <2>2 DEF AttemptInv, EmitOwned
  <2>3. CASE e = new
    BY <1>1, <1>6, <1>7, <1>10, <2>1, <2>3 DEF Grading
  <2> QED
    BY <1>5, <2>2, <2>3
<1>16. EmitOpen'
  <2> SUFFICES ASSUME NEW e \in emits'
               PROVE  ~Completed(e.attempt) /\ ~Evaluated(e.attempt) /\ ~Signalled(e.attempt)
    BY <1>10 DEF EmitOpen, Completed, Evaluated, Signalled, OfAttempt
  <2> QED
    BY <1>5, <1>6, <1>9 DEF AttemptInv, EmitOpen
<1> QED
  BY <1>11, <1>12, <1>13, <1>14, <1>15, <1>16 DEF AttemptInv

LEMMA ReturnsKeeps ==
    ASSUME IInv, AttemptInv, NEW t \in Tasks, HarnessReturns(t)
    PROVE  AttemptInv'
<1>1. /\ UNCHANGED <<log, emits>> /\ task[t].pc = "execute" /\ OwnEmits(t) = {}
      /\ task'[t].pc = "completed" /\ task'[t].snap = task[t].snap
      /\ \A u \in Tasks : u # t => task'[u] = task[u] /\ task[u].pc = "done"
  BY ReturnsMoves
<1>2. \A u \in Tasks : In(u)' => u = t /\ In(u) /\ AttemptOf(u)' = AttemptOf(u)
  BY <1>1 DEF In, Within, Grading, AttemptOf
<1>3. \A e \in emits : e.attempt # AttemptOf(t)
  BY <1>1, <1>2 DEF OwnEmits, AttemptInv, EmitOwned, In, Within
<1>4. EventsPast' /\ EmitsPast' /\ OneEmit' /\ SignalWins' /\ EmitOpen'
  BY <1>1 DEF AttemptInv, EventsPast, EmitsPast, OneEmit, SignalWins, EmitOpen, Completed,
     Evaluated, Signalled, OfAttempt
<1>5. InLast'
  <2> SUFFICES ASSUME NEW u \in Tasks, In(u)' PROVE AttemptOf(u)' = Attempt(log')
    BY DEF InLast
  <2> QED
    BY <1>1, <1>2 DEF AttemptInv, InLast
<1>6. EmitOwned'
  <2> SUFFICES ASSUME NEW u \in Tasks, NEW e \in emits, In(u)', e.attempt = AttemptOf(u)'
               PROVE  FALSE
    BY <1>1 DEF EmitOwned
  <2> QED
    BY <1>2, <1>3
<1>7. TaskOpen'
  <2> SUFFICES ASSUME NEW u \in Tasks, NEW a, a = AttemptOf(u)',
                      task'[u].pc \in {"execute", "completed", "evaluate"}
               PROVE  task'[u].pc # "execute" /\ ~Signalled(a)'
    BY DEF TaskOpen
  <2>1. u = t /\ a = AttemptOf(t)
    BY <1>1, <1>2 DEF In, Within, Grading
  <2> QED
    BY <1>1, <2>1 DEF AttemptInv, TaskOpen, Signalled, OfAttempt
<1> QED
  BY <1>4, <1>5, <1>6, <1>7 DEF AttemptInv

\* What an emit that shows an event or an action in its attempt does.
LEMMA ShownEvent ==
    ASSUME IInv, NEW e \in emits, Shown(e)
    PROVE  \E x \in LogEvent :
              /\ log' = log \o <<x>> /\ x.attempt = e.attempt
              /\ \/ /\ e.pc = "event" /\ x.type = "agent.event" /\ x.data = e.kind
                 \/ /\ e.pc = "requested" /\ x.type = "supervisor.action_requested"
                    /\ x.data = e.dir.action
<1>1. /\ e.attempt \in Nat /\ e.kind \in Words /\ e.dir.action \in Words
      /\ Plain \subseteq LogEvent
  BY RecordSets DEF IInv, CallsTyped, Emit, Directive, Words
<1>2. log' = log \o EmitBatch(e)
  BY DEF Shown, EmitAppends
<1>3. CASE e.pc = "event"
  <2> DEFINE x == [Ev("agent.event", e.attempt) EXCEPT !.data = e.kind]
  <2>1. x \in LogEvent
    BY <1>1, PlainTypes, EvPlain
  <2>2. EmitBatch(e) = <<x>>
    BY <1>3 DEF EmitBatch
  <2>3. x.type = "agent.event" /\ x.data = e.kind /\ x.attempt = e.attempt
    BY DEF Ev
  <2> HIDE DEF x
  <2> QED
    BY <1>2, <1>3, <2>1, <2>2, <2>3
<1>4. CASE e.pc = "requested"
  <2> DEFINE x == [Ev("supervisor.action_requested", e.attempt) EXCEPT !.data = e.dir.action]
  <2>1. x \in LogEvent
    BY <1>1, PlainTypes, EvPlain
  <2>2. EmitBatch(e) = <<x>>
    BY <1>4 DEF EmitBatch
  <2>3. /\ x.type = "supervisor.action_requested" /\ x.data = e.dir.action
        /\ x.attempt = e.attempt
    BY DEF Ev
  <2> HIDE DEF x
  <2> QED
    BY <1>2, <1>4, <2>1, <2>2, <2>3
<1> QED
  BY <1>3, <1>4 DEF Shown

LEMMA ShownKeeps ==
    ASSUME IInv, AttemptInv, NEW e \in emits, Shown(e), Settled
    PROVE  AttemptInv'
<1>1. /\ TasksTyped /\ e \in Emit /\ e.attempt =< Attempt(log) /\ Proceed
      /\ ~Completed(e.attempt) /\ ~Evaluated(e.attempt)
  BY Typed, SettledProceed DEF IInv, CallsTyped, AttemptInv, EmitsPast, EmitOpen
<1>2. PICK x \in LogEvent :
         /\ log' = log \o <<x>> /\ x.attempt = e.attempt
         /\ \/ /\ e.pc = "event" /\ x.type = "agent.event" /\ x.data = e.kind
            \/ /\ e.pc = "requested" /\ x.type = "supervisor.action_requested"
               /\ x.data = e.dir.action
  BY ShownEvent
<1>3. ASSUME x.type = "supervisor.action_requested" /\ x.data \in Signals
      PROVE  /\ \A f \in emits' : f.attempt # x.attempt
             /\ \A t \in Tasks : task'[t].pc \in {"execute", "completed", "evaluate"}
                                 => AttemptOf(t)' # x.attempt
  <2>1. EmitRaises(e, "control", e.dir.action)
    BY <1>2, <1>3 DEF Shown, EmitAppends, EventStored, DirectiveStored
  <2>2. \A f \in emits' : f.attempt # x.attempt
    BY <1>2, <2>1 DEF EmitRaises, AttemptInv, OneEmit
  <2>3. ASSUME NEW t \in Tasks, task'[t].pc \in {"execute", "completed", "evaluate"},
               AttemptOf(t)' = e.attempt
        PROVE  FALSE
    <3>1. e.attempt = AttemptOf(t) /\ task[t].pc \in {"execute", "completed", "evaluate"}
      BY <1>1, <2>3, ProceedFrom
    <3>2. e.owner = t /\ task[t].pc = "execute"
      BY <3>1 DEF AttemptInv, EmitOwned, In, Within, Grading
    <3>3. e.dir.action \in Words /\ "control" \in Pcs
      BY <1>1 DEF Emit, Directive, Words, Pcs, Appending
    <3>4. GotoWith(t, "control", e.dir.action)
      BY <2>1, <3>1, <3>2 DEF EmitRaises, Attended
    <3>5. task'[t].pc = "control"
      BY <1>1, <3>3, <3>4, GotoStep
    <3> QED
      BY <2>3, <3>5
  <2> QED
    BY <1>2, <2>2, <2>3
<1>4. x.type \notin {"run.started", "agent.execution.completed", "evaluation.started"}
  BY <1>2
<1>5. x.attempt =< Attempt(log) /\ ~Completed(x.attempt) /\ ~Evaluated(x.attempt)
  BY <1>1, <1>2
<1> QED
  BY <1>1, <1>2, <1>3, <1>4, <1>5, EventKeeps

LEMMA AppendsKeep ==
    ASSUME IInv, AttemptInv, NEW t \in Tasks, Appends(t)
    PROVE  AttemptInv'
<1>1. CASE task[t].pc = "start"
  BY <1>1, StartKeeps
<1>2. CASE task[t].pc \in {"evaluated", "verdict"}
  BY <1>2, UnnumberedLogs, MovesProceed, UnnumberedKeeps
<1>3. CASE task[t].pc \in {"completed", "evaluate"}
  <2>1. PICK x \in LogEvent :
           /\ log' = log \o <<x>> /\ x.attempt = AttemptOf(t)
           /\ x.type \in {"agent.execution.completed", "evaluation.started"}
    BY <1>3, TaskEvent
  <2>2. In(t) /\ task[t].pc \in Grading /\ Proceed
    BY <1>3, MovesProceed DEF In, Within, Grading
  <2>3. x.attempt = Attempt(log) /\ Attempt(log) \in Nat
    BY <2>1, <2>2, SnapshotTyped DEF AttemptInv, InLast, IInv
  <2>4. \A e \in emits : e.attempt # x.attempt
    BY <2>1, <2>2 DEF AttemptInv, EmitOwned
  <2>5. \A u \in Tasks : task'[u].pc # "execute"
    BY <1>3, TaskMoves DEF After
  <2>6. ~Signalled(x.attempt)
    BY <1>3, <2>1 DEF AttemptInv, TaskOpen
  <2>7. x.attempt =< Attempt(log)
    BY <2>3
  <2> QED
    BY <2>1, <2>2, <2>4, <2>5, <2>6, <2>7, EventKeeps
<1> QED
  BY <1>1, <1>2, <1>3 DEF Appends

LEMMA AttemptKeeps ==
    ASSUME IInv, AttemptInv, [Next]_vars
    PROVE  AttemptInv'
<1>1. CASE Calm
  BY <1>1, UnnumberedLogs, SettledProceed, UnnumberedKeeps DEF Calm
<1>2. ASSUME NEW r \in Requests, Reopens(r), Settled PROVE AttemptInv'
  BY <1>2, UnnumberedLogs, SettledProceed, UnnumberedKeeps
<1>3. ASSUME NEW t \in Tasks, Loads(t) \/ Gather(t) PROVE AttemptInv'
  <2>1. UNCHANGED log
    BY <1>3, LoadsMoves, GatherMoves
  <2> QED
    BY <1>3, <2>1, UnnumberedLogs, MovesProceed, UnnumberedKeeps
<1> QED
  BY <1>1, <1>2, <1>3, StepShape, AppendsKeep, ShownKeeps, HarnessEmitsKeeps, ReturnsKeeps

LEMMA InitAttempt ==
    ASSUME Init
    PROVE  AttemptInv
<1>1. log = <<>> /\ DOMAIN log = {} /\ emits = {} /\ \A t \in Tasks : task[t].pc = "done"
  BY NoTaskTyped DEF Init
<1>2. InLast /\ EmitOwned /\ TaskOpen
  BY <1>1 DEF InLast, EmitOwned, TaskOpen, In, Within, Grading
<1>3. EventsPast /\ EmitsPast /\ OneEmit /\ EmitOpen
  BY <1>1 DEF EventsPast, EmitsPast, OneEmit, EmitOpen
<1>4. SignalWins
  BY <1>1 DEF SignalWins, Signalled, OfAttempt
<1> QED
  BY <1>2, <1>3, <1>4 DEF AttemptInv

THEOREM AttemptInvariance == Spec => []AttemptInv
<1>1. Init => AttemptInv
  BY InitAttempt
<1>2. IInv /\ AttemptInv /\ [Next]_vars => AttemptInv'
  BY AttemptKeeps
<1> QED
  BY <1>1, <1>2, EngineInvariance, PTL DEF Spec

(* A pause, an abort or a request for a human that is on record ends its   *)
(* attempt: the emit closure raises it, and nothing of the attempt is      *)
(* completed or graded afterwards, whatever detached emits do.             *)
THEOREM SignalsEndAttempts == Spec => []SignalsTakeEffect
<1>1. IInv /\ AttemptInv => SignalsTakeEffect
  <2> SUFFICES ASSUME IInv, AttemptInv,
                      NEW i \in Positions("supervisor.action_requested"),
                      log[i].data \in Signals
               PROVE  /\ OfAttempt(log[i].attempt, "agent.execution.completed") = {}
                      /\ OfAttempt(log[i].attempt, "evaluation.started") = {}
    BY DEF SignalsTakeEffect
  <2>1. i \in DOMAIN log /\ log[i].type = "supervisor.action_requested"
    BY DEF Positions
  <2>2. log[i].attempt \in Nat
    BY <2>1, LogIsStream, ElementOfSeq, RecordSets DEF IInv
  <2>3. Signalled(log[i].attempt)
    BY <2>1 DEF Signalled, OfAttempt
  <2> QED
    BY <2>2, <2>3 DEF AttemptInv, SignalWins, Completed, Evaluated
<1> QED
  BY <1>1, EngineInvariance, AttemptInvariance, PTL

-----------------------------------------------------------------------------
(* StepInv is inductive relative to IInv and AttemptInv.                   *)

LEMMA StepsCounted ==
    ASSUME TypeOK
    PROVE  /\ \A a : IsFiniteSet(StepsOf(a)) /\ Cardinality(StepsOf(a)) \in Nat
           /\ MaxSteps \in Nat \ {0}
<1>1. DOMAIN log = 1 .. Len(log) /\ Len(log) \in Nat
  BY LogIsStream, LenProperties
<1>2. IsFiniteSet(1 .. Len(log))
  BY <1>1, FS_Interval
<1>3. \A a : StepsOf(a) \subseteq 1 .. Len(log)
  BY <1>1 DEF StepsOf, OfAttempt
<1> QED
  BY <1>2, <1>3, FS_Subset, FS_CardinalityType, ParameterAssumption

\* A step that stores no step event.
LEMMA StepsSame ==
    ASSUME StepInv, \A a \in Nat : StepsOf(a)' = StepsOf(a),
           \A a \in Nat : Completed(a)' => Completed(a) \/ Afford(a),
           \A t \in Tasks : \A a \in {AttemptOf(t)'} :
              task'[t].pc \in {"execute", "completed"} => a \in Nat /\ Afford(a),
           \A f \in emits' : f.pc = "event" => f.attempt \in Nat /\ Afford(f.attempt)
    PROVE  StepInv'
<1>1. \A a \in Nat : Afford(a)' <=> Afford(a)
  BY DEF Afford
<1>2. StepsEnd'
  BY <1>1 DEF StepInv, StepsEnd
<1>3. TaskSteps'
  <2> SUFFICES ASSUME NEW t \in Tasks, NEW a, a = AttemptOf(t)',
                      task'[t].pc \in {"execute", "completed"}
               PROVE  Afford(a)'
    BY DEF TaskSteps
  <2> QED
    BY <1>1
<1>4. EmitSteps'
  BY <1>1 DEF EmitSteps
<1> QED
  BY <1>2, <1>3, <1>4 DEF StepInv

\* What a task or an emit may spend is inherited.
LEMMA ProceedSteps ==
    ASSUME IInv, StepInv, Proceed
    PROVE  /\ \A t \in Tasks : \A a \in {AttemptOf(t)'} :
                 task'[t].pc \in {"execute", "completed"} =>
                    /\ a \in Nat /\ a = AttemptOf(t) /\ Afford(a)
                    /\ task[t].pc \in {"execute", "completed"}
           /\ \A f \in emits' : f.pc = "event" => f.attempt \in Nat /\ Afford(f.attempt)
<1>1. TasksTyped /\ emits \subseteq Emit
  BY Typed DEF IInv, CallsTyped
<1>2. ASSUME NEW t \in Tasks, NEW a, a = AttemptOf(t)',
             task'[t].pc \in {"execute", "completed"}
      PROVE  /\ a \in Nat /\ a = AttemptOf(t) /\ Afford(a)
             /\ task[t].pc \in {"execute", "completed"}
  <2>1. In(t)'
    BY <1>2 DEF In, Within, Grading
  <2>2. a = AttemptOf(t) /\ task[t].pc \in {"execute", "completed"}
    BY <1>2, <2>1 DEF Proceed, Proceeds
  <2> QED
    BY <1>1, <2>2, AttemptTyped DEF StepInv, TaskSteps
<1>3. \A f \in emits' : \E e \in emits :
         f.attempt = e.attempt /\ (f.pc = "event" => e.pc = "event")
  BY EmitsFrom DEF Proceed
<1>4. \A f \in emits' : f.pc = "event" => f.attempt \in Nat /\ Afford(f.attempt)
  BY <1>1, <1>3 DEF StepInv, EmitSteps, Emit
<1> QED
  BY <1>2, <1>4

LEMMA UnnumberedSteps ==
    ASSUME IInv, StepInv, Proceed, Unnumbered
    PROVE  StepInv'
<1>1. TypeOK
  BY DEF IInv
<1> QED
  BY <1>1, UnnumberedReads, ProceedSteps, StepsSame

LEMMA AppendsSteps ==
    ASSUME IInv, AttemptInv, StepInv, NEW t \in Tasks, Appends(t)
    PROVE  StepInv'
<1>1. TypeOK /\ TasksTyped /\ emits \subseteq Emit /\ log \in Seq(LogEvent)
  BY Typed, LogIsStream DEF IInv, CallsTyped
<1>2. CASE task[t].pc \in {"evaluated", "verdict"}
  BY <1>2, UnnumberedLogs, MovesProceed, UnnumberedSteps
<1>3. CASE task[t].pc = "start"
  <2>1. PICK x \in LogEvent : /\ log' = log \o <<x>> /\ x.type = "run.started"
                              /\ x.attempt = AttemptOf(t) /\ AttemptOf(t) = Attempt(log) + 1
    BY <1>3, TaskEvent
  <2>2. /\ \A a \in Nat : StepsOf(a)' = StepsOf(a)
        /\ \A a \in Nat : Completed(a)' <=> Completed(a)
        /\ x.attempt \in Nat
    BY <1>1, <2>1, EventReads DEF Is, IsStep
  <2>3. UNCHANGED emits /\ AttemptOf(t)' = x.attempt /\ \A u \in Tasks : u # t => task'[u].pc = "done"
    BY <1>1, <1>3, <2>1, TaskMoves DEF AttemptOf
  <2>4. StepsOf(x.attempt) = {}
    <3>1. \A i \in DOMAIN log : log[i].attempt \in Nat
      BY <1>1, ElementOfSeq, RecordSets
    <3>2. Attempt(log) \in Nat
      BY <1>1, SnapshotTyped
    <3>3. \A i \in DOMAIN log : log[i].type = "agent.event" => log[i].attempt # x.attempt
      BY <2>1, <3>1, <3>2 DEF AttemptInv, EventsPast, Numbered
    <3> QED
      BY <3>3 DEF StepsOf, OfAttempt
  <2>5. Afford(x.attempt)
    BY <1>1, <2>4, FS_EmptySet, StepsCounted DEF Afford
  <2>6. \A f \in emits' : f.pc = "event" => f.attempt \in Nat /\ Afford(f.attempt)
    BY <1>1, <2>3 DEF StepInv, EmitSteps, Emit
  <2>7. \A u \in Tasks : \A a \in {AttemptOf(u)'} :
           task'[u].pc \in {"execute", "completed"} => a \in Nat /\ Afford(a)
    <3> SUFFICES ASSUME NEW u \in Tasks, NEW a, a = AttemptOf(u)',
                        task'[u].pc \in {"execute", "completed"}
                 PROVE  a \in Nat /\ Afford(a)
      OBVIOUS
    <3>1. u = t
      BY <2>3
    <3> QED
      BY <2>2, <2>3, <2>5, <3>1
  <2> QED
    BY <2>2, <2>6, <2>7, StepsSame
<1>4. CASE task[t].pc \in {"completed", "evaluate"}
  <2>1. PICK x \in LogEvent :
           /\ log' = log \o <<x>> /\ x.attempt = AttemptOf(t)
           /\ x.type \in {"agent.execution.completed", "evaluation.started"}
           /\ x.type = "agent.execution.completed" => task[t].pc = "completed"
    BY <1>4, TaskEvent
  <2>2. /\ \A a \in Nat : StepsOf(a)' = StepsOf(a)
        /\ \A a \in Nat : Completed(a)' <=>
              (Completed(a) \/ Is(x, "agent.execution.completed", a))
    BY <1>1, <2>1, EventReads DEF IsStep, Is
  <2>3. \A a \in Nat : Completed(a)' => Completed(a) \/ Afford(a)
    BY <2>1, <2>2 DEF Is, StepInv, TaskSteps
  <2>4. Proceed
    BY <1>4, MovesProceed
  <2> QED
    BY <2>2, <2>3, <2>4, ProceedSteps, StepsSame
<1> QED
  BY <1>2, <1>3, <1>4 DEF Appends

LEMMA HarnessEmitsSteps ==
    ASSUME IInv, StepInv, NEW t \in Tasks, HarnessEmits(t)
    PROVE  StepInv'
<1>1. /\ TasksTyped /\ UNCHANGED <<log, task>> /\ task[t].pc = "execute"
      /\ emits \subseteq Emit
  BY Typed DEF IInv, CallsTyped, HarnessEmits
<1>2. \A e \in emits' : e \in emits \/ e.attempt = AttemptOf(t)
  BY DEF HarnessEmits
<1>3. AttemptOf(t) \in Nat /\ Afford(AttemptOf(t))
  BY <1>1, AttemptTyped DEF StepInv, TaskSteps
<1>4. \A f \in emits' : f.pc = "event" => f.attempt \in Nat /\ Afford(f.attempt)
  BY <1>1, <1>2, <1>3 DEF StepInv, EmitSteps, Emit
<1>5. /\ \A a \in Nat : StepsOf(a)' = StepsOf(a)
      /\ \A a \in Nat : Completed(a)' <=> Completed(a)
  BY <1>1 DEF StepsOf, Completed, OfAttempt
<1>6. \A u \in Tasks : \A a \in {AttemptOf(u)'} :
         task'[u].pc \in {"execute", "completed"} => a \in Nat /\ Afford(a)
  <2>1. ASSUME NEW u \in Tasks, task[u].pc \in {"execute", "completed"}
        PROVE  AttemptOf(u) \in Nat /\ Afford(AttemptOf(u))
    BY <1>1, <2>1, AttemptTyped DEF StepInv, TaskSteps
  <2>2. \A u \in Tasks : AttemptOf(u)' = AttemptOf(u) /\ task'[u] = task[u]
    BY <1>1 DEF AttemptOf
  <2> QED
    BY <2>1, <2>2
<1> QED
  BY <1>4, <1>5, <1>6, StepsSame

LEMMA ReturnsSteps ==
    ASSUME IInv, StepInv, NEW t \in Tasks, HarnessReturns(t)
    PROVE  StepInv'
<1>1. /\ TasksTyped /\ emits \subseteq Emit /\ UNCHANGED <<log, emits>>
      /\ task[t].pc = "execute" /\ AttemptOf(t)' = AttemptOf(t)
      /\ \A u \in Tasks : u # t => task'[u].pc = "done"
  BY Typed, ReturnsMoves DEF IInv, CallsTyped, AttemptOf
<1>2. AttemptOf(t) \in Nat /\ Afford(AttemptOf(t))
  BY <1>1, AttemptTyped DEF StepInv, TaskSteps
<1>3. \A u \in Tasks : \A a \in {AttemptOf(u)'} :
         task'[u].pc \in {"execute", "completed"} => a \in Nat /\ Afford(a)
  <2> SUFFICES ASSUME NEW u \in Tasks, NEW a, a = AttemptOf(u)',
                      task'[u].pc \in {"execute", "completed"}
               PROVE  a \in Nat /\ Afford(a)
    OBVIOUS
  <2>1. u = t
    BY <1>1
  <2> QED
    BY <1>1, <1>2, <2>1
<1>4. \A f \in emits' : f.pc = "event" => f.attempt \in Nat /\ Afford(f.attempt)
  BY <1>1 DEF StepInv, EmitSteps, Emit
<1>5. /\ \A a \in Nat : StepsOf(a)' = StepsOf(a)
      /\ \A a \in Nat : Completed(a)' <=> Completed(a)
  BY <1>1 DEF StepsOf, Completed, OfAttempt
<1> QED
  BY <1>3, <1>4, <1>5, StepsSame

\* The first step over the budget leaves nobody to add another.
LEMMA ShownSteps ==
    ASSUME IInv, AttemptInv, StepInv, NEW e \in emits, Shown(e), Settled
    PROVE  StepInv'
<1>1. /\ TypeOK /\ TasksTyped /\ e \in Emit /\ e.attempt \in Nat /\ Proceed
      /\ ~Completed(e.attempt)
  BY Typed, SettledProceed DEF IInv, CallsTyped, AttemptInv, EmitOpen, Emit
<1>2. PICK x \in LogEvent :
         /\ log' = log \o <<x>> /\ x.attempt = e.attempt
         /\ \/ /\ e.pc = "event" /\ x.type = "agent.event" /\ x.data = e.kind
            \/ /\ e.pc = "requested" /\ x.type = "supervisor.action_requested"
               /\ x.data = e.dir.action
  BY ShownEvent
<1> DEFINE n == Len(log')
<1>3. /\ \A a \in Nat : Completed(a)' <=> Completed(a)
      /\ \A a \in Nat : StepsOf(a)' = IF IsStep(x, a) THEN StepsOf(a) \cup {n} ELSE StepsOf(a)
  BY <1>1, <1>2, EventReads DEF Is
<1>4. CASE ~IsStep(x, e.attempt)
  <2>1. \A a \in Nat : StepsOf(a)' = StepsOf(a)
    BY <1>2, <1>3, <1>4 DEF IsStep, Is
  <2> QED
    BY <1>1, <1>3, <2>1, ProceedSteps, StepsSame
<1>5. CASE IsStep(x, e.attempt)
  <2>1. e.pc = "event" /\ e.kind = "step" /\ Afford(e.attempt)
    BY <1>2, <1>5 DEF IsStep, Is, StepInv, EmitSteps
  <2>2. /\ StepsOf(e.attempt)' = StepsOf(e.attempt) \cup {n}
        /\ \A a \in Nat : a # e.attempt => StepsOf(a)' = StepsOf(a)
    BY <1>1, <1>2, <1>3, <1>5 DEF IsStep, Is
  <2>3. /\ Cardinality(StepsOf(e.attempt)) \in Nat /\ MaxSteps \in Nat
        /\ IsFiniteSet(StepsOf(e.attempt))
    BY <1>1, StepsCounted
  <2>4. Cardinality(StepsOf(e.attempt))' = Cardinality(StepsOf(e.attempt)) + 1
    <3>1. n \notin StepsOf(e.attempt)
      BY <1>1, <1>2, OneMore DEF StepsOf, OfAttempt
    <3> HIDE DEF n
    <3> QED
      BY <2>2, <2>3, <3>1, FS_AddElement
  <2>5. \A a \in Nat : a # e.attempt => (Afford(a)' <=> Afford(a))
    BY <2>2 DEF Afford
  <2>6. StepsEnd'
    <3> SUFFICES ASSUME NEW a \in Nat
                 PROVE  /\ Cardinality(StepsOf(a))' =< MaxSteps + 1
                        /\ Completed(a)' => Afford(a)'
      BY DEF StepsEnd
    <3>1. CASE a = e.attempt
      <4>1. Cardinality(StepsOf(e.attempt))' =< MaxSteps + 1
        BY <2>1, <2>3, <2>4 DEF Afford
      <4> QED
        BY <1>1, <1>3, <3>1, <4>1
    <3>2. CASE a # e.attempt
      BY <1>3, <2>2, <2>5, <3>2 DEF StepInv, StepsEnd
    <3> QED
      BY <3>1, <3>2
  <2>7. CASE Cardinality(StepsOf(e.attempt)) + 1 > MaxSteps
    <3>1. EmitRaises(e, "budget", "steps")
      BY <2>1, <2>7 DEF Shown, EmitAppends, EventStored, DirectiveStored
    <3>2. \A f \in emits' : f.attempt # e.attempt
      BY <3>1 DEF EmitRaises, AttemptInv, OneEmit
    <3>3. EmitSteps'
      <4> SUFFICES ASSUME NEW f \in emits', f.pc = "event" PROVE Afford(f.attempt)'
        BY DEF EmitSteps
      <4>1. f.attempt \in Nat /\ Afford(f.attempt) /\ f.attempt # e.attempt
        BY <1>1, <3>2, ProceedSteps
      <4> QED
        BY <2>5, <4>1
    <3>4. TaskSteps'
      <4> SUFFICES ASSUME NEW t \in Tasks, NEW a, a = AttemptOf(t)',
                          task'[t].pc \in {"execute", "completed"}
                   PROVE  Afford(a)'
        BY DEF TaskSteps
      <4>1. /\ a \in Nat /\ a = AttemptOf(t) /\ Afford(a)
            /\ task[t].pc \in {"execute", "completed"}
        BY <1>1, ProceedSteps
      <4>2. ASSUME a = e.attempt PROVE FALSE
        <5>0. e.attempt = AttemptOf(t) /\ task[t].pc \in {"execute", "completed"}
          BY <4>1, <4>2
        <5>1. e.owner = t /\ task[t].pc = "execute"
          BY <5>0 DEF AttemptInv, EmitOwned, In, Within, Grading
        <5>2. GotoWith(t, "budget", "steps") /\ "steps" \in Words /\ "budget" \in Pcs
          BY <3>1, <5>0, <5>1 DEF EmitRaises, Attended, Words, Pcs, Appending
        <5>3. task'[t].pc = "budget"
          BY <1>1, <5>2, GotoStep
        <5> QED
          BY <5>3
      <4> QED
        BY <2>5, <4>1, <4>2
    <3> QED
      BY <2>6, <3>3, <3>4 DEF StepInv
  <2>8. CASE Cardinality(StepsOf(e.attempt)) + 1 =< MaxSteps
    <3>1. Afford(e.attempt)'
      BY <2>4, <2>8 DEF Afford
    <3>2. EmitSteps'
      <4> SUFFICES ASSUME NEW f \in emits', f.pc = "event" PROVE Afford(f.attempt)'
        BY DEF EmitSteps
      <4>1. f.attempt \in Nat /\ Afford(f.attempt)
        BY <1>1, ProceedSteps
      <4> QED
        BY <2>5, <3>1, <4>1
    <3>3. TaskSteps'
      <4> SUFFICES ASSUME NEW t \in Tasks, NEW a, a = AttemptOf(t)',
                          task'[t].pc \in {"execute", "completed"}
                   PROVE  Afford(a)'
        BY DEF TaskSteps
      <4>1. a \in Nat /\ Afford(a)
        BY <1>1, ProceedSteps
      <4> QED
        BY <2>5, <3>1, <4>1
    <3> QED
      BY <2>6, <3>2, <3>3 DEF StepInv
  <2> QED
    BY <2>3, <2>7, <2>8
<1> QED
  BY <1>4, <1>5

LEMMA StepKeeps ==
    ASSUME IInv, AttemptInv, StepInv, [Next]_vars
    PROVE  StepInv'
<1>1. CASE Calm
  BY <1>1, UnnumberedLogs, SettledProceed, UnnumberedSteps DEF Calm
<1>2. ASSUME NEW r \in Requests, Reopens(r), Settled PROVE StepInv'
  BY <1>2, UnnumberedLogs, SettledProceed, UnnumberedSteps
<1>3. ASSUME NEW t \in Tasks, Loads(t) \/ Gather(t) PROVE StepInv'
  <2>1. UNCHANGED log
    BY <1>3, LoadsMoves, GatherMoves
  <2> QED
    BY <1>3, <2>1, UnnumberedLogs, MovesProceed, UnnumberedSteps
<1> QED
  BY <1>1, <1>2, <1>3, StepShape, AppendsSteps, ShownSteps, HarnessEmitsSteps, ReturnsSteps

LEMMA InitSteps ==
    ASSUME Init
    PROVE  StepInv
<1>1. DOMAIN log = {} /\ emits = {} /\ \A t \in Tasks : task[t].pc = "done"
  BY NoTaskTyped DEF Init
<1>2. \A a : StepsOf(a) = {} /\ ~Completed(a)
  BY <1>1 DEF StepsOf, Completed, OfAttempt
<1>3. StepsEnd
  <2>1. MaxSteps \in Nat /\ \A a \in Nat : Cardinality(StepsOf(a)) = 0
    BY <1>2, FS_EmptySet, ParameterAssumption
  <2> QED
    BY <1>2, <2>1 DEF StepsEnd, Afford
<1> QED
  BY <1>1, <1>3 DEF StepInv, TaskSteps, EmitSteps

THEOREM StepInvariance == Spec => []StepInv
<1>1. Init => StepInv
  BY InitSteps
<1>2. IInv /\ AttemptInv /\ StepInv /\ [Next]_vars => StepInv'
  BY StepKeeps
<1> QED
  BY <1>1, <1>2, EngineInvariance, AttemptInvariance, PTL DEF Spec

(* The step budget is a bound: an attempt records one step over it at      *)
(* most, with which the emit closure stops it, and an attempt that         *)
(* completed stayed within it, also when its emits outlive it.             *)
THEOREM StepsStayBounded == Spec => []StepsWithinBudget
<1>1. IInv /\ StepInv => StepsWithinBudget
  <2> SUFFICES ASSUME IInv, StepInv, NEW i \in Positions("run.started")
               PROVE  LET a == log[i].attempt IN
                      /\ Cardinality(StepsOf(a)) =< MaxSteps + 1
                      /\ OfAttempt(a, "agent.execution.completed") # {}
                            => Cardinality(StepsOf(a)) =< MaxSteps
    BY DEF StepsWithinBudget
  <2>1. i \in DOMAIN log
    BY DEF Positions
  <2>2. log[i].attempt \in Nat
    BY <2>1, LogIsStream, ElementOfSeq, RecordSets DEF IInv
  <2> QED
    BY <2>2 DEF StepInv, StepsEnd, Afford, Completed
<1> QED
  BY <1>1, EngineInvariance, StepInvariance, PTL

-----------------------------------------------------------------------------
(* UsageInv is inductive relative to IInv.                                 *)

Untold ==
    \E b \in Seq(LogEvent) :
        /\ log' = log \o b
        /\ \A i \in DOMAIN b :
              b[i].type \notin {"agent.execution.completed", "evaluation.started"}

LEMMA UntoldLogs ==
    ASSUME TypeOK
    PROVE  /\ Unnumbered => Untold
           /\ \A x \in LogEvent :
                 /\ log' = log \o <<x>>
                 /\ x.type \notin {"agent.execution.completed", "evaluation.started"}
                 => Untold
<1>1. Unnumbered => Untold
  BY DEF Unnumbered, Untold, Numbered
<1>2. ASSUME NEW x \in LogEvent, log' = log \o <<x>>,
             x.type \notin {"agent.execution.completed", "evaluation.started"}
      PROVE  Untold
  <2> DEFINE b == <<x>>
  <2>1. b \in Seq(LogEvent) /\ log' = log \o b /\ \A i \in DOMAIN b : b[i] = x
    BY <1>2
  <2> HIDE DEF b
  <2> QED
    BY <1>2, <2>1 DEF Untold
<1> QED
  BY <1>1, <1>2

LEMMA PrefixKept ==
    ASSUME TypeOK, NEW b \in Seq(LogEvent), log' = log \o b
    PROVE  \A i \in DOMAIN log : SubSeq(log', 1, i) = SubSeq(log, 1, i)
<1>1. log \in Seq(LogEvent) /\ DOMAIN log = 1 .. Len(log) /\ Len(log) \in Nat
  BY LogIsStream, LenProperties
<1> SUFFICES ASSUME NEW i \in DOMAIN log PROVE SubSeq(log \o b, 1, i) = SubSeq(log, 1, i)
  OBVIOUS
<1>2. 1 \in 1 .. Len(log) /\ i \in 1 .. Len(log)
  BY <1>1
<1> QED
  BY <1>1, <1>2, SubSeqOfConcat1

LEMMA UntoldKeeps ==
    ASSUME TypeOK, UsageInv, Untold,
           \A t \in Tasks : task'[t].pc \in {"start", "execute", "completed"}
              => task'[t].snap.used = UsedOf(log),
           \A t \in Tasks : task'[t].pc = "evaluate" => Affordable(log)
    PROVE  UsageInv'
<1>1. PICK b \in Seq(LogEvent) :
         /\ log' = log \o b
         /\ \A i \in DOMAIN b :
               b[i].type \notin {"agent.execution.completed", "evaluation.started"}
  BY DEF Untold
<1>2. log \in Seq(LogEvent)
  BY LogIsStream
<1>3. UsedOf(log') = UsedOf(log)
  BY <1>1, <1>2, UsedOfKept DEF LogEvent
<1>9. Affordable(log') <=> Affordable(log)
  BY <1>3 DEF Affordable, UsedOf
<1>4. /\ \A i \in DOMAIN log : log'[i] = log[i]
      /\ \A i \in DOMAIN log' \ DOMAIN log :
            i - Len(log) \in DOMAIN b /\ log'[i] = b[i - Len(log)]
  BY <1>1, LogGrows
<1>5. Positions("evaluation.started")' \subseteq Positions("evaluation.started")
  BY <1>1, <1>4 DEF Positions
<1>6. \A i \in DOMAIN log : SubSeq(log', 1, i) = SubSeq(log, 1, i)
  BY <1>1, PrefixKept
<1>7. GradingWithinBudget'
  BY <1>5, <1>6 DEF UsageInv, GradingWithinBudget, Positions
<1>8. SnapUsage' /\ GradeUsage'
  BY <1>3, <1>9 DEF SnapUsage, GradeUsage
<1> QED
  BY <1>7, <1>8 DEF UsageInv

\* A settled step tells no task anything of what was used.
LEMMA SettledUsage ==
    ASSUME UsageInv, Settled
    PROVE  /\ \A t \in Tasks : task'[t].pc \in {"start", "execute", "completed"}
                 => task'[t].snap.used = UsedOf(log)
           /\ \A t \in Tasks : task'[t].pc = "evaluate" => Affordable(log)
<1>1. ASSUME NEW t \in Tasks, task'[t].pc \in {"start", "execute", "completed", "evaluate"}
      PROVE  Same(t)
  BY <1>1 DEF Settled, Keeps, Stops
<1> QED
  BY <1>1 DEF Same, UsageInv, SnapUsage, GradeUsage

LEMMA AppendsUsage ==
    ASSUME IInv, UsageInv, NEW t \in Tasks, Appends(t)
    PROVE  UsageInv'
<1>1. TypeOK /\ TasksTyped /\ log \in Seq(LogEvent)
  BY Typed, LogIsStream DEF IInv
<1>2. /\ \A u \in Tasks : u # t => task'[u].pc = "done"
      /\ task'[t].pc = After(t)
      /\ task[t].pc # "verdict" => task'[t].snap = task[t].snap
  BY TaskMoves
<1>3. CASE task[t].pc = "start"
  <2>1. PICK x \in LogEvent : log' = log \o <<x>> /\ x.type = "run.started"
    BY <1>3, TaskEvent
  <2>2. Untold
    BY <1>1, <2>1, UntoldLogs
  <2>3. task'[t].pc = "execute" /\ task'[t].snap.used = UsedOf(log)
    BY <1>2, <1>3 DEF After, UsageInv, SnapUsage
  <2> QED
    BY <1>1, <1>2, <2>2, <2>3, UntoldKeeps
<1>4. CASE task[t].pc = "completed"
  <2>1. PICK x \in LogEvent : /\ log' = log \o <<x>> /\ x.type = "agent.execution.completed"
                              /\ x.usage = task[t].usage
    BY <1>4, TaskEvent
  <2>2. UsedOf(log') = [u \in Resources |-> UsedOf(log)[u] + x.usage[u]]
    BY <1>1, <2>1, EventReads
  <2>3. task'[t].pc = IF OverBudget(t) THEN "budget" ELSE "evaluate"
    BY <1>2, <1>4 DEF After
  <2>4. OverBudget(t) <=> \E u \in Resources : Used(log', u) > Limit[u]
    <3>1. task[t].snap.used = UsedOf(log)
      BY <1>4 DEF UsageInv, SnapUsage
    <3>2. \A u \in Resources : Used(log', u) = task[t].snap.used[u] + task[t].usage[u]
      BY <2>1, <2>2, <3>1 DEF UsedOf
    <3> QED
      BY <3>2 DEF OverBudget
  <2>5. \A u \in Resources : Used(log', u) \in Nat /\ Limit[u] \in Nat
    <3>1. log' \in Seq(LogEvent)
      BY <1>1, <2>1, OneMore
    <3>2. \A u \in Resources : Used(log', u) \in Nat
      BY <3>1, UnitsFinite DEF LogEvent
    <3> QED
      BY <3>2, ParameterAssumption DEF Limit
  <2>10. task'[t].pc = "evaluate" => Affordable(log')
    <3>1. task'[t].pc = "evaluate" => ~OverBudget(t)
      BY <2>3
    <3> QED
      BY <2>4, <2>5, <3>1 DEF Affordable
  <2>6. SnapUsage' /\ GradeUsage'
    BY <1>2, <2>3, <2>10 DEF SnapUsage, GradeUsage
  <2>7. \A i \in DOMAIN log : SubSeq(log', 1, i) = SubSeq(log, 1, i)
    BY <1>1, <2>1, PrefixKept
  <2>8. Positions("evaluation.started")' \subseteq Positions("evaluation.started")
    BY <1>1, <2>1, OneMore DEF Positions
  <2>9. GradingWithinBudget'
    BY <2>7, <2>8 DEF UsageInv, GradingWithinBudget, Positions
  <2> QED
    BY <2>6, <2>9 DEF UsageInv
<1>5. CASE task[t].pc = "evaluate"
  <2>1. PICK x \in LogEvent : log' = log \o <<x>> /\ x.type = "evaluation.started"
    BY <1>5, TaskEvent
  <2>2. UsedOf(log') = UsedOf(log) /\ Affordable(log')
    <3>1. UsedOf(log') = UsedOf(log) /\ Affordable(log)
      BY <1>1, <1>5, <2>1, EventReads DEF UsageInv, GradeUsage
    <3> QED
      BY <3>1 DEF Affordable, UsedOf
  <2>3. task'[t].pc = "gather"
    BY <1>2, <1>5 DEF After
  <2>4. SnapUsage' /\ GradeUsage'
    BY <1>2, <2>3 DEF SnapUsage, GradeUsage
  <2>5. \A i \in DOMAIN log : SubSeq(log', 1, i) = SubSeq(log, 1, i)
    BY <1>1, <2>1, PrefixKept
  <2>6. /\ log' \in Seq(LogEvent) /\ DOMAIN log' = DOMAIN log \cup {Len(log')}
        /\ \A i \in DOMAIN log : log'[i] = log[i]
    BY <1>1, <2>1, OneMore
  <2>7. SubSeq(log', 1, Len(log')) = log'
    BY <2>6, SubSeqFull
  <2>8. GradingWithinBudget'
    <3> SUFFICES ASSUME NEW i \in DOMAIN log', log'[i].type = "evaluation.started"
                 PROVE  Affordable(SubSeq(log', 1, i))
      BY DEF GradingWithinBudget, Positions, Affordable
    <3>1. CASE i \in DOMAIN log
      BY <2>5, <2>6, <3>1 DEF UsageInv, GradingWithinBudget, Positions, Affordable
    <3>2. CASE i = Len(log')
      BY <2>2, <2>7, <3>2
    <3> QED
      BY <2>6, <3>1, <3>2
  <2> QED
    BY <2>4, <2>8 DEF UsageInv
<1>6. CASE task[t].pc \in {"evaluated", "verdict"}
  <2>1. Untold
    BY <1>1, <1>6, UnnumberedLogs, UntoldLogs
  <2>2. task'[t].pc \in {"verdict", "load"}
    BY <1>2, <1>6 DEF After
  <2> QED
    BY <1>1, <1>2, <2>1, <2>2, UntoldKeeps
<1> QED
  BY <1>3, <1>4, <1>5, <1>6 DEF Appends

LEMMA UsagesKeep ==
    ASSUME IInv, UsageInv, [Next]_vars
    PROVE  UsageInv'
<1>1. TypeOK
  BY DEF IInv
<1>2. CASE Calm
  BY <1>1, <1>2, UnnumberedLogs, UntoldLogs, SettledUsage, UntoldKeeps DEF Calm
<1>3. ASSUME NEW r \in Requests, Reopens(r), Settled PROVE UsageInv'
  BY <1>1, <1>3, UnnumberedLogs, UntoldLogs, SettledUsage, UntoldKeeps
<1>4. ASSUME NEW e \in emits, Shown(e), Settled PROVE UsageInv'
  <2>1. PICK x \in LogEvent :
           log' = log \o <<x>> /\ x.type \in {"agent.event", "supervisor.action_requested"}
    BY <1>4, ShownEvent
  <2>2. Untold
    BY <1>1, <2>1, UntoldLogs
  <2> QED
    BY <1>1, <1>4, <2>2, SettledUsage, UntoldKeeps
<1>5. ASSUME NEW t \in Tasks, Loads(t) \/ Gather(t) \/ HarnessReturns(t) \/ HarnessEmits(t)
      PROVE UsageInv'
  <2>1. UNCHANGED log
    BY <1>5, LoadsMoves, GatherMoves, ReturnsMoves DEF HarnessEmits
  <2>2. Untold
    BY <1>1, <2>1, UnnumberedLogs, UntoldLogs
  <2>3. CASE Loads(t)
    <3>0. Snapshot.used = UsedOf(log)
      BY DEF Snapshot, UsedOf
    <3>1. task'[t].snap.used = UsedOf(log)
      BY <2>3, <3>0, LoadsMoves
    <3> QED
      BY <1>1, <2>2, <2>3, <3>1, LoadsMoves, UntoldKeeps
  <2>4. CASE Gather(t)
    BY <1>1, <2>2, <2>4, GatherMoves, UntoldKeeps
  <2>5. CASE HarnessReturns(t)
    <3>1. task'[t].snap.used = UsedOf(log)
      BY <2>5, ReturnsMoves DEF UsageInv, SnapUsage
    <3> QED
      BY <1>1, <2>2, <2>5, <3>1, ReturnsMoves, UntoldKeeps
  <2>6. CASE HarnessEmits(t)
    <3>1. UNCHANGED task
      BY <2>6 DEF HarnessEmits
    <3> QED
      BY <1>1, <2>2, <3>1, UntoldKeeps DEF UsageInv, SnapUsage, GradeUsage
  <2> QED
    BY <1>5, <2>3, <2>4, <2>5, <2>6
<1> QED
  BY <1>2, <1>3, <1>4, <1>5, StepShape, AppendsUsage

THEOREM UsageInvariance == Spec => []UsageInv
<1>1. Init => UsageInv
  <2> SUFFICES ASSUME Init PROVE UsageInv
    OBVIOUS
  <2>1. DOMAIN log = {} /\ \A t \in Tasks : task[t].pc = "done"
    BY NoTaskTyped DEF Init
  <2> QED
    BY <2>1 DEF UsageInv, SnapUsage, GradeUsage, GradingWithinBudget, Positions
<1>2. IInv /\ UsageInv /\ [Next]_vars => UsageInv'
  BY UsagesKeep
<1> QED
  BY <1>1, <1>2, EngineInvariance, PTL DEF Spec

(* The token and the cost budget of the run are checked against the usage  *)
(* of all its attempts before the graders are called, whoever else         *)
(* appended meanwhile.                                                     *)
THEOREM GradingStaysInBudget == Spec => []GradingWithinBudget
<1>1. UsageInv => GradingWithinBudget
  BY DEF UsageInv
<1> QED
  BY <1>1, UsageInvariance, PTL

-----------------------------------------------------------------------------
(* SuccessInv is inductive relative to IInv.                               *)

LEMMA EarnedStays ==
    ASSUME TypeOK, NEW b \in Seq(LogEvent), log' = log \o b
    PROVE  /\ \A i \in DOMAIN log : EarnedAt(i) => EarnedAt(i)'
           /\ (\A i \in DOMAIN b : b[i].type \notin Turns) =>
                 \A a \in Nat : Passed(a) => Passed(a)'
<1>1. /\ DOMAIN log = 1 .. Len(log) /\ Len(log) \in Nat /\ DOMAIN log' = 1 .. Len(log')
      /\ \A i \in DOMAIN log : i \in DOMAIN log' /\ log'[i] = log[i]
      /\ \A i \in DOMAIN log' \ DOMAIN log :
            i - Len(log) \in DOMAIN b /\ log'[i] = b[i - Len(log)]
      /\ log' \in Seq(LogEvent)
  BY LogGrows
<1>2. Len(log') \in Nat
  BY <1>1, LenProperties
<1>3. ASSUME NEW i \in DOMAIN log, EarnedAt(i) PROVE EarnedAt(i)'
  <2>1. log'[i] = log[i] /\ i \in Nat
    BY <1>1
  <2>2. CASE log[i].data = "human"
    <3>1. i > 1 /\ log[i - 1] = Resolved(log[i].attempt, "approve")
      BY <1>3, <2>2 DEF EarnedAt
    <3>2. log'[i - 1] = log[i - 1]
      BY <1>1, <3>1
    <3> QED
      BY <2>1, <2>2, <3>1, <3>2 DEF EarnedAt, Resolved, Ev
  <2>3. CASE log[i].data # "human"
    <3>0. PICK a \in Nat : a = log[i].attempt
      BY LogIsStream, ElementOfSeq, RecordSets
    <3>1. PICK j \in OfAttempt(a, "evaluation.completed") :
             /\ j < i /\ log[j].data = "passed"
             /\ \A type \in Turns : \A k \in Positions(type) : ~(j < k /\ k < i)
      BY <1>3, <2>3, <3>0 DEF EarnedAt
    <3>2. j \in OfAttempt(a, "evaluation.completed")' /\ log'[j].data = "passed"
      BY <1>1, <3>1 DEF OfAttempt
    <3>3. ASSUME NEW type \in Turns, NEW k \in Positions(type)', k < i
          PROVE  k \in Positions(type)
      BY <1>1, <1>2, <3>3 DEF Positions
    <3>4. \A type \in Turns : \A k \in Positions(type)' : ~(j < k /\ k < i)
      BY <3>1, <3>3
    <3> QED
      BY <2>1, <2>3, <3>0, <3>1, <3>2, <3>4 DEF EarnedAt
  <2> QED
    BY <2>2, <2>3
<1>4. ASSUME \A i \in DOMAIN b : b[i].type \notin Turns, NEW a \in Nat, Passed(a)
      PROVE  Passed(a)'
  <2>1. \A type \in Turns : Positions(type)' = Positions(type)
    BY <1>1, <1>4 DEF Positions
  <2>2. \A j \in OfAttempt(a, "evaluation.completed") :
           j \in OfAttempt(a, "evaluation.completed")' /\ log'[j] = log[j]
    BY <1>1 DEF OfAttempt
  <2> QED
    BY <1>4, <2>1, <2>2 DEF Passed
<1> QED
  BY <1>3, <1>4

\* A success is earned where it is appended.
LEMMA SuccessFrame ==
    ASSUME TypeOK, SuccessInv, VerdictEarned', NEW b \in Seq(LogEvent), log' = log \o b,
           \A i \in Positions("run.succeeded")' : i \in DOMAIN log \/ EarnedAt(i)'
    PROVE  SuccessInv'
<1>1. \A i \in DOMAIN log : log'[i] = log[i]
  BY LogGrows
<1>2. \A i \in DOMAIN log : EarnedAt(i) => EarnedAt(i)'
  BY EarnedStays
<1>3. ASSUME NEW i \in Positions("run.succeeded")' PROVE EarnedAt(i)'
  <2>1. CASE i \in DOMAIN log
    BY <1>1, <1>2, <2>1 DEF SuccessInv, Positions
  <2> QED
    BY <1>3, <2>1
<1> QED
  BY <1>3 DEF SuccessInv

\* The verdicts a step leaves alone, if no attempt begins.
LEMMA VerdictsStay ==
    ASSUME IInv, SuccessInv, NEW b \in Seq(LogEvent), log' = log \o b,
           \A i \in DOMAIN b : b[i].type \notin Turns,
           \A t \in Tasks : task'[t].pc = "verdict" /\ task'[t].arg = "pass" =>
              /\ AttemptOf(t)' = AttemptOf(t)
              /\ task[t].pc = "verdict" /\ task[t].arg = "pass"
    PROVE  VerdictEarned'
<1>1. TypeOK /\ TasksTyped
  BY Typed DEF IInv
<1> SUFFICES ASSUME NEW t \in Tasks, NEW a, a = AttemptOf(t)',
                    task'[t].pc = "verdict", task'[t].arg = "pass"
             PROVE  Passed(a)'
  BY DEF VerdictEarned
<1>2. a = AttemptOf(t) /\ a \in Nat /\ task[t].pc = "verdict" /\ task[t].arg = "pass"
  BY <1>1, AttemptTyped
<1>3. Passed(a)
  BY <1>2 DEF SuccessInv, VerdictEarned
<1> QED
  BY <1>1, <1>2, <1>3, EarnedStays

LEMMA SettledVerdicts ==
    ASSUME IInv, Settled
    PROVE  \A t \in Tasks : task'[t].pc = "verdict" /\ task'[t].arg = "pass" =>
              /\ AttemptOf(t)' = AttemptOf(t)
              /\ task[t].pc = "verdict" /\ task[t].arg = "pass"
<1>1. ASSUME NEW t \in Tasks, task'[t].pc = "verdict" PROVE Same(t)
  BY <1>1 DEF Settled, Keeps, Stops
<1> QED
  BY <1>1 DEF Same, AttemptOf

\* A step whose events neither start an attempt nor evaluate one nor end the
\* run in success.
Uneventful ==
    \E b \in Seq(LogEvent) :
        /\ log' = log \o b
        /\ \A i \in DOMAIN b : b[i].type \notin Turns \cup {"run.succeeded"}

LEMMA UneventfulLogs ==
    ASSUME TypeOK
    PROVE  /\ QuietLog => Uneventful
           /\ \A x \in LogEvent : /\ log' = log \o <<x>>
                                  /\ x.type \notin Turns \cup {"run.succeeded"}
                 => Uneventful
           /\ \A x, y \in LogEvent :
                 /\ log' = log \o <<x, y>>
                 /\ x.type \notin Turns \cup {"run.succeeded"}
                 /\ y.type \notin Turns \cup {"run.succeeded"}
                 => Uneventful
<1>1. QuietLog => Uneventful
  BY DEF QuietLog, Uneventful, Quiet, Loud, Turns
<1>2. ASSUME NEW x \in LogEvent, log' = log \o <<x>>,
             x.type \notin Turns \cup {"run.succeeded"}
      PROVE  Uneventful
  <2> DEFINE b == <<x>>
  <2>1. b \in Seq(LogEvent) /\ log' = log \o b /\ \A i \in DOMAIN b : b[i] = x
    BY <1>2
  <2> HIDE DEF b
  <2> QED
    BY <1>2, <2>1 DEF Uneventful
<1>3. ASSUME NEW x \in LogEvent, NEW y \in LogEvent, log' = log \o <<x, y>>,
             x.type \notin Turns \cup {"run.succeeded"},
             y.type \notin Turns \cup {"run.succeeded"}
      PROVE  Uneventful
  <2> DEFINE b == <<x, y>>
  <2>1. /\ b \in Seq(LogEvent) /\ log' = log \o b
        /\ \A i \in DOMAIN b : b[i] = x \/ b[i] = y
    BY <1>3
  <2> HIDE DEF b
  <2> QED
    BY <1>3, <2>1 DEF Uneventful
<1> QED
  BY <1>1, <1>2, <1>3

LEMMA UneventfulKeeps ==
    ASSUME IInv, SuccessInv, Uneventful,
           \A t \in Tasks : task'[t].pc = "verdict" /\ task'[t].arg = "pass" =>
              /\ AttemptOf(t)' = AttemptOf(t)
              /\ task[t].pc = "verdict" /\ task[t].arg = "pass"
    PROVE  SuccessInv'
<1>1. PICK b \in Seq(LogEvent) :
         /\ log' = log \o b
         /\ \A i \in DOMAIN b : b[i].type \notin Turns \cup {"run.succeeded"}
  BY DEF Uneventful
<1>2. TypeOK
  BY DEF IInv
<1>3. \A i \in Positions("run.succeeded")' : i \in DOMAIN log
  BY <1>1, <1>2, LogGrows DEF Positions
<1>4. VerdictEarned'
  BY <1>1, VerdictsStay
<1> QED
  BY <1>1, <1>2, <1>3, <1>4, SuccessFrame

LEMMA AppendsSuccess ==
    ASSUME IInv, SuccessInv, NEW t \in Tasks, Appends(t)
    PROVE  SuccessInv'
<1>1. TypeOK /\ TasksTyped /\ AttemptOf(t) \in Nat
  BY Typed, AttemptTyped DEF IInv
<1>2. /\ \A u \in Tasks : u # t => task'[u].pc = "done"
      /\ task'[t].pc = After(t)
      /\ task[t].pc # "verdict" => task'[t].snap = task[t].snap /\ task'[t].arg = task[t].arg
  BY TaskMoves
<1>3. /\ task[t].pc \in {"start", "completed", "evaluate", "evaluated", "verdict"}
      /\ task[t].pc # "evaluated" => task'[t].pc # "verdict"
      /\ task[t].pc = "evaluated" => task'[t].pc = "verdict"
  BY <1>2 DEF Appends, After
<1>4. ASSUME NEW x \in LogEvent, log' = log \o <<x>> PROVE <<x>> \in Seq(LogEvent)
  OBVIOUS
<1>5. ASSUME task[t].pc # "evaluated" PROVE VerdictEarned'
  BY <1>2, <1>3, <1>5 DEF VerdictEarned
<1>6. CASE task[t].pc = "start"
  <2>1. PICK x \in LogEvent : log' = log \o <<x>> /\ x.type = "run.started"
    BY <1>6, TaskEvent
  <2>2. \A i \in Positions("run.succeeded")' : i \in DOMAIN log
    BY <1>1, <2>1, OneMore DEF Positions
  <2> QED
    BY <1>1, <1>4, <1>5, <1>6, <2>1, <2>2, SuccessFrame
<1>7. CASE task[t].pc \in {"completed", "evaluate"}
  <2>1. PICK x \in LogEvent :
           /\ log' = log \o <<x>>
           /\ x.type \in {"agent.execution.completed", "evaluation.started"}
    BY <1>7, TaskEvent
  <2>2. Uneventful
    BY <1>1, <2>1, UneventfulLogs DEF Turns
  <2>3. \A u \in Tasks : task'[u].pc # "verdict"
    BY <1>2, <1>3, <1>7
  <2> QED
    BY <2>2, <2>3, UneventfulKeeps
<1>8. CASE task[t].pc = "evaluated"
  <2>1. PICK x \in LogEvent : /\ log' = log \o <<x>> /\ x.type = "evaluation.completed"
                              /\ x.attempt = AttemptOf(t)
                              /\ task[t].arg = "pass" => x.data = "passed"
    BY <1>8, TaskEvent
  <2>0. PICK n \in Nat : n = Len(log')
    BY <1>1, <2>1, OneMore
  <2>2. /\ DOMAIN log' = DOMAIN log \cup {n} /\ log'[n] = x
        /\ \A i \in DOMAIN log : log'[i] = log[i] /\ i < n
        /\ DOMAIN log = 1 .. Len(log) /\ Len(log) \in Nat /\ n = Len(log) + 1
    BY <1>1, <2>0, <2>1, OneMore
  <2>4. \A k \in DOMAIN log' : ~(n < k)
    BY <2>2
  <2>5. ASSUME task[t].arg = "pass" PROVE Passed(x.attempt)'
    <3>1. n \in OfAttempt(x.attempt, "evaluation.completed")' /\ log'[n].data = "passed"
      BY <2>1, <2>2, <2>5 DEF OfAttempt
    <3> QED
      BY <2>4, <3>1 DEF Passed, Positions
  <2>6. VerdictEarned'
    <3> SUFFICES ASSUME NEW u \in Tasks, NEW a, a = AttemptOf(u)',
                        task'[u].pc = "verdict", task'[u].arg = "pass"
                 PROVE  Passed(a)'
      BY DEF VerdictEarned
    <3>1. u = t
      BY <1>2
    <3>2. AttemptOf(t)' = AttemptOf(t) /\ task[t].arg = "pass"
      BY <1>2, <1>8, <3>1 DEF AttemptOf
    <3>3. a = x.attempt
      BY <2>1, <3>1, <3>2
    <3> QED
      BY <2>5, <3>2, <3>3
  <2>7. \A i \in Positions("run.succeeded")' : i \in DOMAIN log
    BY <2>1, <2>2 DEF Positions
  <2> QED
    BY <1>1, <1>4, <2>1, <2>6, <2>7, SuccessFrame
<1>9. CASE task[t].pc = "verdict"
  <2>1. \A u \in Tasks : task'[u].pc # "verdict"
    BY <1>2, <1>3, <1>9
  <2>2. ASSUME NEW x \in LogEvent, log' = log \o <<x>>, Quiet(x) PROVE SuccessInv'
    <3>1. x.type \notin Turns \cup {"run.succeeded"}
      BY <2>2 DEF Quiet, Loud, Turns
    <3>2. Uneventful
      BY <1>1, <2>2, <3>1, UneventfulLogs
    <3> QED
      BY <2>1, <3>2, UneventfulKeeps
  <2>3. ASSUME NEW x \in LogEvent, NEW y \in LogEvent, log' = log \o <<x, y>>,
               x.type = "hint.published", y.type = "run.retry_scheduled"
        PROVE  SuccessInv'
    <3>1. Uneventful
      BY <1>1, <2>3, UneventfulLogs DEF Turns
    <3> QED
      BY <2>1, <3>1, UneventfulKeeps
  <2>4. ASSUME NEW x \in LogEvent, log' = log \o <<x>>, task[t].arg = "pass",
               x.type = "run.succeeded", x.attempt = AttemptOf(t), x.data = "graders"
        PROVE  SuccessInv'
    <3>0. PICK n \in Nat : n = Len(log')
      BY <1>1, <2>4, OneMore
    <3>1. /\ DOMAIN log' = DOMAIN log \cup {n} /\ log'[n] = x
          /\ \A i \in DOMAIN log : log'[i] = log[i] /\ i < n
      BY <1>1, <2>4, <3>0, OneMore
    <3>2. PICK a \in Nat : a = AttemptOf(t)
      BY <1>1
    <3>3. PICK j \in OfAttempt(a, "evaluation.completed") :
             /\ log[j].data = "passed"
             /\ \A type \in Turns : \A k \in Positions(type) : ~(j < k)
      BY <1>9, <2>4, <3>2 DEF SuccessInv, VerdictEarned, Passed
    <3>4. /\ j \in OfAttempt(a, "evaluation.completed")' /\ j < n
          /\ log'[j].data = "passed"
      BY <3>1, <3>3 DEF OfAttempt
    <3>5. \A type \in Turns : \A k \in Positions(type)' : ~(j < k /\ k < n)
      <4>1. x.type \notin Turns
        BY <2>4 DEF Turns
      <4> QED
        BY <3>1, <3>3, <4>1 DEF Positions
    <3>6. log'[n].data # "human" /\ log'[n].attempt = a
      BY <2>4, <3>1, <3>2
    <3>7. EarnedAt(n)'
      BY <3>4, <3>5, <3>6 DEF EarnedAt
    <3>8. \A i \in Positions("run.succeeded")' : i \in DOMAIN log \/ i = n
      BY <3>1 DEF Positions
    <3>9. \A i \in Positions("run.succeeded")' : i \in DOMAIN log \/ EarnedAt(i)'
      BY <3>7, <3>8
    <3>10. VerdictEarned'
      BY <1>5, <1>9
    <3> DEFINE b == <<x>>
    <3>11. b \in Seq(LogEvent) /\ log' = log \o b
      BY <2>4
    <3> HIDE DEF b
    <3> QED
      BY <1>1, <3>9, <3>10, <3>11, SuccessFrame
  <2>5. CASE \E x \in LogEvent :
               /\ log' = log \o <<x>>
               /\ \/ Quiet(x)
                  \/ /\ task[t].arg = "pass" /\ x.type = "run.succeeded"
                     /\ x.attempt = AttemptOf(t) /\ x.data = "graders"
    BY <2>2, <2>4, <2>5
  <2>6. CASE \E x, y \in LogEvent :
               /\ log' = log \o <<x, y>> /\ x.type = "hint.published"
               /\ y.type = "run.retry_scheduled" /\ y.attempt = AttemptOf(t) + 1
    BY <2>3, <2>6
  <2> QED
    BY <1>9, <2>5, <2>6, TaskEvent
<1> QED
  BY <1>3, <1>6, <1>7, <1>8, <1>9

LEMMA ReopensSuccess ==
    ASSUME IInv, SuccessInv, NEW r \in Requests, Reopens(r), Settled
    PROVE  SuccessInv'
<1>1. TypeOK
  BY DEF IInv
<1>2. CASE Uneventful
  BY <1>2, SettledVerdicts, UneventfulKeeps
<1>3. CASE \E x \in LogEvent : log' = log \o <<x>> /\ x.type = "run.resumed"
  BY <1>1, <1>2, <1>3, UneventfulLogs DEF Turns
<1>4. CASE \E x, y \in LogEvent :
             /\ log' = log \o <<x, y>>
             /\ \/ x.type = "run.recovered"
                \/ x.type = "hitl.resolved" /\ x.data = "retry"
             /\ y.type = "run.retry_scheduled"
  <2>1. PICK x \in LogEvent, y \in LogEvent :
           /\ log' = log \o <<x, y>> /\ x.type \in {"run.recovered", "hitl.resolved"}
           /\ y.type = "run.retry_scheduled"
    BY <1>4
  <2> QED
    BY <1>1, <1>2, <2>1, UneventfulLogs DEF Turns
<1>5. CASE \E x, y \in LogEvent :
             /\ log' = log \o <<x, y>>
             /\ x = Resolved(y.attempt, "approve") /\ x.type = "hitl.resolved"
             /\ x.data = "approve" /\ y.type = "run.succeeded" /\ y.data = "human"
  <2>1. PICK x \in LogEvent, y \in LogEvent :
             /\ log' = log \o <<x, y>>
             /\ x = Resolved(y.attempt, "approve") /\ x.type = "hitl.resolved"
             /\ y.type = "run.succeeded" /\ y.data = "human"
    BY <1>5
  <2>0. PICK n \in Nat : n = Len(log')
    BY <1>1, <2>1, TwoMore
  <2>2. /\ Len(log) \in Nat /\ n = Len(log) + 2
        /\ DOMAIN log' = DOMAIN log \cup {Len(log) + 1, n}
        /\ log'[Len(log) + 1] = x /\ log'[n] = y
    BY <1>1, <2>0, <2>1, TwoMore
  <2>3. n > 1 /\ n - 1 = Len(log) + 1
    BY <2>2
  <2>4. log'[n - 1] = Resolved(log'[n].attempt, "approve") /\ log'[n].data = "human"
    BY <2>1, <2>2, <2>3
  <2>5. EarnedAt(n)'
    BY <2>3, <2>4 DEF EarnedAt, Resolved, Ev
  <2>6. \A i \in Positions("run.succeeded")' : i \in DOMAIN log \/ i = n
    BY <2>1, <2>2 DEF Positions
  <2>7. \A i \in Positions("run.succeeded")' : i \in DOMAIN log \/ EarnedAt(i)'
    BY <2>5, <2>6
  <2> DEFINE b == <<x, y>>
  <2>8. /\ b \in Seq(LogEvent) /\ log' = log \o b
        /\ \A i \in DOMAIN b : b[i] = x \/ b[i] = y
    BY <2>1
  <2> HIDE DEF b
  <2>9. \A i \in DOMAIN b : b[i].type \notin Turns
    BY <2>1, <2>8 DEF Turns
  <2>10. VerdictEarned'
    BY <2>8, <2>9, SettledVerdicts, VerdictsStay
  <2> QED
    BY <1>1, <2>7, <2>8, <2>10, SuccessFrame
<1> QED
  BY <1>3, <1>4, <1>5, ReopenEvents

LEMMA SuccessKeeps ==
    ASSUME IInv, SuccessInv, [Next]_vars
    PROVE  SuccessInv'
<1>1. TypeOK
  BY DEF IInv
<1>2. CASE Calm
  BY <1>1, <1>2, UneventfulLogs, SettledVerdicts, UneventfulKeeps DEF Calm
<1>3. ASSUME NEW e \in emits, Shown(e), Settled PROVE SuccessInv'
  <2>1. PICK x \in LogEvent :
           log' = log \o <<x>> /\ x.type \in {"agent.event", "supervisor.action_requested"}
    BY <1>3, ShownEvent
  <2>2. Uneventful
    BY <1>1, <2>1, UneventfulLogs DEF Turns
  <2> QED
    BY <1>3, <2>2, SettledVerdicts, UneventfulKeeps
<1>4. ASSUME NEW t \in Tasks, Loads(t) \/ Gather(t) \/ HarnessReturns(t) \/ HarnessEmits(t)
      PROVE SuccessInv'
  <2>1. UNCHANGED log
    BY <1>4, LoadsMoves, GatherMoves, ReturnsMoves DEF HarnessEmits
  <2>2. Uneventful
    BY <1>1, <2>1, QuietLogs, UneventfulLogs
  <2>3. CASE Loads(t) \/ Gather(t) \/ HarnessReturns(t)
    <3>1. \A u \in Tasks : task'[u].pc # "verdict"
      BY <2>3, LoadsMoves, GatherMoves, ReturnsMoves
    <3> QED
      BY <2>2, <3>1, UneventfulKeeps
  <2>4. CASE HarnessEmits(t)
    <3>1. \A u \in Tasks : task'[u] = task[u] /\ AttemptOf(u)' = AttemptOf(u)
      BY <2>4 DEF HarnessEmits, AttemptOf
    <3> QED
      BY <2>2, <3>1, UneventfulKeeps
  <2> QED
    BY <1>4, <2>3, <2>4
<1> QED
  BY <1>2, <1>3, <1>4, StepShape, AppendsSuccess, ReopensSuccess

THEOREM SuccessInvariance == Spec => []SuccessInv
<1>1. Init => SuccessInv
  <2> SUFFICES ASSUME Init PROVE SuccessInv
    OBVIOUS
  <2>1. DOMAIN log = {} /\ \A t \in Tasks : task[t].pc = "done"
    BY NoTaskTyped DEF Init
  <2> QED
    BY <2>1 DEF SuccessInv, VerdictEarned, Positions
<1>2. IInv /\ SuccessInv /\ [Next]_vars => SuccessInv'
  BY SuccessKeeps
<1> QED
  BY <1>1, <1>2, EngineInvariance, PTL DEF Spec

(* A run succeeds on the evidence of the evaluation of its last attempt,   *)
(* or right after an operator's approval: no interleaving of requests,     *)
(* emits and graders gives it another way to succeed.                      *)
THEOREM SuccessIsEarned == Spec => []EarnedSuccess
<1>1. SuccessInv => EarnedSuccess
  BY DEF SuccessInv, EarnedSuccess, EarnedAt, Turns
<1> QED
  BY <1>1, SuccessInvariance, PTL

-----------------------------------------------------------------------------
(* RetryInv is inductive relative to IInv and AttemptInv.                  *)

LEMMA PositionsCounted ==
    ASSUME NEW S, NEW l \in Seq(S), NEW P \in SUBSET DOMAIN l
    PROVE  IsFiniteSet(P) /\ Cardinality(P) \in Nat
<1>1. DOMAIN l = 1 .. Len(l) /\ Len(l) \in Nat
  BY LenProperties
<1>2. IsFiniteSet(DOMAIN l)
  BY <1>1, FS_Interval
<1> QED
  BY <1>2, FS_Subset, FS_CardinalityType

LEMMA Counted ==
    ASSUME TypeOK
    PROVE  /\ IsFiniteSet(AutoRetries) /\ Cardinality(AutoRetries) \in Nat
           /\ IsFiniteSet(Reopened) /\ Cardinality(Reopened) \in Nat
           /\ IsFiniteSet(Positions("run.started")) /\ Count("run.started") \in Nat
<1>1. log \in Seq(LogEvent)
  BY LogIsStream
<1>2. /\ AutoRetries \in SUBSET DOMAIN log /\ Reopened \in SUBSET DOMAIN log
      /\ Positions("run.started") \in SUBSET DOMAIN log
  BY DEF AutoRetries, Reopened, Positions
<1> QED
  BY <1>1, <1>2, PositionsCounted DEF Count

\* What an append adds to the retries.
LEMMA RetriesGrow ==
    ASSUME TypeOK, NEW b \in Seq(LogEvent), log' = log \o b
    PROVE  /\ Reopened \subseteq Reopened' /\ AutoRetries \subseteq AutoRetries'
           /\ IsFiniteSet(AutoRetries') /\ Cardinality(AutoRetries') \in Nat
           /\ IsFiniteSet(Reopened') /\ Cardinality(Reopened') \in Nat
           /\ Cardinality(Reopened) =< Cardinality(Reopened')
           /\ Reopened' # Reopened => Cardinality(Reopened) < Cardinality(Reopened')
           /\ (\A i \in DOMAIN b : b[i].type # "run.started") =>
                 Positions("run.started")' = Positions("run.started")
           /\ (\A i \in DOMAIN b : b[i].type = "run.retry_scheduled"
                                   => i > 1 /\ b[i - 1].type # "hint.published")
                 => AutoRetries' = AutoRetries
<1>1. log \in Seq(LogEvent)
  BY LogIsStream
<1>2. /\ DOMAIN log = 1 .. Len(log) /\ Len(log) \in Nat /\ DOMAIN log' = 1 .. Len(log')
      /\ \A i \in DOMAIN log : i \in DOMAIN log' /\ log'[i] = log[i]
      /\ \A i \in DOMAIN log' \ DOMAIN log :
            i - Len(log) \in DOMAIN b /\ log'[i] = b[i - Len(log)]
      /\ log' \in Seq(LogEvent) /\ Len(log') = Len(log) + Len(b)
  BY LogGrows
<1>3. Reopened \subseteq Reopened'
  BY <1>2 DEF Reopened, Positions
<1>4. \A i \in DOMAIN log : i > 1 => i - 1 \in DOMAIN log
  BY <1>2
<1>5. AutoRetries \subseteq AutoRetries'
  BY <1>2, <1>4 DEF AutoRetries, Positions
<1>6. AutoRetries' \in SUBSET DOMAIN log' /\ Reopened' \in SUBSET DOMAIN log'
  BY DEF AutoRetries, Reopened, Positions
<1>7. /\ IsFiniteSet(AutoRetries') /\ Cardinality(AutoRetries') \in Nat
      /\ IsFiniteSet(Reopened') /\ Cardinality(Reopened') \in Nat
      /\ Cardinality(Reopened) \in Nat
  BY <1>2, <1>6, PositionsCounted, Counted
<1>8. /\ Cardinality(Reopened) =< Cardinality(Reopened')
      /\ Cardinality(Reopened) = Cardinality(Reopened') => Reopened' = Reopened
  <2>1. Reopened \in SUBSET Reopened'
    BY <1>3
  <2> QED
    BY <1>7, <2>1, FS_Subset
<1>9. Reopened' # Reopened => Cardinality(Reopened) < Cardinality(Reopened')
  BY <1>7, <1>8
<1>10. ASSUME \A i \in DOMAIN b : b[i].type # "run.started"
       PROVE  Positions("run.started")' = Positions("run.started")
  BY <1>2, <1>10 DEF Positions
<1>11. ASSUME \A i \in DOMAIN b : b[i].type = "run.retry_scheduled"
                                  => i > 1 /\ b[i - 1].type # "hint.published"
       PROVE  AutoRetries' = AutoRetries
  <2> SUFFICES ASSUME NEW i \in AutoRetries' PROVE i \in AutoRetries
    BY <1>5
  <2>1. i \in DOMAIN log' /\ log'[i].type = "run.retry_scheduled" /\ i > 1
        /\ log'[i - 1].type = "hint.published"
    BY DEF AutoRetries, Positions
  <2>2. CASE i \in DOMAIN log
    BY <1>2, <1>4, <2>1, <2>2 DEF AutoRetries, Positions
  <2>3. CASE i \notin DOMAIN log
    <3>1. /\ i - Len(log) \in DOMAIN b /\ b[i - Len(log)].type = "run.retry_scheduled"
          /\ i \in Nat
      BY <1>2, <2>1, <2>3
    <3>2. i - Len(log) > 1 /\ b[(i - Len(log)) - 1].type # "hint.published"
      BY <1>11, <3>1
    <3>3. i - 1 \in DOMAIN log' \ DOMAIN log /\ (i - 1) - Len(log) = (i - Len(log)) - 1
      BY <1>2, <2>1, <3>1, <3>2
    <3>4. log'[i - 1] = b[(i - Len(log)) - 1]
      BY <1>2, <3>3
    <3> QED
      BY <2>1, <3>2, <3>4
  <2> QED
    BY <2>2, <2>3
<1> QED
  BY <1>3, <1>5, <1>7, <1>8, <1>9, <1>10, <1>11

\* What the tasks may do in a step that starts no attempt and schedules none.
RetryMoves ==
    /\ RetryArgs'
    /\ (\E t \in Tasks : In(t)') => \E t \in Tasks : In(t)
    /\ (\E t \in Tasks : task'[t].pc = "start") => Ready

Reopening == {"run.retry_scheduled", "run.resumed", "run.recovered"}

LEMMA RetryFrame ==
    ASSUME IInv, RetryInv, RetryMoves, NEW b \in Seq(LogEvent), log' = log \o b,
           \A i \in DOMAIN b : b[i].type # "run.started",
           \A i \in DOMAIN b : b[i].type = "run.retry_scheduled"
                               => i > 1 /\ b[i - 1].type # "hint.published",
           (\E i \in DOMAIN b : b[i].type \in Reopening) => Reopened' # Reopened
    PROVE  RetryInv'
<1>1. TypeOK /\ log \in Seq(LogEvent)
  BY LogIsStream DEF IInv
<1>2. /\ Positions("run.started")' = Positions("run.started")
      /\ AutoRetries' = AutoRetries
      /\ Cardinality(Reopened) =< Cardinality(Reopened')
      /\ Reopened' # Reopened => Cardinality(Reopened) < Cardinality(Reopened')
      /\ Cardinality(Reopened') \in Nat
  BY <1>1, RetriesGrow
<1>3. Attempt(log') = Attempt(log)
  BY <1>1, AttemptKept DEF LogEvent
<1>4. \A i \in AutoRetries : log'[i] = log[i]
  BY <1>1, LogGrows DEF AutoRetries, Positions
<1>5. /\ Cardinality(AutoRetries) \in Nat /\ Cardinality(Reopened) \in Nat
      /\ Count("run.started") \in Nat
  BY <1>1, Counted
<1>6. AutoNumbers' /\ AutoDistinct' /\ AutoOver'
  <2>1. AutoNumbers'
    BY <1>2, <1>3, <1>4 DEF RetryInv, AutoNumbers
  <2>2. AutoOver'
    BY <1>2, <1>3, <1>4 DEF RetryMoves, RetryInv, AutoOver
  <2>3. AutoDistinct'
    <3> SUFFICES ASSUME NEW i \in AutoRetries', NEW j \in AutoRetries',
                        log'[i].attempt = log'[j].attempt
                 PROVE  i = j
      BY DEF AutoDistinct
    <3>1. i \in AutoRetries /\ j \in AutoRetries
      BY <1>2
    <3>2. log[i].attempt = log[j].attempt
      BY <1>4, <3>1
    <3> QED
      BY <3>1, <3>2 DEF RetryInv, AutoDistinct
  <2> QED
    BY <2>1, <2>2, <2>3
<1>7. Count("run.started")' = Count("run.started")
  BY <1>2 DEF Count
<1>8. Scheduled' = Cardinality(AutoRetries) + Cardinality(Reopened')
  BY <1>2 DEF Scheduled
<1>9. StartsCounted'
  BY <1>2, <1>5, <1>7, <1>8 DEF RetryInv, StartsCounted, Scheduled
<1>10. Ready => Ready'
  BY <1>2, <1>5, <1>7, <1>8 DEF Ready, Scheduled
<1>11. StartReady'
  BY <1>10 DEF RetryMoves, StartReady
<1>12. RunnableReady'
  <2>1. CASE \E i \in DOMAIN b : b[i].type \in Reopening
    <3>1. Cardinality(Reopened) < Cardinality(Reopened')
      BY <1>2, <2>1
    <3>2. Ready'
      BY <1>2, <1>5, <1>7, <1>8, <3>1 DEF RetryInv, StartsCounted, Ready, Scheduled
    <3> QED
      BY <3>2 DEF RunnableReady
  <2>2. CASE \A i \in DOMAIN b : b[i].type \notin Reopening
    <3>1. Status(log') \in Runnable => Status(log) \in Runnable
      BY <1>1, <2>2, RunnableBy DEF Reopening
    <3> QED
      BY <1>10, <3>1 DEF RetryInv, RunnableReady
  <2> QED
    BY <2>1, <2>2
<1> QED
  BY <1>6, <1>9, <1>11, <1>12 DEF RetryMoves, RetryInv

\* The steps without an event that matters to the retries.
LEMMA RetryEvent ==
    ASSUME IInv, RetryInv, RetryMoves,
           \/ QuietLog
           \/ \E x \in LogEvent :
                 log' = log \o <<x>> /\ x.type \notin Reopening \cup {"run.started"}
    PROVE  RetryInv'
<1>1. CASE QuietLog
  <2>1. PICK b \in Seq(LogEvent) : log' = log \o b /\ \A i \in DOMAIN b : Quiet(b[i])
    BY <1>1 DEF QuietLog
  <2>2. \A i \in DOMAIN b : b[i].type \notin Reopening \cup {"run.started"}
    BY <2>1 DEF Quiet, Loud, Reopening
  <2> QED
    BY <2>1, <2>2, RetryFrame DEF Reopening
<1>2. ASSUME NEW x \in LogEvent, log' = log \o <<x>>,
             x.type \notin Reopening \cup {"run.started"}
      PROVE  RetryInv'
  <2> DEFINE b == <<x>>
  <2>1. b \in Seq(LogEvent) /\ log' = log \o b /\ \A i \in DOMAIN b : b[i] = x
    BY <1>2
  <2> HIDE DEF b
  <2>2. \A i \in DOMAIN b : b[i].type \notin Reopening \cup {"run.started"}
    BY <1>2, <2>1
  <2> QED
    BY <2>1, <2>2, RetryFrame DEF Reopening
<1> QED
  BY <1>1, <1>2

LEMMA SettledRetries ==
    ASSUME IInv, RetryInv, Settled
    PROVE  RetryMoves
<1>1. \A t \in Tasks : In(t)' => In(t)
  BY SettledProceed DEF Proceed, Proceeds
<1>2. ASSUME NEW t \in Tasks, task'[t].pc \in {"start", "evaluated", "verdict"}
      PROVE  Same(t)
  BY <1>2 DEF Settled, Keeps, Stops
<1>3. RetryArgs'
  <2> SUFFICES ASSUME NEW t \in Tasks, NEW a, a = AttemptOf(t)',
                      task'[t].pc \in {"evaluated", "verdict"}, task'[t].arg = "retry"
               PROVE  a =< MaxRetries
    BY DEF RetryArgs
  <2>1. /\ a = AttemptOf(t) /\ task[t].pc \in {"evaluated", "verdict"}
        /\ task[t].arg = "retry"
    BY <1>2 DEF Same, AttemptOf
  <2> QED
    BY <2>1 DEF RetryInv, RetryArgs
<1>4. (\E t \in Tasks : task'[t].pc = "start") => Ready
  BY <1>2 DEF Same, RetryInv, StartReady
<1> QED
  BY <1>1, <1>3, <1>4 DEF RetryMoves

\* The steps of a task that append nothing.
LEMMA QuietTaskRetries ==
    ASSUME IInv, RetryInv, NEW t \in Tasks,
           Loads(t) \/ Gather(t) \/ HarnessReturns(t) \/ HarnessEmits(t)
    PROVE  RetryInv'
<1>1. TypeOK
  BY DEF IInv
<1>2. UNCHANGED log
  BY LoadsMoves, GatherMoves, ReturnsMoves DEF HarnessEmits
<1>3. QuietLog
  BY <1>1, <1>2, QuietLogs
<1> SUFFICES RetryMoves
  BY <1>3, RetryEvent
<1>4. CASE Loads(t)
  <2>1. /\ task'[t].pc = "start" /\ \A u \in Tasks : u # t => task'[u].pc = "done"
        /\ Status(log) \in Runnable
    BY <1>4, LoadsMoves DEF Loads
  <2>2. Ready
    BY <2>1 DEF RetryInv, RunnableReady
  <2>3. \A u \in Tasks : task'[u].pc \in {"start", "done"}
    BY <2>1
  <2> QED
    BY <2>2, <2>3 DEF RetryMoves, RetryArgs, In, Within, Grading
<1>5. CASE Gather(t)
  <2>1. /\ task[t].pc = "gather" /\ task'[t].pc = "evaluated" /\ task'[t].snap = task[t].snap
        /\ task'[t].arg = Decide(OwnGrades(t), AttemptOf(t))
        /\ \A u \in Tasks : u # t => task'[u].pc = "done"
    BY <1>5, GatherMoves
  <2>2. task'[t].arg = "retry" => AttemptOf(t) =< MaxRetries
    BY <2>1 DEF Decide, CanRetry
  <2>3. RetryArgs'
    <3> SUFFICES ASSUME NEW u \in Tasks, NEW a, a = AttemptOf(u)',
                        task'[u].pc \in {"evaluated", "verdict"}, task'[u].arg = "retry"
                 PROVE  a =< MaxRetries
      BY DEF RetryArgs
    <3>1. u = t
      BY <2>1
    <3>2. a = AttemptOf(t)
      BY <2>1, <3>1 DEF AttemptOf
    <3> QED
      BY <2>2, <3>1, <3>2
  <2>4. In(t) /\ \A u \in Tasks : task'[u].pc # "start"
    BY <2>1 DEF In, Within, Grading
  <2> QED
    BY <2>3, <2>4 DEF RetryMoves
<1>6. CASE HarnessReturns(t)
  <2>1. /\ task[t].pc = "execute" /\ task'[t].pc = "completed"
        /\ \A u \in Tasks : u # t => task'[u].pc = "done"
    BY <1>6, ReturnsMoves
  <2>2. In(t) /\ \A u \in Tasks : task'[u].pc \notin {"start", "evaluated", "verdict"}
    BY <2>1 DEF In, Within, Grading
  <2> QED
    BY <2>2 DEF RetryMoves, RetryArgs
<1>7. CASE HarnessEmits(t)
  <2>1. UNCHANGED task
    BY <1>7 DEF HarnessEmits
  <2> QED
    BY <2>1 DEF RetryMoves, RetryInv, RetryArgs, StartReady, In, AttemptOf
<1> QED
  BY <1>4, <1>5, <1>6, <1>7

\* A new attempt uses up what was scheduled.
LEMMA StartRetries ==
    ASSUME IInv, RetryInv, NEW t \in Tasks, Appends(t), task[t].pc = "start"
    PROVE  RetryInv'
<1>1. TypeOK /\ log \in Seq(LogEvent) /\ Attempt(log) \in Nat
  BY LogIsStream, SnapshotTyped DEF IInv
<1>2. PICK x \in LogEvent : /\ log' = log \o <<x>> /\ x.type = "run.started"
                            /\ x.attempt = AttemptOf(t) /\ AttemptOf(t) = Attempt(log) + 1
  BY TaskEvent
<1>3. PICK n \in Nat : n = Len(log')
  BY <1>1, <1>2, OneMore
<1>4. /\ DOMAIN log' = DOMAIN log \cup {n} /\ n \notin DOMAIN log /\ log'[n] = x
      /\ \A i \in DOMAIN log : log'[i] = log[i]
  BY <1>1, <1>2, <1>3, OneMore
<1>5. Attempt(log') = Attempt(log) + 1
  BY <1>1, <1>2, EventReads
<1> DEFINE b == <<x>>
<1>6. b \in Seq(LogEvent) /\ log' = log \o b /\ \A i \in DOMAIN b : b[i] = x
  BY <1>2
<1> HIDE DEF b
<1>7. \A i \in DOMAIN b : b[i].type # "run.retry_scheduled" /\ b[i].type \notin Reopening
  BY <1>2, <1>6 DEF Reopening
<1>8. /\ AutoRetries' = AutoRetries
      /\ Cardinality(Reopened) =< Cardinality(Reopened')
      /\ Cardinality(Reopened') \in Nat
  BY <1>1, <1>6, <1>7, RetriesGrow
<1>9. /\ Cardinality(AutoRetries) \in Nat /\ Cardinality(Reopened) \in Nat
      /\ Count("run.started") \in Nat /\ IsFiniteSet(Positions("run.started"))
  BY <1>1, Counted
<1>10. Count("run.started")' = Count("run.started") + 1
  <2>1. /\ Positions("run.started")' = Positions("run.started") \cup {n}
        /\ n \notin Positions("run.started")
    BY <1>2, <1>4 DEF Positions
  <2> QED
    BY <1>9, <2>1, FS_AddElement DEF Count
<1>11. Ready
  BY DEF RetryInv, StartReady
<1>12. Scheduled' = Cardinality(AutoRetries) + Cardinality(Reopened')
  BY <1>8 DEF Scheduled
<1>13. StartsCounted'
  BY <1>8, <1>9, <1>10, <1>11, <1>12 DEF StartsCounted, Ready, Scheduled
<1>14. \A i \in AutoRetries : log'[i] = log[i]
  BY <1>4 DEF AutoRetries, Positions
<1>15. \A i \in AutoRetries : /\ log[i].attempt \in 2 .. (MaxRetries + 1)
                              /\ log[i].attempt =< Attempt(log) + 1
  BY DEF RetryInv, AutoNumbers
<1>16. ASSUME NEW i \in AutoRetries
       PROVE  /\ log[i].attempt \in 2 .. (MaxRetries + 1)
              /\ log[i].attempt =< Attempt(log')
              /\ log[i].attempt =< Attempt(log') + 1
  <2>1. PICK a \in 2 .. (MaxRetries + 1) : a = log[i].attempt
    BY <1>15
  <2>2. a =< Attempt(log) + 1
    BY <1>15, <2>1
  <2>3. a =< Attempt(log') /\ a =< Attempt(log') + 1
    BY <1>1, <1>5, <2>2
  <2> QED
    BY <2>1, <2>3
<1>17. AutoNumbers' /\ AutoDistinct' /\ AutoOver'
  <2>1. AutoNumbers'
    BY <1>8, <1>14, <1>16 DEF AutoNumbers
  <2>2. AutoOver'
    BY <1>8, <1>14, <1>16 DEF AutoOver
  <2>3. AutoDistinct'
    BY <1>8, <1>14 DEF RetryInv, AutoDistinct
  <2> QED
    BY <2>1, <2>2, <2>3
<1>18. \A u \in Tasks : task'[u].pc \in {"execute", "done"}
  BY TaskMoves DEF After
<1>19. RetryArgs' /\ StartReady'
  BY <1>18 DEF RetryArgs, StartReady
<1>20. RunnableReady'
  <2>1. Status(log') \notin Runnable
    <3> DEFINE at == {i \in DOMAIN log' : log'[i].type \in StatusTypes}
               k == LastOf(log', StatusTypes)
    <3>1. log' \in Seq(LogEvent)
      BY <1>1, <1>2, OneMore
    <3>2. at # {} => k \in at /\ \A j \in at : j =< k
      BY <3>1, LastOfIs
    <3>3. n \in at
      BY <1>2, <1>4 DEF StatusTypes
    <3>4. k \in DOMAIN log' /\ n =< k
      BY <3>2, <3>3
    <3>5. Status(log') = IF k = 0 THEN "created" ELSE StatusAfter(log'[k].type)
      BY DEF Status
    <3> HIDE DEF at, k
    <3>6. DOMAIN log' = 1 .. n
      BY <1>3, <3>1, LenProperties
    <3>7. k = n /\ k # 0
      BY <3>4, <3>6
    <3>8. Status(log') = "running"
      BY <1>2, <1>4, <3>5, <3>7 DEF StatusAfter
    <3> QED
      BY <3>8 DEF Runnable
  <2> QED
    BY <2>1 DEF RunnableReady
<1> QED
  BY <1>13, <1>17, <1>19, <1>20 DEF RetryInv

\* A retry of the engine's own accord has a number of its own.
LEMMA VerdictRetries ==
    ASSUME IInv, AttemptInv, RetryInv, NEW t \in Tasks, Appends(t),
           task[t].pc = "verdict", task[t].arg = "retry",
           NEW x \in LogEvent, NEW y \in LogEvent, log' = log \o <<x, y>>,
           x.type = "hint.published", y.type = "run.retry_scheduled",
           y.attempt = AttemptOf(t) + 1
    PROVE  RetryInv'
<1>1. TypeOK /\ log \in Seq(LogEvent) /\ Attempt(log) \in Nat /\ TasksTyped
  BY Typed, LogIsStream, SnapshotTyped DEF IInv
<1>2. PICK n \in Nat : n = Len(log')
  BY <1>1, TwoMore, LenProperties
<1>3. /\ Len(log) \in Nat /\ n = Len(log) + 2 /\ DOMAIN log = 1 .. Len(log)
      /\ DOMAIN log' = DOMAIN log \cup {Len(log) + 1, n}
      /\ log'[Len(log) + 1] = x /\ log'[n] = y
      /\ \A i \in DOMAIN log : log'[i] = log[i]
  BY <1>1, <1>2, TwoMore
<1>4. n > 1 /\ n - 1 = Len(log) + 1 /\ n \notin DOMAIN log /\ n # Len(log) + 1
  BY <1>3
<1>5. AutoRetries' = AutoRetries \cup {n}
  <2>1. \A i \in DOMAIN log : i > 1 => i - 1 \in DOMAIN log
    BY <1>3
  <2>2. \A i \in DOMAIN log : i \in AutoRetries' <=> i \in AutoRetries
    BY <1>3, <2>1 DEF AutoRetries, Positions
  <2>3. n \in AutoRetries'
    BY <1>3, <1>4 DEF AutoRetries, Positions
  <2>4. Len(log) + 1 \notin AutoRetries'
    BY <1>3 DEF AutoRetries, Positions
  <2>5. AutoRetries' \subseteq DOMAIN log' /\ AutoRetries \subseteq DOMAIN log
    BY DEF AutoRetries, Positions
  <2> QED
    BY <1>3, <2>2, <2>3, <2>4, <2>5
<1> DEFINE b == <<x, y>>
<1>6. /\ b \in Seq(LogEvent) /\ log' = log \o b
      /\ \A i \in DOMAIN b : b[i] = x \/ b[i] = y
  OBVIOUS
<1> HIDE DEF b
<1>7. \A i \in DOMAIN b : b[i].type # "run.started"
  BY <1>6
<1>8. /\ Positions("run.started")' = Positions("run.started")
      /\ Cardinality(Reopened) =< Cardinality(Reopened')
      /\ Cardinality(Reopened') \in Nat
  BY <1>1, <1>6, <1>7, RetriesGrow
<1>9. Attempt(log') = Attempt(log)
  BY <1>1, UnnumberedLogs, UnnumberedReads
<1>10. /\ Cardinality(AutoRetries) \in Nat /\ Cardinality(Reopened) \in Nat
       /\ Count("run.started") \in Nat /\ IsFiniteSet(AutoRetries)
  BY <1>1, Counted
<1>11. n \notin AutoRetries
  BY <1>4 DEF AutoRetries, Positions
<1>12. Scheduled' = Cardinality(AutoRetries) + 1 + Cardinality(Reopened')
  BY <1>5, <1>10, <1>11, FS_AddElement DEF Scheduled
<1>13. Count("run.started")' = Count("run.started")
  BY <1>8 DEF Count
<1>14. StartsCounted' /\ Ready'
  BY <1>8, <1>10, <1>12, <1>13 DEF RetryInv, StartsCounted, Ready, Scheduled
<1>15. \A u \in Tasks : task'[u].pc \in {"load", "done"}
  BY TaskMoves DEF After
<1>16. RetryArgs' /\ AutoOver' /\ StartReady' /\ RunnableReady'
  BY <1>14, <1>15 DEF RetryArgs, AutoOver, StartReady, RunnableReady, In, Within, Grading
<1>17. /\ In(t) /\ AttemptOf(t) = Attempt(log) /\ AttemptOf(t) =< MaxRetries
       /\ MaxRetries \in Nat
  BY ParameterAssumption DEF In, Within, Grading, AttemptInv, InLast, RetryInv, RetryArgs
<1>18. AttemptOf(t) >= 1
  BY <1>1 DEF AttemptOf, TasksTyped, TaskRec, Snap
<1>19. /\ y.attempt = Attempt(log) + 1 /\ y.attempt \in 2 .. (MaxRetries + 1)
  BY <1>1, <1>17, <1>18
<1>20. \A i \in AutoRetries : /\ log'[i] = log[i] /\ log[i].attempt \in 2 .. (MaxRetries + 1)
                              /\ log[i].attempt =< Attempt(log) + 1
                              /\ log[i].attempt =< Attempt(log)
  BY <1>3, <1>17 DEF RetryInv, AutoNumbers, AutoOver, AutoRetries, Positions
<1>21. ASSUME NEW i \in AutoRetries PROVE log'[i].attempt # y.attempt
  <2>1. PICK a \in 2 .. (MaxRetries + 1) : a = log[i].attempt
    BY <1>20
  <2>2. a =< Attempt(log)
    BY <1>20, <2>1
  <2>3. a # Attempt(log) + 1
    BY <1>1, <2>2
  <2>4. log'[i].attempt = a
    BY <1>20, <2>1
  <2> QED
    BY <1>19, <2>3, <2>4
<1>22. AutoNumbers'
  <2>1. log'[n].attempt = y.attempt /\ y.attempt =< Attempt(log) + 1
    BY <1>1, <1>3, <1>19
  <2> QED
    BY <1>5, <1>9, <1>19, <1>20, <2>1 DEF AutoNumbers
<1>23. AutoDistinct'
  <2>1. log'[n].attempt = y.attempt
    BY <1>3
  <2>2. \A i, j \in AutoRetries : log'[i].attempt = log'[j].attempt => i = j
    BY <1>20 DEF RetryInv, AutoDistinct
  <2> SUFFICES ASSUME NEW i \in AutoRetries', NEW j \in AutoRetries',
                      log'[i].attempt = log'[j].attempt
               PROVE  i = j
    BY DEF AutoDistinct
  <2>3. (i \in AutoRetries \/ i = n) /\ (j \in AutoRetries \/ j = n)
    BY <1>5
  <2> QED
    BY <1>21, <2>1, <2>2, <2>3
<1> QED
  BY <1>14, <1>16, <1>22, <1>23 DEF RetryInv

LEMMA AppendsRetries ==
    ASSUME IInv, AttemptInv, RetryInv, NEW t \in Tasks, Appends(t)
    PROVE  RetryInv'
<1>1. /\ \A u \in Tasks : u # t => task'[u].pc = "done"
      /\ task'[t].pc = After(t)
      /\ task[t].pc # "verdict" => task'[t].snap = task[t].snap /\ task'[t].arg = task[t].arg
  BY TaskMoves
<1>2. ASSUME task[t].pc \in {"completed", "evaluate", "evaluated", "verdict"}
      PROVE  RetryMoves
  <2>1. /\ task[t].pc # "evaluated" => task'[t].pc \notin {"start", "evaluated", "verdict"}
        /\ task[t].pc = "evaluated" => task'[t].pc = "verdict"
    BY <1>1, <1>2 DEF After
  <2>2. In(t) /\ \A u \in Tasks : task'[u].pc # "start"
    BY <1>1, <1>2, <2>1 DEF In, Within, Grading
  <2>3. RetryArgs'
    <3> SUFFICES ASSUME NEW u \in Tasks, NEW a, a = AttemptOf(u)',
                        task'[u].pc \in {"evaluated", "verdict"}, task'[u].arg = "retry"
                 PROVE  a =< MaxRetries
      BY DEF RetryArgs
    <3>1. u = t
      BY <1>1
    <3>2. task[t].pc = "evaluated"
      BY <2>1, <3>1
    <3>3. a = AttemptOf(t) /\ task[t].arg = "retry"
      BY <1>1, <3>1, <3>2 DEF AttemptOf
    <3> QED
      BY <3>2, <3>3 DEF RetryInv, RetryArgs
  <2> QED
    BY <2>2, <2>3 DEF RetryMoves
<1>3. CASE task[t].pc \in {"completed", "evaluate", "evaluated"}
  <2>1. PICK x \in LogEvent :
           /\ log' = log \o <<x>>
           /\ x.type \in {"agent.execution.completed", "evaluation.started",
                          "evaluation.completed"}
    BY <1>3, TaskEvent
  <2> QED
    BY <1>2, <1>3, <2>1, RetryEvent DEF Reopening
<1>4. CASE task[t].pc = "verdict"
  <2>1. RetryMoves
    BY <1>2, <1>4
  <2>2. CASE \E x \in LogEvent :
               /\ log' = log \o <<x>>
               /\ \/ Quiet(x)
                  \/ /\ task[t].arg = "pass" /\ x.type = "run.succeeded"
                     /\ x.attempt = AttemptOf(t) /\ x.data = "graders"
    <3>1. PICK x \in LogEvent :
             log' = log \o <<x>> /\ (Quiet(x) \/ x.type = "run.succeeded")
      BY <2>2
    <3>2. x.type \notin Reopening \cup {"run.started"}
      BY <3>1 DEF Quiet, Loud, Reopening
    <3> QED
      BY <2>1, <3>1, <3>2, RetryEvent
  <2>3. CASE /\ task[t].arg = "retry"
             /\ \E x, y \in LogEvent :
                   /\ log' = log \o <<x, y>> /\ x.type = "hint.published"
                   /\ y.type = "run.retry_scheduled" /\ y.attempt = AttemptOf(t) + 1
    BY <1>4, <2>3, VerdictRetries
  <2> QED
    BY <1>4, <2>2, <2>3, TaskEvent
<1>5. CASE task[t].pc = "start"
  BY <1>5, StartRetries
<1> QED
  BY <1>3, <1>4, <1>5 DEF Appends

\* An operator who reopens the run adds to Reopened.
LEMMA ReopensRetries ==
    ASSUME IInv, RetryInv, NEW r \in Requests, Reopens(r), Settled
    PROVE  RetryInv'
<1>1. TypeOK /\ RetryMoves
  BY SettledRetries DEF IInv
<1>2. CASE \E x \in LogEvent : log' = log \o <<x>> /\ x.type = "run.resumed"
  <2>1. PICK x \in LogEvent : log' = log \o <<x>> /\ x.type = "run.resumed"
    BY <1>2
  <2> DEFINE b == <<x>>
  <2>2. b \in Seq(LogEvent) /\ log' = log \o b /\ \A i \in DOMAIN b : b[i] = x
    BY <2>1
  <2> HIDE DEF b
  <2>3. \A i \in DOMAIN b : b[i].type \notin {"run.started", "run.retry_scheduled"}
    BY <2>1, <2>2
  <2>4. Reopened' # Reopened
    <3>1. PICK n \in Nat : n = Len(log')
      BY <1>1, <2>1, OneMore
    <3>2. n \in DOMAIN log' /\ log'[n] = x /\ n \notin DOMAIN log
      BY <1>1, <2>1, <3>1, OneMore
    <3> QED
      BY <2>1, <3>2 DEF Reopened, Positions
  <2> QED
    BY <1>1, <2>2, <2>3, <2>4, RetryFrame
<1>3. CASE \E x, y \in LogEvent :
             /\ log' = log \o <<x, y>>
             /\ \/ x.type = "run.recovered"
                \/ x.type = "hitl.resolved" /\ x.data = "retry"
             /\ y.type = "run.retry_scheduled"
  <2>1. PICK x \in LogEvent, y \in LogEvent :
             /\ log' = log \o <<x, y>>
             /\ \/ x.type = "run.recovered"
                \/ x.type = "hitl.resolved" /\ x.data = "retry"
             /\ y.type = "run.retry_scheduled"
    BY <1>3
  <2> DEFINE b == <<x, y>>
  <2>2. /\ b \in Seq(LogEvent) /\ log' = log \o b /\ DOMAIN b = 1 .. 2
        /\ b[1] = x /\ b[2] = y
    BY <2>1
  <2> HIDE DEF b
  <2>3. x.type \notin {"run.retry_scheduled", "run.started", "hint.published"}
    BY <2>1
  <2>4. \A i \in DOMAIN b : i = 1 \/ i = 2
    BY <2>2
  <2>5. /\ \A i \in DOMAIN b : b[i].type # "run.started"
        /\ \A i \in DOMAIN b : b[i].type = "run.retry_scheduled"
                               => i > 1 /\ b[i - 1].type # "hint.published"
    BY <2>1, <2>2, <2>3, <2>4
  <2>6. Reopened' # Reopened
    <3>1. PICK n \in Nat : n = Len(log) + 1
      BY <1>1, LogIsStream, LenProperties
    <3>2. n \in DOMAIN log' /\ log'[n] = x /\ n \notin DOMAIN log
      BY <1>1, <2>1, <3>1, TwoMore
    <3> QED
      BY <2>1, <3>2 DEF Reopened, Positions
  <2> QED
    BY <1>1, <2>2, <2>5, <2>6, RetryFrame
<1>4. CASE \E x, y \in LogEvent :
             /\ log' = log \o <<x, y>>
             /\ x = Resolved(y.attempt, "approve") /\ x.type = "hitl.resolved"
             /\ x.data = "approve" /\ y.type = "run.succeeded" /\ y.data = "human"
  <2>1. PICK x \in LogEvent, y \in LogEvent :
           log' = log \o <<x, y>> /\ x.type = "hitl.resolved" /\ y.type = "run.succeeded"
    BY <1>4
  <2> DEFINE b == <<x, y>>
  <2>2. /\ b \in Seq(LogEvent) /\ log' = log \o b
        /\ \A i \in DOMAIN b : b[i] = x \/ b[i] = y
    BY <2>1
  <2> HIDE DEF b
  <2>3. \A i \in DOMAIN b : b[i].type \notin Reopening \cup {"run.started"}
    BY <2>1, <2>2 DEF Reopening
  <2> QED
    BY <1>1, <2>2, <2>3, RetryFrame DEF Reopening
<1> QED
  BY <1>2, <1>3, <1>4, ReopenEvents

LEMMA RetriesKeep ==
    ASSUME IInv, AttemptInv, RetryInv, [Next]_vars
    PROVE  RetryInv'
<1>1. CASE Calm
  BY <1>1, SettledRetries, RetryEvent DEF Calm
<1>2. ASSUME NEW e \in emits, Shown(e), Settled PROVE RetryInv'
  <2>1. PICK x \in LogEvent :
           log' = log \o <<x>> /\ x.type \in {"agent.event", "supervisor.action_requested"}
    BY <1>2, ShownEvent
  <2> QED
    BY <1>2, <2>1, SettledRetries, RetryEvent DEF Reopening
<1> QED
  BY <1>1, <1>2, StepShape, QuietTaskRetries, AppendsRetries, ReopensRetries

LEMMA InitRetries ==
    ASSUME Init
    PROVE  RetryInv
<1>1. DOMAIN log = {} /\ \A t \in Tasks : task[t].pc = "done"
  BY NoTaskTyped DEF Init
<1>2. AutoRetries = {} /\ Reopened = {} /\ Positions("run.started") = {}
  BY <1>1 DEF AutoRetries, Reopened, Positions
<1>3. Count("run.started") = 0 /\ Scheduled = 0
  BY <1>2, FS_EmptySet DEF Count, Scheduled
<1>4. StartsCounted /\ Ready
  BY <1>3 DEF StartsCounted, Ready
<1> QED
  BY <1>1, <1>2, <1>4 DEF RetryInv, RetryArgs, AutoNumbers, AutoDistinct, AutoOver,
     RunnableReady, StartReady

THEOREM RetryInvariance == Spec => []RetryInv
<1>1. Init => RetryInv
  BY InitRetries
<1>2. IInv /\ AttemptInv /\ RetryInv /\ [Next]_vars => RetryInv'
  BY RetriesKeep
<1> QED
  BY <1>1, <1>2, EngineInvariance, AttemptInvariance, PTL DEF Spec

\* Retries with distinct numbers from 2 to MaxRetries + 1.
LEMMA AutoRetriesBounded ==
    ASSUME TypeOK, RetryInv
    PROVE  Cardinality(AutoRetries) =< MaxRetries
<1> DEFINE f == [i \in AutoRetries |-> log[i].attempt - 1]
<1>1. MaxRetries \in Nat
  BY ParameterAssumption
<1>2. \A i \in AutoRetries : log[i].attempt \in 2 .. (MaxRetries + 1)
  BY DEF RetryInv, AutoNumbers
<1>3. \A i \in AutoRetries : log[i].attempt \in Int /\ log[i].attempt - 1 \in 1 .. MaxRetries
  BY <1>1, <1>2
<1>4. f \in [AutoRetries -> 1 .. MaxRetries]
  BY <1>3
<1>5. \A i, j \in AutoRetries : f[i] = f[j] => i = j
  <2> SUFFICES ASSUME NEW i \in AutoRetries, NEW j \in AutoRetries, f[i] = f[j]
               PROVE  i = j
    OBVIOUS
  <2>1. log[i].attempt - 1 = log[j].attempt - 1
    OBVIOUS
  <2>2. log[i].attempt = log[j].attempt
    BY <1>3, <2>1
  <2> QED
    BY <2>2 DEF RetryInv, AutoDistinct
<1>6. f \in Injection(AutoRetries, 1 .. MaxRetries)
  BY <1>4, <1>5 DEF Injection, IsInjective
<1>7. IsFiniteSet(1 .. MaxRetries) /\ Cardinality(1 .. MaxRetries) = MaxRetries
  BY <1>1, FS_Interval
<1> HIDE DEF f
<1> QED
  BY <1>6, <1>7, FS_Injection

(* The retry loop is bounded, whatever requests and crashes come between:  *)
(* the engine schedules each attempt from 2 to MaxRetries + 1 at most once *)
(* of its own accord, and every other attempt after the first was reopened *)
(* by an operator.                                                         *)
THEOREM RetriesStayBounded == Spec => []RetriesBounded
<1>1. IInv /\ RetryInv => RetriesBounded
  <2> SUFFICES ASSUME IInv, RetryInv PROVE RetriesBounded
    OBVIOUS
  <2>1. TypeOK
    BY DEF IInv
  <2>2. /\ Cardinality(AutoRetries) \in Nat /\ Cardinality(Reopened) \in Nat
        /\ Count("run.started") \in Nat /\ MaxRetries \in Nat
        /\ Cardinality(AutoRetries) =< MaxRetries
    BY <2>1, Counted, AutoRetriesBounded, ParameterAssumption
  <2>3. Count("run.started") =< 1 + (Cardinality(AutoRetries) + Cardinality(Reopened))
    BY DEF RetryInv, StartsCounted, Scheduled
  <2> QED
    BY <2>2, <2>3 DEF RetriesBounded
<1> QED
  BY <1>1, EngineInvariance, RetryInvariance, PTL

(* The stream of a run is only ever appended to.                           *)
LEMMA StreamExtends ==
    ASSUME IInv, [Next]_vars
    PROVE  \E b \in Seq(LogEvent) : log' = log \o b
<1>1. TypeOK /\ CallsTyped /\ TasksTyped /\ RequestsTyped /\ Args /\ Ops
  BY Typed DEF IInv
<1>2. log \in Seq(LogEvent) /\ Plain \subseteq LogEvent
  BY <1>1, LogIsStream, RecordSets
<1>3. ASSUME UNCHANGED log PROVE \E b \in Seq(LogEvent) : log' = log \o b
  BY <1>2, <1>3, ConcatEmptySeq, EmptySeq
<1>4. \A b \in Seq(Plain) : b \in Seq(LogEvent)
  BY <1>2, SeqMonotonic
<1>5. CASE Calm
  BY <1>5 DEF Calm, QuietLog
<1>6. ASSUME NEW t \in Tasks, Loads(t) \/ HarnessEmits(t) \/ HarnessReturns(t) \/ Gather(t)
      PROVE  UNCHANGED log
  BY <1>6 DEF Loads, Load, HarnessEmits, HarnessReturns, Gather
<1>7. ASSUME NEW t \in Tasks, Appends(t)
      PROVE  \E b \in Seq(LogEvent) : log' = log \o b
  <2>1. task[t].pc \in Appending /\ log' = log \o Batch(t)
    BY <1>7 DEF Appends, TaskAppends
  <2>2. CASE task[t].pc = "start"
    <3>1. Batch(t) = <<Ev("run.started", AttemptOf(t))>> /\ AttemptOf(t) \in Nat
      BY <1>1, <2>1, <2>2, TaskBatch, AttemptTyped
    <3>2. Ev("run.started", AttemptOf(t)) \in LogEvent
      BY <3>1, StartTyped
    <3>3. Batch(t) \in Seq(LogEvent)
      BY <3>1, <3>2, Batches12
    <3> QED
      BY <2>1, <3>3
  <2>3. CASE task[t].pc # "start"
    BY <1>1, <1>4, <2>1, <2>3, TaskBatch
  <2> QED
    BY <2>2, <2>3
<1>8. ASSUME NEW e \in emits, Shown(e)
      PROVE  \E b \in Seq(LogEvent) : log' = log \o b
  <2>1. e \in Emit /\ e.pc \in EmitAppending /\ log' = log \o EmitBatch(e)
    BY <1>1, <1>8 DEF CallsTyped, Shown, EmitAppends
  <2> QED
    BY <1>4, <2>1, EmitBatchPlain
<1>9. ASSUME NEW r \in Requests, Reopens(r)
      PROVE  \E b \in Seq(LogEvent) : log' = log \o b
  <2>1. request[r].pc = "append" /\ log' = log \o RequestBatch(r)
    BY <1>9 DEF Reopens, RequestAppends
  <2> QED
    BY <1>1, <1>4, <2>1, RequestBatchPlain
<1> QED
  BY <1>3, <1>5, <1>6, <1>7, <1>8, <1>9, StepShape

-----------------------------------------------------------------------------
(* HintInv is inductive relative to IInv and AttemptInv.                   *)

\* What an emit that publishes finds fresh was not known to it.
LEMMA FreshKeysFresh ==
    ASSUME NEW e \in Emit
    PROVE  \A n \in DOMAIN FreshKeys(e) : FreshKeys(e)[n] \notin Published(e)
<1> DEFINE keys == e.dir.keys
           fresh == {i \in DOMAIN keys : keys[i] \notin Published(e)}
<1>1. PICK len \in Nat : fresh \in SUBSET (1 .. len)
  <2>1. keys \in Seq(Keys)
    BY DEF Emit, Directive
  <2>2. Len(keys) \in Nat /\ DOMAIN keys = 1 .. Len(keys)
    BY <2>1, LenProperties
  <2> QED
    BY <2>2
<1>2. FreshKeys(e) = [n \in 1 .. Cardinality(fresh) |-> keys[Nth(fresh, n)]]
  BY DEF FreshKeys
<1>3. \A n \in DOMAIN FreshKeys(e) :
         Nth(fresh, n) \in fresh /\ FreshKeys(e)[n] = keys[Nth(fresh, n)]
  <2> HIDE DEF fresh, keys
  <2> QED
    BY <1>1, <1>2, NthExists
<1> QED
  BY <1>3

\* Where an emit of a step comes from: an emit of before, or the harness.
LEMMA EmitSources ==
    ASSUME IInv, [Next]_vars, NEW f \in emits'
    PROVE  \/ \E e \in emits : f.attempt = e.attempt /\ f.known = e.known
           \/ \E t \in Tasks :
                 /\ task[t].pc = "execute" /\ UNCHANGED <<log, task>>
                 /\ f.attempt = AttemptOf(t) /\ f.known = task[t].snap.keys
<1>1. CASE Settled
  BY <1>1, EmitsFrom DEF Settled
<1>2. CASE UNCHANGED emits
  BY <1>2
<1>3. ASSUME NEW t \in Tasks, HarnessEmits(t)
      PROVE  \/ f \in emits
             \/ f.attempt = AttemptOf(t) /\ f.known = task[t].snap.keys
  BY <1>3 DEF HarnessEmits
<1>4. ASSUME NEW t \in Tasks, HarnessEmits(t)
      PROVE  task[t].pc = "execute" /\ UNCHANGED <<log, task>>
  BY <1>4 DEF HarnessEmits
<1>5. ASSUME NEW t \in Tasks, Loads(t) \/ Appends(t) \/ HarnessReturns(t) \/ Gather(t)
      PROVE  UNCHANGED emits
  BY <1>5, LoadsMoves, TaskMoves, ReturnsMoves, GatherMoves
<1> QED
  BY <1>1, <1>2, <1>3, <1>4, <1>5, StepShape DEF Calm

\* A stream that grows keeps what is late, and what a late emit appends is.
LEMMA LateStays ==
    ASSUME TypeOK, NEW b \in Seq(LogEvent), log' = log \o b
    PROVE  /\ \A i \in DOMAIN log : Late(i) => Late(i)'
           /\ \A a : LateNow(a) => LateNow(a)'
           /\ \A j \in DOMAIN log' \ DOMAIN log : LateNow(log'[j].attempt) => Late(j)'
<1>1. /\ Len(log) \in Nat /\ DOMAIN log = 1 .. Len(log)
      /\ Len(log') = Len(log) + Len(b) /\ DOMAIN log' = 1 .. Len(log')
      /\ \A i \in DOMAIN log : i \in DOMAIN log' /\ log'[i] = log[i]
  BY LogGrows
<1>2. Len(b) \in Nat
  BY LenProperties
<1>3. ASSUME NEW i \in DOMAIN log, Late(i) PROVE Late(i)'
  <2>1. PICK s \in Positions("run.started") :
           log[s].attempt = log[i].attempt /\ \E k \in s .. i : Anew(k)
    BY <1>3 DEF Late, Anew
  <2>2. PICK k \in s .. i : Anew(k)
    BY <2>1
  <2>3. s \in DOMAIN log /\ k \in DOMAIN log
    BY <1>1, <2>2 DEF Positions
  <2>4. s \in Positions("run.started")' /\ log'[s].attempt = log'[i].attempt /\ Anew(k)'
    BY <1>1, <2>1, <2>2, <2>3 DEF Positions, Anew
  <2> QED
    BY <2>2, <2>4 DEF Late, Anew
<1>4. ASSUME NEW a, LateNow(a)
      PROVE  \E s \in Positions("run.started")' : \E k \in DOMAIN log :
                log'[s].attempt = a /\ s =< k /\ Anew(k)' /\ s \in DOMAIN log
  <2>1. PICK s \in Positions("run.started") :
           log[s].attempt = a /\ \E k \in DOMAIN log : s =< k /\ Anew(k)
    BY <1>4 DEF LateNow
  <2>2. PICK k \in DOMAIN log : s =< k /\ Anew(k)
    BY <2>1
  <2>3. s \in Positions("run.started")' /\ log'[s].attempt = a /\ Anew(k)' /\ s \in DOMAIN log
    BY <1>1, <2>1, <2>2 DEF Positions, Anew
  <2> QED
    BY <2>2, <2>3
<1>5. ASSUME NEW a, LateNow(a) PROVE LateNow(a)'
  BY <1>1, <1>4, <1>5 DEF LateNow
<1>6. ASSUME NEW j \in DOMAIN log' \ DOMAIN log, LateNow(log'[j].attempt) PROVE Late(j)'
  <2>1. PICK s \in Positions("run.started")', k \in DOMAIN log :
           log'[s].attempt = log'[j].attempt /\ s =< k /\ Anew(k)' /\ s \in DOMAIN log
    BY <1>4, <1>6
  <2>2. k \in s .. j
    BY <1>1, <1>2, <2>1
  <2> QED
    BY <2>1, <2>2 DEF Late, Anew
<1> QED
  BY <1>3, <1>5, <1>6

\* The attempt that has begun has done so on record, after all others.
LEMMA LastBegan ==
    ASSUME TypeOK, Attempt(log) # 0
    PROVE  \E s \in Positions("run.started") :
              /\ log[s].attempt = Attempt(log)
              /\ \A k \in Positions("run.started") : k =< s
<1> DEFINE last == LastOf(log, StartTypes)
<1>1. Positions("run.started") = {i \in DOMAIN log : log[i].type \in StartTypes}
  BY DEF Positions, StartTypes
<1>2. /\ Positions("run.started") = {} => last = 0
      /\ Positions("run.started") # {} =>
            /\ last \in Positions("run.started")
            /\ \A j \in Positions("run.started") : j =< last
  BY <1>1, LogIsStream, LastOfIs
<1>3. Attempt(log) = IF last = 0 THEN 0 ELSE log[last].attempt
  BY DEF Attempt
<1> QED
  BY <1>2, <1>3

\* A run that may be started was scheduled after every attempt that began.
LEMMA RunnableIsLate ==
    ASSUME TypeOK, Status(log) \in Runnable, NEW s \in Positions("run.started")
    PROVE  LateNow(log[s].attempt)
<1> DEFINE at == {i \in DOMAIN log : log[i].type \in StatusTypes}
           last == LastOf(log, StatusTypes)
<1>1. s \in at /\ s \in Nat /\ s # 0
  <2>1. s \in DOMAIN log /\ log[s].type \in StatusTypes
    BY DEF Positions, StatusTypes
  <2> QED
    BY <2>1, LogIsStream, LenProperties
<1>2. last \in at /\ s =< last
  BY <1>1, LogIsStream, LastOfIs
<1>3. last \in DOMAIN log /\ log[last].type \in StatusTypes /\ last # 0
  BY <1>2, LogIsStream, LenProperties
<1>4. Status(log) = StatusAfter(log[last].type)
  BY <1>3 DEF Status
<1> HIDE DEF last, at
<1> QED
  BY <1>2, <1>3, <1>4 DEF LateNow, Anew

\* What an attempt knows of a hint it goes on knowing.
LEMMA KnownStays ==
    ASSUME TypeOK, NEW b \in Seq(LogEvent), log' = log \o b,
           NEW i \in DOMAIN log, NEW keys, NEW a, Known(i, keys, a)
    PROVE  Known(i, keys, a)'
<1>1. log'[i] = log[i]
  BY LogGrows
<1>2. Late(i) => Late(i)'
  BY LateStays
<1> QED
  BY <1>1, <1>2 DEF Known

\* The hints of a step: but for a retry's, they are those of one emit.
Hinted(e)  == EmitAppends(e) /\ e.pc = "hints"
NoHint(x)  == x.type = "hint.published" => x.data = "evaluation"
Unhinted   ==
    \E b \in Seq(LogEvent) : log' = log \o b /\ \A i \in DOMAIN b : NoHint(b[i])
Speaks(b) ==
    \/ \E x : b = <<x>> /\ NoHint(x)
    \/ \E x, y : b = <<x, y>> /\ NoHint(x) /\ NoHint(y)

LEMMA SilentEvents ==
    ASSUME NEW q, q # "hint.published", NEW a
    PROVE  /\ NoHint(Ev(q, a))
           /\ \A d : NoHint([Ev(q, a) EXCEPT !.data = d])
           /\ \A n : NoHint([Ev(q, a) EXCEPT !.usage = n])
  BY DEF NoHint, Ev

LEMMA UnhintedLogs ==
    ASSUME TypeOK
    PROVE  /\ UNCHANGED log => Unhinted
           /\ \A b \in Seq(LogEvent) : log' = log \o b /\ Speaks(b) => Unhinted
<1>1. ASSUME UNCHANGED log PROVE Unhinted
  <2>1. <<>> \in Seq(LogEvent) /\ log' = log \o <<>> /\ DOMAIN <<>> = {}
    BY <1>1, LogIsStream, ConcatEmptySeq
  <2> QED
    BY <2>1 DEF Unhinted
<1>2. ASSUME NEW b \in Seq(LogEvent), log' = log \o b, Speaks(b) PROVE Unhinted
  <2>1. \A i \in DOMAIN b : NoHint(b[i])
    <3>1. CASE \E x : b = <<x>> /\ NoHint(x)
      <4>1. PICK x : b = <<x>> /\ NoHint(x)
        BY <3>1
      <4>2. \A i \in DOMAIN <<x>> : <<x>>[i] = x
        OBVIOUS
      <4> QED
        BY <4>1, <4>2
    <3>2. CASE \E x, y : b = <<x, y>> /\ NoHint(x) /\ NoHint(y)
      <4>1. PICK x, y : b = <<x, y>> /\ NoHint(x) /\ NoHint(y)
        BY <3>2
      <4>2. \A i \in DOMAIN <<x, y>> : <<x, y>>[i] = x \/ <<x, y>>[i] = y
        OBVIOUS
      <4> QED
        BY <4>1, <4>2
    <3> QED
      BY <1>2, <3>1, <3>2 DEF Speaks
  <2> QED
    BY <1>2, <2>1 DEF Unhinted
<1> QED
  BY <1>1, <1>2

LEMMA TaskUnhinted ==
    ASSUME IInv, NEW t \in Tasks, TaskNext(t)
    PROVE  Unhinted
<1>1. TypeOK /\ TasksTyped /\ Args /\ ArgOf(task[t])
  BY Typed DEF IInv, Args
<1>2. CASE TaskAppends(t)
  <2>1. task[t].pc \in Appending /\ log' = log \o Batch(t)
    BY <1>2 DEF TaskAppends
  <2>2. PICK a \in Nat : a = AttemptOf(t)
    BY <1>1, AttemptTyped
  <2>3. Batch(t) \in Seq(LogEvent)
    <3>1. Plain \subseteq LogEvent /\ Ev("run.started", a) \in LogEvent
      BY RecordSets, StartTyped
    <3>2. <<Ev("run.started", a)>> \in Seq(LogEvent)
      BY <3>1
    <3> QED
      BY <1>1, <2>1, <2>2, <3>1, <3>2, TaskBatch, SeqMonotonic
  <2>4. CASE task[t].pc \in {"start", "completed", "evaluate", "evaluated"}
    <3>1. \/ Batch(t) = <<Ev("run.started", a)>>
          \/ Batch(t) = <<[Ev("agent.execution.completed", a) EXCEPT !.usage = task[t].usage]>>
          \/ Batch(t) = <<Ev("evaluation.started", a)>>
          \/ \E d : Batch(t) = <<[Ev("evaluation.completed", a) EXCEPT !.data = d]>>
      BY <2>2, <2>4 DEF Batch
    <3>2. Speaks(Batch(t))
      BY <3>1, SilentEvents DEF Speaks
    <3> QED
      BY <1>1, <2>1, <2>3, <3>2, UnhintedLogs
  <2>5. CASE task[t].pc = "verdict"
    <3>1. Batch(t) = Verdict(a, task[t].arg) /\ task[t].arg \in Verdicts
      BY <1>1, <2>2, <2>5 DEF Batch, ArgOf
    <3>2. NoHint([Ev("hint.published", a) EXCEPT !.data = "evaluation"])
      BY DEF NoHint, Ev
    <3>3. \/ Batch(t) = <<[Ev("run.succeeded", a) EXCEPT !.data = "graders"]>>
          \/ Batch(t) = <<[Ev("hint.published", a) EXCEPT !.data = "evaluation"],
                          Ev("run.retry_scheduled", a + 1)>>
          \/ Batch(t) = <<Ev("run.waiting_human", a)>>
          \/ Batch(t) = <<Ev("run.failed", a)>>
      BY <3>1 DEF Verdict, Verdicts
    <3>4. Speaks(Batch(t))
      BY <3>2, <3>3, SilentEvents DEF Speaks
    <3> QED
      BY <1>1, <2>1, <2>3, <3>4, UnhintedLogs
  <2>6. CASE task[t].pc \in {"control", "budget", "failed", "internal"}
    <3>1. task[t].pc = "control" => task[t].arg \in Signals
      BY <1>1 DEF ArgOf
    <3>2. \/ Batch(t) = <<Ev("run.paused", a)>>
          \/ Batch(t) = <<Ev("run.waiting_human", a)>>
          \/ Batch(t) = <<Ev("run.failed", a)>>
          \/ Batch(t) = <<Ev("budget.exhausted", a), Ev("run.waiting_human", a)>>
          \/ Batch(t) = <<Ev("agent.execution.failed", a), Ev("run.waiting_human", a)>>
          \/ Batch(t) = <<Ev("run.internal_failed", a), Ev("run.waiting_human", a)>>
      BY <2>2, <2>6, <3>1 DEF Batch, Control, Signals
    <3>3. Speaks(Batch(t))
      BY <3>2, SilentEvents DEF Speaks
    <3> QED
      BY <1>1, <2>1, <2>3, <3>3, UnhintedLogs
  <2> QED
    BY <2>1, <2>4, <2>5, <2>6 DEF Appending
<1>3. CASE ~TaskAppends(t)
  BY <1>1, <1>3, UnhintedLogs DEF TaskNext, Load, TaskReadsVersion, TaskConflicts,
     RecordInternalFailure, Gather, HarnessEmits, HarnessReturns, HarnessRaises,
     AttemptTimesOut, AggregateRaises
<1> QED
  BY <1>2, <1>3

LEMMA EmitUnhinted ==
    ASSUME IInv, NEW e \in emits, EmitNext(e), ~Hinted(e)
    PROVE  Unhinted
<1>1. TypeOK /\ e \in Emit /\ e.attempt \in Nat /\ log \in Seq(LogEvent)
  BY LogIsStream DEF IInv, CallsTyped, Emit
<1>2. CASE EmitAppends(e)
  <2>1. log' = log \o EmitBatch(e) /\ e.pc \in EmitAppending \ {"hints"}
    BY <1>2 DEF EmitAppends, Hinted
  <2>2. EmitBatch(e) \in Seq(LogEvent)
    BY <1>1, <2>1, EmitBatchPlain, RecordSets, SeqMonotonic
  <2>3. \/ EmitBatch(e) = <<[Ev("agent.event", e.attempt) EXCEPT !.data = e.kind]>>
        \/ EmitBatch(e) = <<Ev("supervisor.reviewed", e.attempt)>>
        \/ EmitBatch(e) = <<[Ev("supervisor.action_requested", e.attempt)
                               EXCEPT !.data = e.dir.action]>>
        \/ EmitBatch(e) = <<Ev("supervisor.action_completed", e.attempt)>>
        \/ EmitBatch(e) = <<Ev("supervisor.action_failed", e.attempt)>>
    BY <2>1 DEF EmitBatch, EmitAppending
  <2>4. Speaks(EmitBatch(e))
    BY <2>3, SilentEvents DEF Speaks
  <2> QED
    BY <1>1, <2>1, <2>2, <2>4, UnhintedLogs
<1>3. CASE HandlerSpawns(e)
  <2>1. PICK q \in {"team.created", "team.member.spawn_requested", "team.member.spawned",
                    "team.member.spawn_failed"} :
           log' = Append(log, Ev(q, e.attempt))
    BY <1>3 DEF HandlerSpawns, Team
  <2>2. Ev(q, e.attempt) \in LogEvent
    BY <1>1, PlainTypes, EvPlain, RecordSets
  <2>3. <<Ev(q, e.attempt)>> \in Seq(LogEvent) /\ log' = log \o <<Ev(q, e.attempt)>>
    BY <1>1, <2>1, <2>2, AppendIsConcat
  <2>4. Speaks(<<Ev(q, e.attempt)>>)
    BY SilentEvents DEF Speaks
  <2> QED
    BY <1>1, <2>3, <2>4, UnhintedLogs
<1>4. CASE ~EmitAppends(e) /\ ~HandlerSpawns(e)
  BY <1>1, <1>4, UnhintedLogs DEF EmitNext, EmitReadsVersion, EmitConflicts, AdvisorAnswers,
     AdvisorRaises, HandlerSucceeds, HandlerRaises
<1> QED
  BY <1>2, <1>3, <1>4

LEMMA StepHints ==
    ASSUME IInv, [Next]_vars
    PROVE  Unhinted \/ \E e \in emits : Hinted(e)
<1>1. TypeOK /\ RequestsTyped /\ Ops /\ grades \subseteq Grade
  BY Typed DEF IInv, CallsTyped
<1>2. UNCHANGED log => Unhinted
  BY <1>1, UnhintedLogs
<1>3. ASSUME NEW g \in grades, GradeNext(g) PROVE Unhinted
  <2>1. CASE GraderAppends(g)
    <3>1. log' = log \o <<Ev("grader.failed", g.attempt)>> /\ g.attempt \in Nat
      BY <1>1, <2>1 DEF GraderAppends, Grade
    <3>2. Ev("grader.failed", g.attempt) \in LogEvent
      BY <3>1, PlainTypes, EvPlain, RecordSets
    <3>3. <<Ev("grader.failed", g.attempt)>> \in Seq(LogEvent)
      BY <3>2
    <3>4. Speaks(<<Ev("grader.failed", g.attempt)>>)
      BY SilentEvents DEF Speaks
    <3> QED
      BY <1>1, <3>1, <3>3, <3>4, UnhintedLogs
  <2>2. CASE ~GraderAppends(g)
    BY <1>2, <1>3, <2>2 DEF GradeNext, GraderReturns, GraderRaises, GraderReadsVersion,
       GraderConflicts
  <2> QED
    BY <2>1, <2>2
<1>4. ASSUME NEW r \in Requests, RequestNext(r) PROVE Unhinted
  <2>1. CASE RequestAppends(r)
    <3> DEFINE a == request[r].from
               op == request[r].op
    <3>1. request[r].pc = "append" /\ log' = log \o RequestBatch(r)
      BY <2>1 DEF RequestAppends
    <3>2. RequestBatch(r) \in Seq(LogEvent)
      BY <1>1, <3>1, RequestBatchPlain, RecordSets, SeqMonotonic
    <3>3. op \in AllOperations \ {"start"}
      BY <1>1, <3>1 DEF Ops
    <3>4. \/ RequestBatch(r) = <<Ev("run.pause_requested", a), Ev("run.paused", a)>>
          \/ RequestBatch(r) = <<Ev("run.resumed", a + 1)>>
          \/ RequestBatch(r) = <<Ev("run.recovered", a), Ev("run.retry_scheduled", a + 1)>>
          \/ RequestBatch(r) = <<Resolved(a, op),
                                 [Ev("run.succeeded", a) EXCEPT !.data = "human"]>>
          \/ RequestBatch(r) = <<Resolved(a, op), Ev("run.failed", a)>>
          \/ RequestBatch(r) = <<Resolved(a, op), Ev("run.retry_scheduled", a + 1)>>
      BY <3>3 DEF RequestBatch, AllOperations
    <3> HIDE DEF a, op
    <3>5. NoHint(Resolved(a, op))
      BY SilentEvents DEF Resolved
    <3>6. Speaks(RequestBatch(r))
      BY <3>4, <3>5, SilentEvents DEF Speaks
    <3> QED
      BY <1>1, <3>1, <3>2, <3>6, UnhintedLogs
  <2>2. CASE ~RequestAppends(r)
    BY <1>2, <1>4, <2>2 DEF RequestNext, Arrives, TakeStartLock, CreateTask, CheckStatus,
       RequestReadsVersion, RequestConflicts
  <2> QED
    BY <2>1, <2>2
<1>5. CASE CreateRun
  <2>1. /\ <<Ev("run.created", 0)>> \in Seq(LogEvent)
        /\ log' = log \o <<Ev("run.created", 0)>>
    <3>1. Ev("run.created", 0) \in LogEvent
      BY PlainTypes, EvPlain, RecordSets
    <3>2. <<Ev("run.created", 0)>> \in Seq(LogEvent)
      BY <3>1
    <3> QED
      BY <1>5, <3>2, ConcatEmptySeq DEF CreateRun
  <2>2. Speaks(<<Ev("run.created", 0)>>)
    BY SilentEvents DEF Speaks
  <2> QED
    BY <1>1, <2>1, <2>2, UnhintedLogs
<1>6. CASE Stop \/ UNCHANGED vars
  BY <1>2, <1>6 DEF Stop, vars
<1> QED
  BY <1>3, <1>4, <1>5, <1>6, TaskUnhinted, EmitUnhinted DEF Next

\* A task that starts or executes after a step has just read its snapshot, or
\* still has it.
LEMMA TaskStarts ==
    ASSUME IInv, [Next]_vars, NEW t \in Tasks, task'[t].pc \in {"start", "execute"}
    PROVE  \/ Loads(t)
           \/ task[t].pc \in {"start", "execute"} /\ task'[t].snap = task[t].snap
<1>1. ASSUME Settled PROVE task[t].pc \in {"start", "execute"} /\ task'[t].snap = task[t].snap
  BY <1>1 DEF Settled, Keeps, Same, Stops
<1>2. ASSUME NEW u \in Tasks, Loads(u)
      PROVE  Loads(t) \/ (task[t].pc \in {"start", "execute"} /\ task'[t].snap = task[t].snap)
  BY <1>2, LoadsMoves
<1>3. ASSUME NEW u \in Tasks, Appends(u)
      PROVE  task[t].pc \in {"start", "execute"} /\ task'[t].snap = task[t].snap
  <2>1. t = u
    BY <1>3, TaskMoves
  <2>2. task[t].pc = "start" /\ task'[t].snap = task[t].snap
    BY <1>3, <2>1, TaskMoves DEF Appends, After
  <2> QED
    BY <2>2
<1>4. ASSUME NEW u \in Tasks, HarnessEmits(u) \/ HarnessReturns(u) \/ Gather(u)
      PROVE  task[t].pc \in {"start", "execute"} /\ task'[t].snap = task[t].snap
  BY <1>4, ReturnsMoves, GatherMoves DEF HarnessEmits
<1> QED
  BY <1>1, <1>2, <1>3, <1>4, StepShape DEF Calm

LEMMA UnhintedReads ==
    ASSUME TypeOK, Unhinted
    PROVE  \A i \in Positions("hint.published")' :
              \/ i \in Positions("hint.published") /\ log'[i] = log[i]
              \/ log'[i].data = "evaluation"
<1>1. PICK b \in Seq(LogEvent) : log' = log \o b /\ \A i \in DOMAIN b : NoHint(b[i])
  BY DEF Unhinted
<1> QED
  BY <1>1, LogGrows DEF Positions, NoHint

\* What an emit publishes: hints of its attempt with keys that it did not know.
LEMMA HintedReads ==
    ASSUME IInv, NEW e \in emits, Hinted(e)
    PROVE  \A i \in DOMAIN log' \ DOMAIN log :
              /\ log'[i].type = "hint.published" /\ log'[i].attempt = e.attempt
              /\ log'[i].data \notin Published(e)
<1>1. TypeOK /\ e \in Emit /\ e.pc \in EmitAppending
  BY DEF IInv, CallsTyped, Hinted, EmitAppending
<1> DEFINE b == EmitBatch(e)
<1>2. b \in Seq(LogEvent) /\ log' = log \o b
  BY <1>1, EmitBatchPlain, RecordSets, SeqMonotonic DEF Hinted, EmitAppends
<1>3. b = [i \in DOMAIN FreshKeys(e) |->
             [Ev("hint.published", e.attempt) EXCEPT !.data = FreshKeys(e)[i]]]
  BY DEF EmitBatch, Hinted
<1>4. \A j \in DOMAIN b : /\ j \in DOMAIN FreshKeys(e) /\ b[j].data = FreshKeys(e)[j]
                          /\ b[j].type = "hint.published" /\ b[j].attempt = e.attempt
  BY <1>3 DEF Ev
<1> HIDE DEF b
<1>5. \A i \in DOMAIN log' \ DOMAIN log :
         i - Len(log) \in DOMAIN b /\ log'[i] = b[i - Len(log)]
  BY <1>1, <1>2, LogGrows
<1> QED
  BY <1>1, <1>4, <1>5, FreshKeysFresh

\* The hints of a step.
LEMMA NewHints ==
    ASSUME IInv, [Next]_vars, NEW i \in Positions("hint.published")'
    PROVE  \/ i \in Positions("hint.published") /\ log'[i] = log[i]
           \/ log'[i].data = "evaluation"
           \/ /\ i \in DOMAIN log' \ DOMAIN log
              /\ \E e \in emits : Hinted(e) /\ log'[i].attempt = e.attempt
<1>1. TypeOK
  BY DEF IInv
<1>2. CASE Unhinted
  BY <1>1, <1>2, UnhintedReads
<1>3. ASSUME NEW e \in emits, Hinted(e)
      PROVE  \/ i \in Positions("hint.published") /\ log'[i] = log[i]
             \/ i \in DOMAIN log' \ DOMAIN log /\ log'[i].attempt = e.attempt
  <2>1. CASE i \in DOMAIN log
    <3>1. PICK b \in Seq(LogEvent) : log' = log \o b
      BY StreamExtends
    <3> QED
      BY <1>1, <2>1, <3>1, LogGrows DEF Positions
  <2>2. CASE i \notin DOMAIN log
    BY <1>3, <2>2, HintedReads DEF Positions
  <2> QED
    BY <2>1, <2>2
<1> QED
  BY <1>2, <1>3, StepHints

LEMMA EmitsBegin ==
    ASSUME IInv, AttemptInv, HintInv, [Next]_vars
    PROVE  EmitsBegan' /\ EmitsApart'
<1>1. TypeOK /\ TasksTyped /\ emits \subseteq Emit
  BY Typed DEF IInv, CallsTyped
<1>2. PICK b \in Seq(LogEvent) : log' = log \o b
  BY StreamExtends
<1>3. /\ \A i \in DOMAIN log : i \in DOMAIN log' /\ log'[i] = log[i]
      /\ \A a : LateNow(a) => LateNow(a)'
  BY <1>1, <1>2, LogGrows, LateStays
<1>4. \A s \in Positions("run.started") :
         s \in Positions("run.started")' /\ log'[s].attempt = log[s].attempt
  BY <1>3 DEF Positions
<1>5. ASSUME NEW f \in emits'
      PROVE  \E s \in Positions("run.started")' : log'[s].attempt = f.attempt
  <2>1. ASSUME NEW e \in emits, f.attempt = e.attempt
        PROVE  \E s \in Positions("run.started")' : log'[s].attempt = f.attempt
    BY <1>4, <2>1 DEF HintInv, EmitsBegan
  <2>2. ASSUME NEW t \in Tasks, task[t].pc = "execute", f.attempt = AttemptOf(t)
        PROVE  \E s \in Positions("run.started")' : log'[s].attempt = f.attempt
    <3>1. f.attempt = Attempt(log)
      BY <2>2 DEF AttemptInv, InLast, In, Within
    <3>2. Attempt(log) # 0
      <4>1. task[t].snap.attempt \in Nat
        BY <1>1 DEF TasksTyped, TaskRec, Snap
      <4> QED
        BY <2>2, <3>1, <4>1 DEF AttemptOf
    <3> QED
      BY <1>1, <1>4, <3>1, <3>2, LastBegan
  <2> QED
    BY <2>1, <2>2, EmitSources
<1>6. ASSUME NEW f \in emits', NEW g \in emits'
      PROVE  f.attempt = g.attempt \/ LateNow(f.attempt)' \/ LateNow(g.attempt)'
  <2>1. ASSUME NEW e \in emits, NEW h \in emits
        PROVE  e.attempt = h.attempt \/ LateNow(e.attempt) \/ LateNow(h.attempt)
    BY DEF HintInv, EmitsApart
  <2>2. ASSUME NEW e \in emits, NEW t \in Tasks, task[t].pc = "execute"
        PROVE  e.attempt = AttemptOf(t) \/ LateNow(e.attempt)
    BY <2>2 DEF HintInv, TaskApart
  <2>3. ASSUME NEW t \in Tasks, NEW u \in Tasks, task[t].pc = "execute", task[u].pc = "execute"
        PROVE  AttemptOf(t) = AttemptOf(u)
    BY <2>3 DEF IInv, Alone, Live
  <2>4. \A h \in emits' : \/ \E e \in emits : h.attempt = e.attempt
                          \/ \E t \in Tasks : task[t].pc = "execute" /\ h.attempt = AttemptOf(t)
    BY EmitSources
  <2>5. f.attempt = g.attempt \/ LateNow(f.attempt) \/ LateNow(g.attempt)
    BY <2>1, <2>2, <2>3, <2>4
  <2> QED
    BY <1>3, <2>5
<1> QED
  BY <1>5, <1>6 DEF EmitsBegan, EmitsApart

LEMMA TasksStayApart ==
    ASSUME IInv, HintInv, [Next]_vars
    PROVE  TaskApart'
<1>1. TypeOK /\ TasksTyped
  BY Typed DEF IInv
<1>2. PICK b \in Seq(LogEvent) : log' = log \o b
  BY StreamExtends
<1>3. \A a : LateNow(a) => LateNow(a)'
  BY <1>1, <1>2, LateStays
<1> SUFFICES ASSUME NEW t \in Tasks, NEW f \in emits', task'[t].pc \in {"start", "execute"}
             PROVE  f.attempt = AttemptOf(t)' \/ LateNow(f.attempt)'
  BY DEF TaskApart
<1>4. CASE Loads(t)
  <2>1. f \in emits /\ UNCHANGED log /\ Status(log) \in Runnable
    BY <1>4, LoadsMoves DEF Loads
  <2>2. LateNow(f.attempt)
    BY <1>1, <2>1, RunnableIsLate DEF HintInv, EmitsBegan
  <2> QED
    BY <1>3, <2>2
<1>5. CASE task[t].pc \in {"start", "execute"} /\ task'[t].snap = task[t].snap
  <2>1. AttemptOf(t)' = AttemptOf(t)
    BY <1>5 DEF AttemptOf
  <2>2. ASSUME NEW e \in emits PROVE e.attempt = AttemptOf(t) \/ LateNow(e.attempt)
    BY <1>5 DEF HintInv, TaskApart
  <2>3. ASSUME NEW u \in Tasks, task[u].pc = "execute" PROVE u = t
    BY <1>5, <2>3 DEF IInv, Alone, Live
  <2> QED
    BY <1>3, <2>1, <2>2, <2>3, EmitSources
<1> QED
  BY <1>4, <1>5, TaskStarts

\* A hint that is appended is known to an attempt if it is its own or late.
LEMMA TasksKnow ==
    ASSUME IInv, HintInv, [Next]_vars
    PROVE  TaskKnows'
<1>1. TypeOK /\ TasksTyped
  BY Typed DEF IInv
<1>2. PICK b \in Seq(LogEvent) : log' = log \o b
  BY StreamExtends
<1>3. \A j \in DOMAIN log' \ DOMAIN log : LateNow(log'[j].attempt) => Late(j)'
  BY <1>1, <1>2, LateStays
<1> SUFFICES ASSUME NEW t \in Tasks, NEW keys, NEW a,
                    keys = task'[t].snap.keys, a = AttemptOf(t)',
                    task'[t].pc \in {"start", "execute"},
                    NEW i \in Positions("hint.published")'
             PROVE  Known(i, keys, a)'
  BY DEF TaskKnows, Known
<1>4. CASE Loads(t)
  <2>0. Snapshot.keys = HintKeys(log)
    BY DEF Snapshot
  <2>1. UNCHANGED log /\ keys = HintKeys(log)
    BY <1>4, <2>0, LoadsMoves
  <2>2. log'[i].data \in keys
    BY <2>1 DEF HintKeys, Positions
  <2> QED
    BY <2>2 DEF Known
<1>5. CASE task[t].pc \in {"start", "execute"} /\ task'[t].snap = task[t].snap
  <2>1. a = AttemptOf(t) /\ keys = task[t].snap.keys
    BY <1>5 DEF AttemptOf
  <2>2. CASE i \in Positions("hint.published")
    <3>1. Known(i, keys, a)
      BY <1>5, <2>1, <2>2 DEF HintInv, TaskKnows
    <3> QED
      BY <1>1, <1>2, <2>2, <3>1, KnownStays DEF Positions
  <2>3. CASE log'[i].data = "evaluation"
    BY <2>3 DEF Known
  <2>4. ASSUME NEW e \in emits, i \in DOMAIN log' \ DOMAIN log, log'[i].attempt = e.attempt
        PROVE  Known(i, keys, a)'
    <3>1. e.attempt = a \/ LateNow(e.attempt)
      BY <1>5, <2>1 DEF HintInv, TaskApart
    <3> QED
      BY <1>3, <2>4, <3>1 DEF Known
  <2> QED
    BY <2>2, <2>3, <2>4, NewHints
<1> QED
  BY <1>4, <1>5, TaskStarts

LEMMA EmitsKnow ==
    ASSUME IInv, HintInv, [Next]_vars
    PROVE  EmitKnows'
<1>1. TypeOK /\ TasksTyped
  BY Typed DEF IInv
<1>2. PICK b \in Seq(LogEvent) : log' = log \o b
  BY StreamExtends
<1>3. /\ \A j \in DOMAIN log' \ DOMAIN log : LateNow(log'[j].attempt) => Late(j)'
      /\ \A a : LateNow(a) => LateNow(a)'
  BY <1>1, <1>2, LateStays
<1> SUFFICES ASSUME NEW f \in emits', ~ LateNow(f.attempt)',
                    NEW i \in Positions("hint.published")'
             PROVE  Known(i, f.known, f.attempt)'
  BY DEF EmitKnows
<1>4. ASSUME NEW e \in emits, f.attempt = e.attempt, f.known = e.known
      PROVE  Known(i, f.known, f.attempt)'
  <2>1. ~ LateNow(e.attempt)
    BY <1>3, <1>4
  <2>2. CASE i \in Positions("hint.published")
    <3>1. Known(i, f.known, f.attempt)
      BY <1>4, <2>1, <2>2 DEF HintInv, EmitKnows
    <3> QED
      BY <1>1, <1>2, <2>2, <3>1, KnownStays DEF Positions
  <2>3. CASE log'[i].data = "evaluation"
    BY <2>3 DEF Known
  <2>4. ASSUME NEW h \in emits, i \in DOMAIN log' \ DOMAIN log, log'[i].attempt = h.attempt
        PROVE  Known(i, f.known, f.attempt)'
    <3>1. h.attempt = f.attempt \/ LateNow(h.attempt)
      BY <1>4, <2>1 DEF HintInv, EmitsApart
    <3> QED
      BY <1>3, <2>4, <3>1 DEF Known
  <2> QED
    BY <2>2, <2>3, <2>4, NewHints
<1>5. ASSUME NEW t \in Tasks, task[t].pc = "execute", UNCHANGED <<log, task>>,
             f.attempt = AttemptOf(t), f.known = task[t].snap.keys
      PROVE  Known(i, f.known, f.attempt)'
  <2>1. i \in Positions("hint.published")
    BY <1>5 DEF Positions
  <2>2. Known(i, f.known, f.attempt)
    BY <1>5, <2>1 DEF HintInv, TaskKnows
  <2> QED
    BY <1>1, <1>2, <2>1, <2>2, KnownStays DEF Positions
<1> QED
  BY <1>4, <1>5, EmitSources

\* A key is repeated within what is appended, or was known, or is late.
LEMMA RepeatsAreLate ==
    ASSUME IInv, HintInv, [Next]_vars
    PROVE  HintsRepeatOnlyLate'
<1>1. TypeOK
  BY DEF IInv
<1>2. PICK b \in Seq(LogEvent) : log' = log \o b
  BY StreamExtends
<1>3. /\ Len(log) \in Nat /\ DOMAIN log = 1 .. Len(log) /\ DOMAIN log' = 1 .. Len(log')
      /\ \A i \in DOMAIN log : i \in DOMAIN log' /\ log'[i] = log[i]
      /\ log' \in Seq(LogEvent)
  BY <1>1, <1>2, LogGrows
<1>4. Len(log') \in Nat
  BY <1>3, LenProperties
<1>5. /\ \A i \in DOMAIN log : Late(i) => Late(i)'
      /\ \A j \in DOMAIN log' \ DOMAIN log : LateNow(log'[j].attempt) => Late(j)'
  BY <1>1, <1>2, LateStays
<1> SUFFICES ASSUME NEW i \in Positions("hint.published")',
                    NEW j \in Positions("hint.published")', i < j,
                    log'[i].data = log'[j].data, log'[i].data # "evaluation"
             PROVE  OneDirective(i, j)' \/ Late(i)' \/ Late(j)'
  BY DEF HintsRepeatOnlyLate
<1>6. i \in DOMAIN log' /\ j \in DOMAIN log' /\ i \in Nat /\ j \in Nat
  BY <1>3, <1>4 DEF Positions
<1>7. CASE j \in DOMAIN log
  <2>1. i \in DOMAIN log /\ \A k \in i .. j : k \in DOMAIN log
    BY <1>3, <1>6, <1>7
  <2>2. i \in Positions("hint.published") /\ j \in Positions("hint.published")
    BY <1>3, <1>7, <2>1 DEF Positions
  <2>3. OneDirective(i, j) \/ Late(i) \/ Late(j)
    BY <1>3, <1>7, <2>1, <2>2 DEF HintInv, HintsRepeatOnlyLate
  <2>4. OneDirective(i, j) => OneDirective(i, j)'
    BY <1>3, <2>1 DEF OneDirective
  <2> QED
    BY <1>5, <1>7, <2>1, <2>3, <2>4
<1>8. CASE j \notin DOMAIN log
  <2>1. PICK e \in emits : Hinted(e)
    BY <1>8, NewHints DEF Positions
  <2>2. \A k \in DOMAIN log' \ DOMAIN log :
           /\ log'[k].type = "hint.published" /\ log'[k].attempt = e.attempt
           /\ log'[k].data \notin Published(e)
    BY <2>1, HintedReads
  <2>3. CASE i \notin DOMAIN log
    <3>1. \A k \in i .. j : k \in DOMAIN log' \ DOMAIN log
      BY <1>3, <1>4, <1>6, <2>3
    <3> QED
      BY <1>6, <2>2, <2>3, <3>1 DEF OneDirective
  <2>4. CASE i \in DOMAIN log
    <3>1. log'[i] = log[i] /\ i \in Positions("hint.published")
      BY <1>3, <2>4 DEF Positions
    <3>2. log[i].data \notin Published(e)
      BY <1>6, <1>8, <2>2, <3>1
    <3>3. log[i].attempt # e.attempt /\ log[i].data \notin e.known
      BY <3>1, <3>2 DEF Published, OfAttempt, Positions
    <3>4. LateNow(e.attempt) \/ Known(i, e.known, e.attempt)
      BY <3>1 DEF HintInv, EmitKnows
    <3>5. CASE LateNow(e.attempt)
      BY <1>5, <1>6, <1>8, <2>2, <3>5
    <3>6. CASE Known(i, e.known, e.attempt)
      <4>1. Late(i)
        BY <3>1, <3>3, <3>6 DEF Known
      <4> QED
        BY <1>5, <2>4, <4>1
    <3> QED
      BY <3>4, <3>5, <3>6
  <2> QED
    BY <2>3, <2>4
<1> QED
  BY <1>7, <1>8

LEMMA InitHints ==
    ASSUME Init
    PROVE  HintInv
<1>1. log = <<>> /\ DOMAIN log = {} /\ emits = {} /\ \A t \in Tasks : task[t].pc = "done"
  BY NoTaskTyped DEF Init
<1> QED
  BY <1>1 DEF HintInv, EmitsBegan, EmitsApart, TaskApart, EmitKnows, TaskKnows,
     HintsRepeatOnlyLate, Positions

(* The inductive invariant on hints, whether or not emits outlive their    *)
(* attempts: an attempt and its emits know every hint on record, their     *)
(* own included (published_hint_keys of _execute_attempt), but for those   *)
(* of emits that went on after the run was scheduled anew.                 *)
THEOREM HintInvariance == Spec => []HintInv
<1>1. Init => HintInv
  BY InitHints
<1>2. IInv /\ AttemptInv /\ HintInv /\ [Next]_vars => HintInv'
  BY EmitsBegin, TasksStayApart, TasksKnow, EmitsKnow, RepeatsAreLate DEF HintInv
<1> QED
  BY <1>1, <1>2, EngineInvariance, AttemptInvariance, PTL DEF Spec

(* How far the deduplication of hints goes, for any harness and any        *)
(* advisor: a key is published again only within one directive, or by an   *)
(* emit that went on after its attempt was over and the run scheduled      *)
(* anew, whatever pauses, retries and recoveries come in between.          *)
THEOREM RepeatedHintsAreLate == Spec => []HintsRepeatOnlyLate
<1>1. HintInv => HintsRepeatOnlyLate
  BY DEF HintInv
<1> QED
  BY <1>1, HintInvariance, PTL

-----------------------------------------------------------------------------
(* What replay reads.                                                      *)

(* Nothing is in flight before the run exists, and its stream begins with  *)
(* its creation.                                                           *)
AtRest ==
    /\ \A t \in Tasks : task[t].pc = "done"
    /\ \A r \in Requests : request[r].pc = "idle"
    /\ emits = {} /\ grades = {}
BeginInv ==
    /\ log = <<>> => AtRest
    /\ log # <<>> => log[1].type = "run.created"

(* Before the run exists there is nothing to do but to create it.          *)
LEMMA NothingBefore ==
    ASSUME AtRest, log = <<>>, [Next]_vars
    PROVE  CreateRun \/ UNCHANGED vars
<1>1. ASSUME NEW t \in Tasks, TaskNext(t) PROVE FALSE
  <2>1. task[t].pc = "done" /\ "done" \notin Appending
    BY DEF AtRest, Appending
  <2> QED
    BY <1>1, <2>1 DEF TaskNext, Load, TaskReadsVersion, TaskAppends, TaskConflicts,
          RecordInternalFailure, Gather, HarnessEmits, HarnessReturns, HarnessRaises,
          AttemptTimesOut, AggregateRaises
<1>2. ASSUME NEW r \in Requests, RequestNext(r) PROVE FALSE
  <2>1. request[r].pc = "idle"
    BY DEF AtRest
  <2> QED
    BY <1>2, <2>1 DEF RequestNext, Arrives, TakeStartLock, CreateTask, CheckStatus,
          RequestReadsVersion, RequestAppends, RequestConflicts
<1>3. ~ Stop
  BY DEF Stop, AtRest, Live
<1>4. emits = {} /\ grades = {}
  BY DEF AtRest
<1> QED
  BY <1>1, <1>2, <1>3, <1>4 DEF Next

LEMMA BeginKeeps ==
    ASSUME IInv, BeginInv, [Next]_vars
    PROVE  BeginInv'
<1>1. log \in Seq(LogEvent)
  BY LogIsStream DEF IInv
<1>2. CASE log = <<>>
  <2>1. AtRest
    BY <1>2 DEF BeginInv
  <2>2. CASE CreateRun
    <3>1. log' = <<Ev("run.created", 0)>>
      BY <2>2 DEF CreateRun
    <3>2. log' # <<>> /\ log'[1].type = "run.created"
      BY <3>1 DEF Ev
    <3> QED
      BY <3>2 DEF BeginInv
  <2>3. CASE UNCHANGED vars
    BY <2>3 DEF vars, BeginInv, AtRest
  <2> QED
    BY <1>2, <2>1, <2>2, <2>3, NothingBefore
<1>3. CASE log # <<>>
  <2>1. PICK b \in Seq(LogEvent) : log' = log \o b
    BY StreamExtends
  <2>2. Len(log) \in Nat \ {0} /\ 1 \in DOMAIN log
    BY <1>1, <1>3, EmptySeq, LenProperties
  <2>3. log' \in Seq(LogEvent) /\ 1 \in DOMAIN log' /\ log'[1] = log[1]
    BY <1>1, <2>1, <2>2, Appended
  <2>4. log' # <<>>
    BY <2>3, EmptySeq
  <2> QED
    BY <1>3, <2>3, <2>4 DEF BeginInv
<1> QED
  BY <1>2, <1>3

(* engine.create_run: whatever is in flight came after the run, and its    *)
(* stream begins with run.created, the event that replay skips.            *)
THEOREM BeginInvariance == Spec => []BeginInv
<1>1. Init => BeginInv
  BY NoTaskTyped, NoRequestTyped DEF Init, BeginInv, AtRest
<1>2. IInv /\ BeginInv /\ [Next]_vars => BeginInv'
  BY BeginKeeps
<1> QED
  BY <1>1, <1>2, EngineInvariance, PTL DEF Spec

(* RunSnapshot.replay: the status, the attempt, the score and the override *)
(* its loop computes are those of the last event that says them, the usage *)
(* and the keys of the hints those of all events, for streams of any       *)
(* length.                                                                 *)
THEOREM ReplayReadsLastWriters == Spec => []ReplayIsLastWriter
<1>1. ASSUME IInv, BeginInv PROVE ReplayIsLastWriter
  <2>1. SUFFICES ASSUME log # <<>>
                 PROVE  LET state == Replay(log) IN
                        /\ state.status = Status(log)
                        /\ state.attempt = Attempt(log)
                        /\ \A u \in Resources : state.used[u] = Used(log, u)
                        /\ state.score = Score(log)
                        /\ state.override = Override(log)
                        /\ {state.hints[i].data : i \in DOMAIN state.hints} = HintKeys(log)
    BY DEF ReplayIsLastWriter
  <2>2. log \in Seq(EventSet(EventTypes, Words)) /\ log[1].type = "run.created"
    BY <1>1, <2>1, LogIsStream DEF IInv, BeginInv, LogEvent
  <2>3. Agrees(Replay(log), log, EventSet(EventTypes, Words))
    BY <2>1, <2>2, ReplayAgrees
  <2>4. \A u \in Resources : UsedOf(log)[u] = Used(log, u)
    BY DEF UsedOf
  <2> DEFINE state == Replay(log)
  <2>5. /\ state.status = Status(log) /\ state.attempt = Attempt(log)
        /\ state.used = UsedOf(log) /\ state.score = Score(log)
        /\ state.override = Override(log)
        /\ {state.hints[i].data : i \in DOMAIN state.hints} = HintKeys(log)
    BY <2>3 DEF Agrees
  <2> QED
    BY <2>4, <2>5
<1>2. IInv /\ BeginInv => ReplayIsLastWriter
  BY <1>1
<1> QED
  BY <1>2, EngineInvariance, BeginInvariance, PTL

(* Every step of a task, an emit, a grader, a request or a crash leaves    *)
(* the stream of the run as it is or appends to it: what a version has     *)
(* told its reader once it tells him for good (event_store.py, append, as  *)
(* every caller in engine.py uses it).                                     *)
THEOREM StreamIsAppendOnly == Spec => [][\E b \in Seq(LogEvent) : log' = log \o b]_log
<1>1. IInv /\ [Next]_vars => [\E b \in Seq(LogEvent) : log' = log \o b]_log
  BY StreamExtends
<1> QED
  BY <1>1, EngineInvariance, PTL DEF Spec

-----------------------------------------------------------------------------
(* What promotion counts as evidence.                                      *)

\* An evaluation belongs to the attempt that had begun last.
Begun(j) ==
    \E s \in Positions("run.started") :
        /\ s < j /\ log[s].attempt = log[j].attempt
        /\ \A k \in Positions("run.started") : ~(s < k /\ k < j)
EvaluationsBegun == \A j \in Positions("evaluation.completed") : Begun(j)

LEMMA BegunStays ==
    ASSUME TypeOK, NEW b \in Seq(LogEvent), log' = log \o b,
           NEW j \in DOMAIN log, Begun(j)
    PROVE  Begun(j)'
<1>1. /\ Len(log) \in Nat /\ DOMAIN log = 1 .. Len(log) /\ DOMAIN log' = 1 .. Len(log')
      /\ \A i \in DOMAIN log : i \in DOMAIN log' /\ log'[i] = log[i]
      /\ log' \in Seq(LogEvent)
  BY LogGrows
<1>2. Len(log') \in Nat
  BY <1>1, LenProperties
<1>3. PICK s \in Positions("run.started") :
         /\ s < j /\ log[s].attempt = log[j].attempt
         /\ \A k \in Positions("run.started") : ~(s < k /\ k < j)
  BY DEF Begun
<1>4. s \in Positions("run.started")' /\ log'[s].attempt = log'[j].attempt
  BY <1>1, <1>3 DEF Positions
<1>5. ASSUME NEW k \in Positions("run.started")', k < j PROVE k \in Positions("run.started")
  BY <1>1, <1>2, <1>5 DEF Positions
<1> QED
  BY <1>3, <1>4, <1>5 DEF Begun

LEMMA EvaluationsKeep ==
    ASSUME IInv, AttemptInv, EvaluationsBegun, [Next]_vars
    PROVE  EvaluationsBegun'
<1>1. TypeOK /\ TasksTyped
  BY Typed DEF IInv
<1>2. PICK b \in Seq(LogEvent) : log' = log \o b
  BY StreamExtends
<1>3. \A j \in DOMAIN log : log'[j] = log[j] /\ (Begun(j) => Begun(j)')
  BY <1>1, <1>2, LogGrows, BegunStays
<1> SUFFICES ASSUME NEW j \in Positions("evaluation.completed")' PROVE Begun(j)'
  BY DEF EvaluationsBegun
<1>4. CASE j \in DOMAIN log
  BY <1>3, <1>4 DEF EvaluationsBegun, Positions
<1>5. ASSUME NEW t \in Tasks, Appends(t), task[t].pc = "evaluated", j \notin DOMAIN log
      PROVE  Begun(j)'
  <2>1. PICK x \in LogEvent : log' = log \o <<x>> /\ x.attempt = AttemptOf(t)
    BY <1>5, TaskEvent
  <2>2. /\ Len(log) \in Nat /\ DOMAIN log = 1 .. Len(log) /\ Len(log') = Len(log) + 1
        /\ DOMAIN log' = DOMAIN log \cup {Len(log')}
        /\ log'[Len(log')] = x
        /\ \A i \in DOMAIN log : log'[i] = log[i] /\ i < Len(log')
    BY <1>1, <2>1, OneMore
  <2>3. j = Len(log') /\ x.type = "evaluation.completed"
    BY <1>5, <2>2 DEF Positions
  <2>4. x.attempt = Attempt(log) /\ Attempt(log) # 0
    <3>1. task[t].snap.attempt \in Nat
      BY <1>1 DEF TasksTyped, TaskRec, Snap
    <3>2. AttemptOf(t) = Attempt(log)
      BY <1>5 DEF AttemptInv, InLast, In, Within, Grading
    <3> QED
      BY <2>1, <3>1, <3>2 DEF AttemptOf
  <2>5. PICK s \in Positions("run.started") :
           /\ log[s].attempt = Attempt(log)
           /\ \A k \in Positions("run.started") : k =< s
    BY <1>1, <2>4, LastBegan
  <2>6. s \in Positions("run.started")' /\ s < j /\ log'[s].attempt = log'[j].attempt
    BY <2>2, <2>3, <2>4, <2>5 DEF Positions
  <2>7. \A k \in Positions("run.started")' : k \in Positions("run.started")
    BY <2>2, <2>3 DEF Positions
  <2>8. \A k \in Positions("run.started") : k \in Nat /\ ~(s < k)
    BY <2>2, <2>5 DEF Positions
  <2> QED
    BY <2>6, <2>7, <2>8 DEF Begun
<1>6. CASE Uneventful /\ j \notin DOMAIN log
  BY <1>1, <1>6, LogGrows DEF Uneventful, Turns, Positions
<1>7. ASSUME NEW x \in LogEvent, log' = log \o <<x>>, x.type # "evaluation.completed"
      PROVE  j \in DOMAIN log
  BY <1>1, <1>7, OneMore DEF Positions
<1>8. ASSUME NEW x \in LogEvent, NEW y \in LogEvent, log' = log \o <<x, y>>,
             x.type # "evaluation.completed", y.type # "evaluation.completed"
      PROVE  j \in DOMAIN log
  BY <1>1, <1>8, TwoMore DEF Positions
<1>9. ASSUME NEW t \in Tasks, Appends(t), task[t].pc # "evaluated"
      PROVE  j \in DOMAIN log
  <2>1. task[t].pc \in {"start", "completed", "evaluate", "verdict"}
    BY <1>9 DEF Appends
  <2>2. \/ \E x \in LogEvent : log' = log \o <<x>> /\ x.type # "evaluation.completed"
        \/ \E x, y \in LogEvent : /\ log' = log \o <<x, y>>
                                  /\ x.type # "evaluation.completed"
                                  /\ y.type # "evaluation.completed"
    <3>1. \A x : Quiet(x) => x.type # "evaluation.completed"
      BY DEF Quiet, Loud
    <3>2. CASE task[t].pc = "verdict"
      <4>1. \/ \E x \in LogEvent :
                  /\ log' = log \o <<x>>
                  /\ \/ Quiet(x)
                     \/ /\ task[t].arg = "pass" /\ x.type = "run.succeeded"
                        /\ x.attempt = AttemptOf(t) /\ x.data = "graders"
            \/ /\ task[t].arg = "retry"
               /\ \E x, y \in LogEvent :
                     /\ log' = log \o <<x, y>> /\ x.type = "hint.published"
                     /\ y.type = "run.retry_scheduled" /\ y.attempt = AttemptOf(t) + 1
        BY <1>9, <3>2, TaskEvent
      <4>2. ASSUME NEW x, Quiet(x) \/ x.type = "run.succeeded"
            PROVE  x.type # "evaluation.completed"
        BY <3>1, <4>2
      <4> QED
        BY <4>1, <4>2
    <3>3. CASE task[t].pc \in {"start", "completed", "evaluate"}
      <4>1. \E x \in LogEvent : /\ log' = log \o <<x>>
                                /\ x.type \in {"run.started", "agent.execution.completed",
                                               "evaluation.started"}
        BY <1>9, <3>3, TaskEvent
      <4> QED
        BY <4>1
    <3> QED
      BY <2>1, <3>2, <3>3
  <2> QED
    BY <1>7, <1>8, <2>2
<1>10. ASSUME NEW e \in emits, Shown(e) PROVE j \in DOMAIN log
  <2>1. \E x \in LogEvent :
           log' = log \o <<x>> /\ x.type \in {"agent.event", "supervisor.action_requested"}
    BY <1>10, ShownEvent
  <2> QED
    BY <1>7, <2>1
<1>11. ASSUME NEW r \in Requests, Reopens(r) PROVE j \in DOMAIN log
  <2>1. \/ \E x \in LogEvent : log' = log \o <<x>> /\ x.type = "run.resumed"
        \/ \E x, y \in LogEvent :
              /\ log' = log \o <<x, y>>
              /\ x.type \in {"run.recovered", "hitl.resolved"}
              /\ y.type \in {"run.retry_scheduled", "run.succeeded"}
    BY <1>11, ReopenEvents
  <2> QED
    BY <1>7, <1>8, <2>1
<1>12. ASSUME UNCHANGED log PROVE j \in DOMAIN log
  BY <1>12 DEF Positions
<1>13. ASSUME NEW t \in Tasks,
              Loads(t) \/ HarnessEmits(t) \/ HarnessReturns(t) \/ Gather(t)
       PROVE  UNCHANGED log
  BY <1>13, LoadsMoves, ReturnsMoves, GatherMoves DEF HarnessEmits
<1>14. Calm => Uneventful
  BY <1>1, UneventfulLogs DEF Calm
<1> QED
  BY <1>4, <1>5, <1>6, <1>9, <1>10, <1>11, <1>12, <1>13, <1>14, StepShape

LEMMA EvaluationInvariance == Spec => []EvaluationsBegun
<1>1. Init => EvaluationsBegun
  BY DEF Init, EvaluationsBegun, Positions
<1>2. IInv /\ AttemptInv /\ EvaluationsBegun /\ [Next]_vars => EvaluationsBegun'
  BY EvaluationsKeep
<1> QED
  BY <1>1, <1>2, EngineInvariance, AttemptInvariance, PTL DEF Spec

\* The last event that says a status is a success on grades: what it says of
\* the score and the attempt is what the passing evaluation said.
LEMMA GradedSuccess ==
    ASSUME IInv, SuccessInv, EvaluationsBegun,
           Status(log) = "succeeded", ~ Override(log)
    PROVE  /\ Score(log) = "passed"
           /\ log[LastOf(log, {"evaluation.completed"})].attempt = Attempt(log)
<1>1. TypeOK /\ log \in Seq(LogEvent)
  BY LogIsStream DEF IInv
<1>2. Len(log) \in Nat /\ DOMAIN log = 1 .. Len(log)
  BY <1>1, LenProperties
<1> DEFINE at == {n \in DOMAIN log : log[n].type \in StatusTypes}
<1>3. PICK i \in Nat : /\ i = LastOf(log, StatusTypes) /\ i \in DOMAIN log
                       /\ log[i].type = "run.succeeded"
                       /\ \A n \in at : n =< i
  <2>1. /\ at = {} => LastOf(log, StatusTypes) = 0
        /\ at # {} => /\ LastOf(log, StatusTypes) \in at
                      /\ \A n \in at : n =< LastOf(log, StatusTypes)
    BY <1>1, LastOfIs
  <2>2. at # {}
    BY <2>1 DEF Status
  <2> DEFINE last == LastOf(log, StatusTypes)
  <2>3. last \in DOMAIN log /\ log[last].type \in StatusTypes /\ last # 0 /\ last \in Nat
    BY <1>2, <2>1, <2>2
  <2>4. StatusAfter(log[last].type) = "succeeded"
    BY <2>3 DEF Status
  <2>5. log[last].type = "run.succeeded"
    <3> DEFINE type == log[last].type
    <3>1. type \in StatusTypes /\ StatusAfter(type) = "succeeded"
      BY <2>3, <2>4
    <3> HIDE DEF type
    <3>2. type = "run.succeeded"
      BY <3>1 DEF StatusTypes, StatusAfter
    <3> QED
      BY <3>2 DEF type
  <2> QED
    BY <2>1, <2>2, <2>3, <2>5
<1>4. LastOf(log, {"run.succeeded"}) = i
  <2> DEFINE ss == {n \in DOMAIN log : log[n].type \in {"run.succeeded"}}
             last == LastOf(log, {"run.succeeded"})
  <2>1. i \in ss /\ \A n \in ss : n \in at /\ n \in Nat
    BY <1>2, <1>3 DEF StatusTypes
  <2>2. last \in ss /\ \A n \in ss : n =< last
    BY <1>1, <2>1, LastOfIs
  <2> HIDE DEF last, ss, at
  <2>3. last = i
    BY <1>3, <2>1, <2>2
  <2> QED
    BY <2>3 DEF last
<1>5. log[i].data # "human"
  BY <1>2, <1>3, <1>4 DEF Override
<1>6. PICK j \in OfAttempt(log[i].attempt, "evaluation.completed") :
         /\ j < i /\ log[j].data = "passed"
         /\ \A type \in Turns : \A k \in Positions(type) : ~(j < k /\ k < i)
  BY <1>3, <1>5 DEF SuccessInv, EarnedAt, Positions
<1>7. j \in DOMAIN log /\ log[j].type = "evaluation.completed" /\ j \in Nat
  BY <1>2, <1>6 DEF OfAttempt
<1>8. \A type \in Turns : \A k \in Positions(type) : k \in Nat /\ k =< j
  <2> TAKE type \in Turns
  <2> TAKE k \in Positions(type)
  <2>1. k \in DOMAIN log /\ log[k].type = type
    BY DEF Positions
  <2>2. k \in at /\ k # i /\ k \in Nat
    BY <1>2, <1>3, <2>1 DEF Turns, StatusTypes
  <2>3. k < i
    BY <1>3, <2>2
  <2>4. ~(j < k)
    BY <1>6, <2>3
  <2> QED
    BY <1>7, <2>2, <2>4
<1>9. LastOf(log, {"evaluation.completed"}) = j
  <2> DEFINE es == {n \in DOMAIN log : log[n].type \in {"evaluation.completed"}}
             last == LastOf(log, {"evaluation.completed"})
  <2>1. j \in es /\ \A n \in es : n =< j /\ n \in Nat
    BY <1>7, <1>8 DEF Turns, Positions
  <2>2. last \in es /\ \A n \in es : n =< last
    BY <1>1, <2>1, LastOfIs
  <2> HIDE DEF last, es
  <2>3. last = j
    BY <2>1, <2>2
  <2> QED
    BY <2>3 DEF last
<1>10. Score(log) = "passed"
  <2>1. j # 0
    BY <1>2, <1>7
  <2> QED
    BY <1>6, <1>9, <2>1 DEF Score
<1>11. log[j].attempt = Attempt(log)
  <2>1. PICK s \in Positions("run.started") :
           /\ s < j /\ log[s].attempt = log[j].attempt
           /\ \A k \in Positions("run.started") : ~(s < k /\ k < j)
    BY <1>7 DEF EvaluationsBegun, Begun, Positions
  <2>2. \A k \in Positions("run.started") : k \in Nat /\ k =< j /\ k # j
    BY <1>7, <1>8 DEF Turns, Positions
  <2>3. s \in Starts(log) /\ \A k \in Starts(log) : k \in Positions("run.started")
    BY <2>1 DEF Starts, Positions
  <2>4. \A k \in Starts(log) : k =< s
    BY <1>7, <2>1, <2>2, <2>3
  <2> QED
    BY <1>1, <2>1, <2>3, <2>4, AttemptIs DEF LogEvent
<1> QED
  BY <1>9, <1>10, <1>11

(* Evidence of success is evidence of grades, for any interleaving of      *)
(* attempts, decisions, pauses and recoveries: of a run that promotion     *)
(* would count and that succeeded, the score it counts is the passing one  *)
(* of the attempt the projection names.                                    *)
THEOREM EvidenceIsGraded == Spec => []BenchmarkIsGraded
<1>1. ASSUME IInv, SuccessInv, EvaluationsBegun, BeginInv PROVE BenchmarkIsGraded
  <2> SUFFICES ASSUME Status(log) = "succeeded", ~ Replay(log).override
               PROVE  /\ Replay(log).score = "passed"
                      /\ log[LastOf(log, {"evaluation.completed"})].attempt
                            = Replay(log).attempt
    BY DEF BenchmarkIsGraded
  <2>1. log # <<>>
    <3>1. ASSUME log = <<>> PROVE FALSE
      <4>1. DOMAIN log = {}
        BY <3>1
      <4>2. LastOf(log, StatusTypes) = 0
        BY <4>1 DEF LastOf
      <4> QED
        BY <4>2 DEF Status
    <3> QED
      BY <3>1
  <2>2. log \in Seq(EventSet(EventTypes, Words)) /\ log[1].type = "run.created"
    BY <1>1, <2>1, LogIsStream DEF IInv, BeginInv, LogEvent
  <2>3. Agrees(Replay(log), log, EventSet(EventTypes, Words))
    BY <2>1, <2>2, ReplayAgrees
  <2>4. /\ Replay(log).score = Score(log) /\ Replay(log).attempt = Attempt(log)
        /\ Replay(log).override = Override(log)
    BY <2>3 DEF Agrees
  <2> QED
    BY <1>1, <2>4, GradedSuccess
<1>2. IInv /\ SuccessInv /\ EvaluationsBegun /\ BeginInv => BenchmarkIsGraded
  BY <1>1
<1> QED
  BY <1>2, EngineInvariance, SuccessInvariance, EvaluationInvariance, BeginInvariance, PTL
=============================================================================
