# LoopGraph Supervisor: TLA+ models and proofs

LoopGraph Supervisor is a control plane that runs an agent harness attempt by attempt,
grades what it did, and retries, asks a human, or ends the run. Every run is an
append-only event stream; its state is what `RunSnapshot.replay` computes from it. The
models in this directory follow the code under `src/src/loopgraph_supervisor/` (paths
below are relative to it); TLC checks them on small instances and TLAPS proves the
theorems about the core for every value of the constants.

## 1. Inventory

| Component | State it keeps | Operations | Interacts with |
|---|---|---|---|
| run event store, `infrastructure/event_store.py` | table `run_events` with unique (run, sequence); one asyncio lock per run and process | `append(expected_version)`, `load`, `version` | everything that changes a run |
| run projection, `domain/runs.py` | none: a fold over the stream | `replay` | every decision reads its result |
| supervisor engine, `application/engine.py` | local variables of the attempt in progress | `create_run`, `run_until_blocked`, `emit`, `pause`, `resume`, `recover_incomplete`, `resolve_human`, `record_internal_failure` | store, harness, graders, advisor, action handler |
| task manager, `application/tasks.py` | `_tasks`, `_errors`, `_start_lock`, a semaphore | `start`, `_run`, `is_active`, `shutdown` | runs the engine; called by API and team |
| supervisor agent and observation policy, `application/observer.py` | none | `review`, `should_review` | called from `emit` |
| action router, `application/actions.py` | none | `handle` | team coordinator, version store, mutator |
| team coordinator, `application/team.py`, `domain/team.py` | one asyncio lock per parent; the team is in the parent's stream | `spawn`, `TeamContext.replay` | store, engine, task manager |
| graders and grading policy, `grading/` | none | `grade`, `aggregate` | called concurrently by the engine |
| harnesses, `harness/` | a subprocess or an SDK thread | `execute`, `close` | call `emit` back |
| agent version store, `infrastructure/version_store.py` | tables of versions, active pointers, history; one lock per agent | `create_initial`, `create_candidate`, `promote`, `rollback` | API, action router |
| promotion policy, bundle mutator, `evolution/` | none | `evaluate`, `apply` | API, action router |
| memory store, `infrastructure/memory_store.py` | table of memories, no lock | `write`, `set_status`, `for_context` | API, engine |
| HTTP API, `api/app.py` | none | one coroutine per request; the event stream generator | all of the above |
| redaction, configuration, CLI, database bootstrap | none at run time | pure functions, wiring | |

What is hard in this code is concurrency between awaits. It is one asyncio process (the
run ownership of the MVP is documented as single-process), so a step is what runs between
two awaits; but nearly every operation reads a snapshot, awaits, reads the stream version,
awaits, and appends against that version. The compare-and-append protects the second gap
and nothing protects the first. To this come graders that fail concurrently, an `emit`
that outlives the attempt that was cut off, calls that are cancelled between two appends,
a process that dies with runs in flight, and stores whose reads and writes are separate
statements. PROJECT.json lists the hazards with their lines and the properties aimed at them.

What makes each component correct: the store keeps a stream gapless and behaves as an
atomic compare-and-append; the projection is a last-writer reading of the stream; the
engine executes a run with one task at a time, never reuses an attempt number, keeps its
retry, step, token and cost bounds, and succeeds a run only on evidence of the attempt
itself or a human's word; every task ends; a team is bounded, its members are runs, and no
run is queued twice; the version history explains the store, and a promotion rests on evidence against the version
it replaced. A reader of a run gets its stream without gap or repetition and is told the
end; a call of a harness ends, leaves no process behind, and returns a result only if the
protocol was kept and its events are stored; a grade fails closed on its required
constraints; a mutated bundle stays within the scope of its lineage; the promotion policy
favours the better version; reviews come in their rhythm.

## 2. Modules and how they correspond to the code

| Module | Models | Variables and actions |
|---|---|---|
| `RunStream` | the promise of the store: compare-and-append on one stream | abstract specification |
| `EventStore` | `SqlEventStore.append` in several processes | `rows`, `lock`, `call`; one action per suspension: `Invoke`, `Acquire`, `CheckVersion`, `Insert`, `Recheck`, `DatabaseError`, `Return`, `Crash`; `ImplementsRunStream` is the refinement |
| `RunReplay` | `RunSnapshot.replay` | `Replay` is the code's loop as a fold, `Status`, `Attempt`, `Used` (tokens and cost), `Score`, `Override`, `HintKeys` the closed forms the engine modules use |
| `EngineState` | what the actors of one run share | `log` (the stream), `task`, `registered`, `failure`, `startLock` (the task manager), `emits`, `grades`, `request` (calls in flight) |
| `EngineAttempt` | `run_until_blocked`, `_execute_attempt`, `_evaluate`, `_safe_grade`, `record_internal_failure`, `RunTaskManager._run` | `Load`, `TaskReadsVersion`, `TaskAppends`, `TaskConflicts`, `RecordInternalFailure`, `Harness...`, `AttemptTimesOut`, `Grader...`, `Gather`, which may meet weights that `aggregate` refuses (`AggregateRaises`) |
| `EngineSupervision` | the `emit` closure | `EmitReadsVersion`, `EmitAppends`, `EmitConflicts`, `Advisor...`, `Handler...`; without an action handler (`HasHandler`) a requested action stays a request |
| `EngineRequests` | the run endpoints, `RunTaskManager.start` | `CreateRun`, `Arrives`, `TakeStartLock`, `CreateTask`, `CheckStatus`, `RequestReadsVersion`, `RequestAppends`, `RequestConflicts` |
| `SupervisorEngine` | the three together, and `Stop` (crash or shutdown) | `Init`, `Next`, fairness, properties |
| `TeamCoordinator` | `TeamCoordinator.spawn` over several runs, `TeamContext.replay`, the semaphore of the task manager | `stream`, `job`, `queue`, `lock`, `call`; one action per await of `spawn`, and `OperatorStarts`, the start of any run that exists |
| `VersionStore` | `SqlAgentVersionStore` for one agent and the endpoints that call it | `versions`, `pointer`, `history`, `lock`, `call`; `Ask...`, `Acquire`, `Read`, `Commit`, `Abort` |
| `EventStream` | `get_events` and the generator of `stream_events` | `log`, `conn` (the request of each client), `got` (what it received); `Connect`, `LoadPage`, `SendEvent`, `AnswerPage`, `TakeSnapshot`, `SendEnd`, `Disconnect`, `Write` |
| `MemoryStore` | `SqlMemoryStore` and the memory endpoints | `row`, `review` (requests between their read and their write), `given`; `Write`, `AskStatus`, `ReadStatus`, `CommitStatus`, `LoadMemories` |
| `Subprocess` | a process with three pipes, as its caller sees it (external) | `child`, `stdout`, `taken`, `stderr`; `Child...`, `HeirsExit`, and `Spawn`, `Kill`, `CollectStderr` of the callers |
| `CommandHarness` | `CommandHarnessAdapter.execute` | `call` (program counter and outcome), `stored` (what its sink stored); one action per await |
| `ScriptGrader` | `ScriptGrader.evaluate`, `_communicate_bounded` | `call`; one action per await, its own deadline |
| `DshHarness` | `DeepSeekHarnessAdapter.execute` and the SDK thread | `call`, `sdk`, `thread`, `flight` (emits on the loop), `lost`, `waived`; `Notify`, `Emit...`, `Close...`, `Quiesce...`, `Cancel` |
| `ExternalCall` | a call that leaves the process: of the adapter the registry names, or of a script grader | `callee`; the three instantiated over one `call` |
| `Grading` | `RuleGrader.evaluate`, `GradingPolicy.aggregate` | operators: `RuleResult`, `Aggregate` |
| `BundleMutator` | `MutationPlan`, `BundleMutator.apply` | operators: `Changed`, `Allowed`, `DeepMerge`, `Mutate` |
| `BenchmarkEvidence` | `_derive_promotion_evidence`, `PromotionPolicy.evaluate` | operators: `Derivable`, `Evidence`, `Promotes` |
| `ObservationPolicy` | `should_review` | operator `ShouldReview` |
| `Decisions` | the four together, as the callers ask them | `Evaluate`, `Evolve` (along a lineage), `Promote`, `Observe` (event by event) |
| `EventStoreProofs`, `EngineProofs`, `VersionStoreProofs`, `EventStreamProofs`, `ExternalCallProofs`, `TeamCoordinatorProofs`, `DecisionsProofs` | theorems and proofs about the module they are named after; `EngineProofs` has those about `RunReplay` | |
| `EngineEvidenceProofs` | theorems and proofs about what the stream of a run accounts for: steps, tokens and cost, retries, hints, signals, success, the evidence of a benchmark, and what replay reads from it | |
| `MC...` | instances for TLC | |

`EventStore` refines `RunStream`. The engine and team modules use the promise of
`RunStream`: an append is two steps, reading the version and a compare-and-append
(`Accepted`) that is atomic, or a conflict. `TeamCoordinator` shows inside `spawn` what
`EngineSupervision` sees as `HandlerSpawns`, `HandlerSucceeds`, `HandlerRaises`.
`CommandHarness` and `DshHarness` show inside `execute` what `EngineAttempt` sees as a
harness that emits, returns or raises, and where its `DetachedEmit` comes from: the
worker thread of `DshHarness` that outlasts the shutdown timeout. `ScriptGrader` shows
that a grader ends by itself, which the engine modules assume of it. `Decisions` computes
what `EngineAttempt` and `VersionStore` take as a choice: a grade, the outcome of a
benchmark, whether an event is reviewed, whether a candidate differs from its parent.

Each definition that contains a deliberate bug is introduced by "A bug:"; these variants
are not used by any specification. They are the mutations by which a property is shown to
depend on the code.

Abstractions. Payloads, wording, timestamps and redaction are left out. Grader scores are
small numbers, weights and required constraints are folded into the total, and whether the
policy may refuse its weights is a constant. Tokens and cost are two resources with a limit
each. A hint is its deduplication key. Bundles are model values and name the versions made of them
((agent, fingerprint) is unique). Version numbers and parents are not read by any decision
and are left out. Whether an event is shown to the Supervisor Agent, what the advisor
answers, what a harness emits and returns, and how long anything takes are choices. A
harness awaits one `emit` before it makes the next and lets an exception of `emit` through,
as the harnesses of the repository do; a call scheduled from the SDK's thread may outlive
the attempt (`DetachedEmit`). A candidate bundle differs from its parent
(`NoMutationError` otherwise).

A nested dictionary is a function from the paths in it to the values found there, `Dict`
standing for a dictionary (`IsDictionary`: only dictionaries have entries). The recursive
`_deep_merge` is then one definition: a path of the base survives unless a value of the
patch that is no dictionary stands on its way. `PatchesMergeDeeply` compares it, key by
key, with one turn of the recursion in the code.

## 3. Runs

| Run | Instance | Shows |
|---|---|---|
| `event_store` | 3 writers in 2 processes, batches of 1 and 2 events, stream of 2 | `Contiguous`, `CollisionMeansConflict`, and that the store implements `RunStream` through crashes, busy errors and collisions |
| `operators` | 2 task slots, 2 concurrent requests, all operations, 3 requests, 1 retry, 1 crash, detached emits | `OneLiveTask`, `AttemptsIncrease`, `RetriesBounded`, `GradingWithinBudget` (tokens and cost), `EarnedSuccess`, `BenchmarkIsGraded` |
| `supervision` | 1 task, 2 graders, 4 kinds of directive, one of which repeats its key, detached emits, 2 events, 2 requests (start, recover), 1 retry, 1 crash, weights that may be refused, under fairness | `StepsWithinBudget`, `HintsRepeatOnlyLate`, `SignalsTakeEffect`, `EveryTaskEnds` |
| `versions` | 3 bundles, 2 concurrent calls, 6 calls in all, a passing and a failing benchmark | `HistoryExplains`, `PromotedOnce`, `PromotedOnEvidence`, `EveryCallAnswered` |
| `team` | a leader with room for 1 member and 1 level, ids for 3 children, 2 racing spawns, starts of any run by operators, 1 event of others per stream, 1 crash | `TeamsAreBounded`, `OneTeam`, `ChildrenAreAnnounced`, `MembersExist`, `RunsQueueOnce`, `EverySpawnEnds` |
| `event_stream` | a subscriber and a polling client, pages of 2, a stream of up to 4 events, any number of disconnects, under fairness | `NothingSkipped`, `EndedRunIsRead`, `StreamAdvances` |
| `external_calls` | one call of either adapter or of a script grader, a request larger than the pipe, up to 4 lines (3 are the output limit) or 3 notifications, 2 cancellations, under fairness | `ResultIsEarned`, `ProcessReaped`, `ResultIsDurable`, `WorkerQuiet`, `EveryCallEnds` |
| `decisions` | 2 rules and another grader, all small outputs, weights and constraints; lineages under the 4 scopes with dictionaries three levels deep; twelve benchmark runs: good, cheap and dear ones, a baseline that cost nothing, and runs spoilt in one way; 6 events | `GradesFailClosed`, `LineageKeepsScope`, `PatchesMergeDeeply`, `PromotionFavoursTheBetter`, `ReviewsOnSchedule` |
| `terminal_is_final` | 2 human decisions | refutes `TerminalIsFinal`: succeeded, then failed |
| `late_hint` | an emit that outlives its attempt, a human retry, no action handler | refutes `HintsPublishedOnce`: two attempts publish one key |
| `orphans` | a spawn cancelled after it created the child | refutes `ChildrenAreBounded`: two children where one is allowed |
| `rejected_memory` | two reviews of one memory | refutes `RejectedStaysRejected`: an approval overwrites a rejection |

Why the bounds are enough. The races of the engine need two actors that interleave their
check and their append, and a third request only to bring the run into the state in which
they may start; two tasks are needed for a second one to be created by mistake; one crash
leaves every intermediate state behind. One retry distinguishes "at most `MaxRetries`
more" from one off by one. For the store, two writers share a lock and a third is in
another process: with the lock and the constraint these are the only two relations
between writers. For the version store, six calls are one more than the shortest history
in which a promotion that was checked before a promotion and a rollback of the same
candidate commits after them, the schedule that needs the lock. For the team, one member
allowed and three ids leave room for members that must not be. For the event stream,
four events make two full pages, and a page of two can be cut in its middle. For the
harness, a request larger than a pipe and an output of several lines are what makes
process and adapter wait on each other; a second cancellation reaches every await of the
clean-up, a third would find nothing left to interrupt. For the decisions, two levels are
the first depth at which merging and replacing differ and a third the first at which a
merge is nested in a merge; two runs a side are the first size at which one run can hide
another.

`MaxEvents` counts the harness events that are on record, over all attempts: with two, an
attempt exceeds a budget of one step, or each of two attempts publishes a hint, and an emit
that has not stored its event yet counts for none. In `supervision` this makes the first
conjunct of `StepsWithinBudget` (one step over the budget is the most there can be) hold by
the bound; its second conjunct does the work there, and `StepsStayBounded` proves both for
any budget. That run has 1 task and two operations so that liveness stays checkable; the
races of several tasks and of the other operations are those of `operators`.

Deadlock is not checked: requests, crashes and events are bounded, so each model comes to
rest when they are used up, and a run that waits for a human waits. That nothing hangs is
the subject of `EveryTaskEnds`, `EveryCallAnswered`, `EverySpawnEnds`, `EveryCallEnds` and
`StreamAdvances`.

Fairness. Weak fairness of each task, of the emits, of the graders, of each call: the
event loop runs every coroutine that can run; `asyncio.wait_for` cuts a harness off at the
attempt timeout; a script grader ends by its own timeout (`EveryCallEnds`), and a callable
grader is assumed to return or raise. `asyncio.Lock` and `asyncio.Semaphore` serve their waiters in order,
which `TeamCoordinator` models as queues. `EventStream` assumes that the loop runs the
generator of every open connection; `CommandHarness` and `DshHarness` that it runs the
call, that time passes, and that the `wait_for` of the attempt cancels a call that is late;
`ScriptGrader` needs no one to cancel it.
Nothing is assumed of operators, clients, crashes, other cancellations, of a harness
before its timeout, of a subprocess (a killed one exits) or of the SDK.

## 4. What the refuted properties say

* `engine.py:477` and the like: `resolve_human`, `pause`, `resume` and
  `recover_incomplete` check the status of one snapshot and append against a version read
  later. Two decisions checked before either is recorded are both recorded, which
  `terminal_is_final` shows; in the same way a pause can land on a run that has meanwhile
  asked for a human. Appending with the version of the snapshot that was checked would
  turn both into a conflict.
* `dsh.py:110` and `engine.py:102`: an attempt knows the keys published before it from its
  snapshot, and those it publishes itself. An emit that outlives its attempt can publish a
  key after the next attempt has taken its snapshot, and that attempt publishes it again.
  Deduplication holds as far as `HintsRepeatOnlyLate` says: but for this and for a key that
  one directive repeats.
* `team.py:115`: a child run exists before it is a member; a call cut off in between
  leaves a run that no count sees, once per attempt. `ChildrenAreAnnounced` holds: the
  child can be found in the stream of its parent.
* `memory_store.py:80`: `set_status` checks the status in one statement and writes it in
  another. "Rejected memory cannot be reactivated" holds for calls one after the other,
  not for two at a time; the update needs the status it has read as a condition.

Observed while modelling, and not refuted by a run of its own:

* `engine.py:157`: the filter for hints compares with the keys of earlier directives and
  not with those of the same directive: a directive that repeats a key publishes both.
* `engine.py:403`: graders run concurrently and share the stream of the run. When two fail,
  the second `grader.failed` conflicts, `gather` raises, and the run ends in an internal
  failure: the evaluation that `_safe_grade` was to protect is lost. `GraderConflicts` is
  that step; the task ends all the same (`EveryTaskEnds`).
* `engine.py:96`: a pause recorded between the snapshot of a task and its `run.started` is
  overwritten: the attempt begins on a paused run. `engine.py:498`: a pause that was checked
  before an attempt failed can land on a run that waits for a human, and a resume then
  carries it past the decision. Both happen in behaviours of the `operators` run.
* `script.py:59`: the context is serialised after the process was started and before the
  `try` that would kill it. A context that has no JSON form leaves the process running;
  `ProcessReaped` names this as its exception.
* `app.py:557`: evidence is refused for a run whose projection says `human_override`. A run
  that a human rejected is not among those, and counts as a failed run with its score.
* `promotion.py:62`: a baseline that cost nothing switches the cost comparison off.
* `app.py:300`: an operator may start a child that is no member of its team, because the
  spawn was cancelled before `team.py:130` or has not got there yet; `RunsQueueOnce` says
  that the two starts do not queue it twice.
* `app.py:283`: an event committed between the empty page and the snapshot is not sent
  before `stream.end`, the terminal event itself included; `EndedRunIsRead` says what is
  guaranteed.
* `dsh.py:43` says that a cancelled call waits for the worker thread to quiesce; it waits
  no longer than the shutdown timeout. `WorkerQuiet` names the exceptions (`waived`).
* `command.py:75`, `command.py:113`: `drain` and the wait for stderr have no deadline of
  their own. `EveryCallEnds` holds because the attempt cancels the call; a supervisor
  agent is called from `review` (`observer.py:124`) and so from `emit`, under the deadline
  of the attempt it reviews, not its own.

## 5. Proofs

All theorems are for every value of the constants that satisfies the stated assumptions
(`HomeAssumption` of `EventStore`, `ParameterAssumption` of `EngineState`,
`VersionAssumption` of `VersionStore`, `PageAssumption` of `EventStream`, `SizeAssumption`
of `ExternalCall`, and for the decisions `ScaleAssumption`, `BenchmarkAssumption`,
`ObservationAssumption`, `GradingAssumption` and `MutationAssumption`), which TLC
evaluates in the runs.

`EventStoreProofs`. The inductive invariant says that the rows of the stream are numbered
1 to n without repetition, that a lock has one holder, and that a writer about to insert
holds a version which the stream had; so its rows either continue the stream or collide.
From it follow `TypeCorrect`, `StreamIsContiguous`, `LockIsHeld`, `CollisionIsConflict`,
and, with the refinement mapping of `EventStore`, `StoreImplementsRunStream`.

`EngineProofs` begins with lemmas on `RunReplay`: what the last event of a kind is in a
stream to which a batch was appended (`Appended`, `LastOfIs`), what an append does to the
attempt (`AttemptKept`, `AttemptSet`), and that the totals of tokens and cost are numbers. `ReplayAgrees`
says that the loop of `replay`, a fold over the stream, computes these closed forms. It is
an induction over the positions of the stream, by the least position at which the two
would differ (`LeastNat`); what the fold computes is the solution of its recursion, built
up position by position (`LoopExists`), and one event is one turn of it (`LoopSteps`).

`IInv` strengthens `OneLiveTask` and `AttemptsIncrease`:

* `Alone`: a live task is the registered one, and a request about to create a task holds
  the start lock and saw no live task. Without it a second `start` could slip in.
* `FreshStart`: the snapshot of a task about to append `run.started` still tells the
  attempt of the stream. It is stale in general, but only a task appends `run.started`,
  and by `Alone` there is no other.
* the types of the calls in flight, and that verdicts and controls are known ones.

The proof has one lemma per family of actions (`TaskKeeps`, `EmitKeeps`, `GradeKeeps`,
`RequestKeeps`, `CreateRunKeeps`, `StopKeeps`), which rest on what an append that starts no
attempt preserves (`PlainAppend`) and on one shape of step (`CalmStep`, `RequestStep`).
The theorems are `EngineTypeCorrect`, `OneTaskAtATime` and `AttemptNumbersIncrease`.

`VersionStoreProofs`. The properties rest on `ReadIsCurrent`: from the read to the commit
the lock keeps what a call has checked true, although requests keep arriving. The other
parts of `IInv` say that at most the holder of the lock is past it (`Exclusive`), that a
promotion in flight carries evidence that passed, and that the history names stored
versions. The step that matters is `ActivationOK`: a version that is still a candidate has
no activation in the history, so giving it evidence touches no earlier promotion; a
superseded version has one, so a rollback has somewhere to lead. The theorems are
`VersionStoreTypeCorrect`, `HistoryExplainsStore`, `PromotionIsOnce` and
`PromotionHasEvidence`.

`EventStreamProofs`. The invariant ties a request to its client: a cursor counts what the
client has received (`ReceivedIsCount`: so does the number it comes back with), a page is
what follows the cursor and lies within the stream, and a streamer past an empty page has
what there was. `PageOfLoad` states what a page is; every step of a client is an instance of
`ClientStep`. The theorems are `StreamTypeCorrect`, `StreamIsReceivedInOrder` and
`EndComesLast`, for any number of clients, any page size and any length.

`ExternalCallProofs`. The invariant is one of three, by who is called:

* `CommandInv`: between two lines the sink holds exactly the events taken, and at most the
  last line is a result (`Kept`); after the end of stdout nothing is written any more
  (`BesideKeeps`). So a result, accepted last, is earned. A call in its clean-up has a
  process that is dead or killed, which is all a cancellation there leaves.
* `ScriptInv`: a grader is not killed before it has a verdict or is given up, so a verdict
  is not that of a killed one.
* `DshInv`: while nobody has cancelled the call, at most the emit the thread waits for is in
  flight and the sink holds the others, but those it refused (`Backpressure`,
  `StoredInOrder`). A cancellation ends this and also rules out a result. `Closing` says
  how far the runtime is closed; a thread never comes back to life (`ThreadStepKeeps`).

The theorems are `SubprocessResultIsEarned`, `SubprocessIsReaped`, `DshResultIsDurable` and
`DshWorkerIsQuiet`, for any request, pipe and output, any number of lines, notifications
and cancellations.

`EngineEvidenceProofs`. Seven invariants, each inductive together with `IInv`; those of
the attempts use the first.

* `AttemptInv` ties tasks and emits to the stream: a task within an attempt is in the last
  one, emits are of that attempt or an older one, an attempt has one emit at a time, and
  what is closed on record (completed, graded, signalled) is closed for whoever is still
  in flight. A detached emit may append long after its attempt, so `SignalsTakeEffect`
  needs both directions: no signal after a completion, no completion after a signal.
* `StepInv` adds how many steps the stream has when a task executes or an emit is about to
  store an event (`EmitSteps`): the step that exceeds the budget is stored first and ends
  the attempt, so one over is the most there can be. It gives `StepsWithinBudget`.
* `UsageInv`: the totals of the snapshot are still those of the stream until the task adds
  its own tokens and cost (`SnapUsage`), since nobody else completes an execution. It gives
  `GradingWithinBudget`.
* `SuccessInv`: a task about to record success has the passed evaluation of its own attempt
  on record, and no attempt began since (`VerdictEarned`). It gives `EarnedSuccess`, and
  `BenchmarkIsGraded`: an evaluation on record is one of the attempt begun last before it
  (`EvaluationsBegun`), so none can stand between the passed one and the success.
* `RetryInv` counts. An automatic retry is the event right after the hint of an evaluation
  (`AutoRetries`); it carries the number of the next attempt, at most `MaxRetries + 1`, and
  no two carry the same, so `AutoRetriesBounded` maps them one to one into `1 .. MaxRetries`.
  Every start but the first was scheduled (`StartsCounted`), which is kept because a
  runnable run, or a task about to start, has one reason more than starts (`Ready`). It
  gives `RetriesBounded`.
* `HintInv`: a key on record from before an attempt began is known to the task of that
  attempt and to its emits, unless it was published late. So a key that is published again
  comes from one directive, or one of the two is late. It assumes nothing of the harness or
  of the directives. It gives `HintsRepeatOnlyLate`.
* `BeginInv`: nothing is in flight before the run exists, so its stream begins with
  `run.created`, the event that `replay` takes for granted. With `ReplayAgrees` it gives
  `ReplayReadsLastWriters`, for status, attempt, usage, score, override and hints. That no step rewrites what is on record is
  `StreamIsAppendOnly`.

The proofs classify a step once (`StepShape`): it is calm (tasks stay or leave their
attempt, and what is appended matters to none of the counts), or one of the seven kinds
that do matter, for each of which each invariant has a lemma.

`TeamCoordinatorProofs`. `IInv` says what a call relies on at each of its awaits
(`CallFor`), that the lock of a run holds its active calls in order and only the first is
past it (`Locks`, `Holding`), and what a child run says of its parent (`ChildOf`). A spawn
that has read the team is the only one of that parent, so the count it checked is still
the count when it appends; the versions it compares play no part. The theorems are
`TeamTypes`, `TeamsStayBounded`, `TeamIsUnique`, `ChildrenStayAnnounced`, `MembersAreRuns`
and `StartsAreUnique`, for any limits, any number of runs and calls, and any starts by
operators.

`DecisionsProofs`. What is hard here is in the operators and not in the steps.

* Sums are folds over a finite set in an order nobody fixes. `SumsExist` gives the recursion
  of the fold, set by set, and `SumsGrow` what follows from it by the size of the set: sums
  of naturals are naturals and grow with their summands. So the rule grader divides by a
  positive total (`RulesScore`) and no better result loses points (`BetterPasses`), which
  with the constraints is `GradesClosed`, for any number of rules and weights.
* Dictionaries: a path and what leads to it (`StrictPrefixIs`, `OnTheWay`), a path as a key
  and a path below it (`UnderKey`, `FirstKey`). Merging keeps a dictionary well formed
  (`MergeIsDictionary`) and obeys the recursion of the code at every key (`MergeRecurs`).
* `LineageInv`: the bundle of a lineage consists of maps and dictionaries. A patch that
  names nothing then changes nothing, and what a plan does change its scope has opened; it
  gives `LineagesKeepScope` and `PatchesMerge`, for lineages of any length.
* `ReviewInv` says which events have been reviewed, and that their number is the quotient of
  the count (`RhythmGoesOn`, `NextQuotient`). It gives `ReviewsInRhythm`.
* `PromotionsFavourTheBetter`: the sums of two sides whose runs are paired grow pair by pair
  (`Pairs`, `SidesGrow`), and the limit on the cost moves with that of the baseline
  (`CostStaysWithin`), so what passes also passes on more favourable runs
  (`FavourablePasses`). The assumptions on benchmark runs are only the types of their fields.

Each of these invariants was checked by TLC on the constants of the run that checks its
property before it was proved.

Model-checked only: liveness (`EveryTaskEnds`, `EveryCallAnswered`, `EverySpawnEnds`,
`EveryCallEnds`, `StreamAdvances`), since the provers have no fairness or ENABLED. Every
other property that a run shows to hold is also a theorem. Two statements are proved and not
repeated by a run: `LockHeld`, which is part of the invariant of the store, and
`ReplayIsLastWriter`, the agreement of the code's loop with the closed forms.

## 6. Not modelled

Redaction, configuration, command line and schema creation hold no state that a
transition reads. Parsing of requests, error responses and pydantic validation are I/O.
Runs that a client posts with a `parent_run_id` or `team_id` of its own are not modelled:
`OneTeam` and `ChildrenAreAnnounced` are about the children that `spawn` makes. The
projection's `last_output` and `error` are left out, since nothing decides on them.
Member status updates (`team.member.completed`, `team.member.failed`) are read by
`TeamContext.replay` and never appended. Two processes that share the version store are
outside its documented deployment and not modelled; its locks are per process. A callable
grader is external; regular expressions of rules are left out. The DSH adapter's compilation of a
bundle into a runtime configuration and its prompt are text.

## 7. Plan

Proofs: every invariant and the refinement are proved; what is left to the provers is
liveness, which they cannot express. Models: `_errors` of the task manager as the API shows
it.
