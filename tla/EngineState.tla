---------------------------- MODULE EngineState -----------------------------
(***************************************************************************)
(* What the actors of one run share: the run's event stream, the manager's *)
(* memory of its task, and the calls in flight.                            *)
(*                                                                         *)
(* The state of a run IS its event stream.  Everything that acts on it     *)
(* reads a snapshot, suspends, reads the stream's version, suspends, and   *)
(* appends against that version.  The compare-and-append of the event      *)
(* store (RunStream.tla) therefore protects the gap between the second     *)
(* read and the append, and nothing protects the gap between the snapshot  *)
(* and the second read.  An action of the modules that extend this one is  *)
(* what runs between two awaits.                                           *)
(***************************************************************************)
EXTENDS RunReplay, FiniteSetsExt

CONSTANTS
    Tasks,          \* slots for asyncio tasks created by RunTaskManager.start
    Requests,       \* concurrent API requests
    Operations,     \* the operations requests may call
    Graders,        \* definition.grader_ids
    Results,        \* what a grader may return: [score, retryable]
    PassMark,       \* the total score at which the grading policy passes
    MaxRetries,     \* supervisor_policy.max_retries
    HumanOnExhaustion, \* supervisor_policy.require_human_on_exhaustion
    MaxSteps,       \* supervisor_policy.max_steps_per_attempt
    MaxTokens,      \* supervisor_policy.max_tokens
    MaxCost,        \* supervisor_policy.max_cost, in units of its own
    Usages,         \* what an execution may report, of each resource
    BadWeights,     \* the weights of the grading policy may be refused
    HarnessEvents,  \* the kinds of events a harness emits: "step", "other"
    Keys,           \* the deduplication keys of the advisor's hints
    Directives,     \* what the advisor may answer: [action, keys]
    HasHandler,     \* the engine was given an action_handler
    DetachedEmit,   \* an emit call may outlive the cancellation of its attempt
    MaxEvents,      \* bound: harness events on record before another
    MaxRequests,    \* bound: API requests
    MaxCrashes,     \* bound: crashes and shutdowns of the process
    None            \* no task, no holder of the start lock

AllOperations == {"start", "pause", "resume", "recover", "approve", "reject", "retry"}
Actions == {"continue", "inject_hint", "pause", "request_human",
            "spawn_subagent", "propose_mutation", "abort"}

\* The words an event's data or a task's argument may be.
Words ==
    {"", "step", "other", "graders", "human", "evaluation", "passed",
     "not passed", "pass", "fail", "steps"}
    \cup AllOperations \cup Actions \cup Keys

ASSUME ParameterAssumption ==
    /\ Operations \subseteq AllOperations
    /\ MaxRetries \in Nat /\ MaxSteps \in Nat \ {0} /\ MaxTokens \in Nat \ {0}
    /\ MaxCost \in Nat /\ Usages \subseteq [Resources -> Nat]
    /\ PassMark \in Nat /\ HumanOnExhaustion \in BOOLEAN /\ BadWeights \in BOOLEAN
    /\ HasHandler \in BOOLEAN /\ DetachedEmit \in BOOLEAN
    /\ Results \subseteq [score : Nat, retryable : BOOLEAN]
    /\ HarnessEvents \subseteq {"step", "other"}
    /\ Directives \subseteq [action : Actions, keys : Seq(Keys)]
    /\ MaxEvents \in Nat /\ MaxRequests \in Nat /\ MaxCrashes \in Nat
    /\ None \notin Tasks /\ None \notin Requests

VARIABLES
    log,        \* the run's event stream
    task,       \* task[t]: [pc, ver, snap, arg, usage] of a background task
    registered, \* RunTaskManager._tasks[run_id]
    failure,    \* an entry of RunTaskManager._errors[run_id] exists
    startLock,  \* RunTaskManager._start_lock
    emits,      \* emit calls in flight: [owner, attempt, pc, ver, kind, known, dir]
    grades,     \* _safe_grade calls: [owner, attempt, grader, pc, ver, res]
    request,    \* request[r]: [op, pc, ver, from] of an API request
    requests,   \* API requests made so far
    crashes     \* crashes so far

vars == <<log, task, registered, failure, startLock, emits, grades, request,
          requests, crashes>>

manager == <<registered, failure, startLock>>
bounds  == <<requests, crashes>>

-----------------------------------------------------------------------------
(* Appending.  engine._append reads the version (ver = 0: not yet read)    *)
(* and calls the store with it; the store accepts it or raises.            *)

ReadVersion(call) == [call EXCEPT !.ver = Len(log)]
Accepted(call)    == call.ver = Len(log)

\* A bug: an attempt number behind the stream's.
SnapshotBehind ==
    [attempt |-> Attempt(log) - 1, used |-> [u \in Resources |-> Used(log, u)],
     keys |-> HintKeys(log)]

Snapshot == [attempt |-> Attempt(log), used |-> [u \in Resources |-> Used(log, u)],
             keys |-> HintKeys(log)]
NoSnapshot == [attempt |-> 0, used |-> NoUsage, keys |-> {}]

-----------------------------------------------------------------------------
NoTask == [pc |-> "done", ver |-> 0, snap |-> NoSnapshot, arg |-> "", usage |-> NoUsage]
Live(t)     == task[t].pc # "done"
IsActive    == registered # None /\ Live(registered)

AttemptOf(t) == task[t].snap.attempt + 1

\* What an attempt has in its local variables ends with the attempt.
Moved(rec, pc, arg) ==
    CASE pc = "done" -> NoTask
      [] pc = "load" -> [NoTask EXCEPT !.pc = "load"]
      [] OTHER       -> [rec EXCEPT !.pc = pc, !.ver = 0, !.arg = arg,
                                    !.usage = IF pc = "crashed" THEN NoUsage ELSE @]
GotoWith(t, pc, arg) == task' = [task EXCEPT ![t] = Moved(@, pc, arg)]
Goto(t, pc)     == GotoWith(t, pc, "")
Continue(t, pc) == GotoWith(t, pc, task[t].arg)

OwnEmits(t)  == {e \in emits : e.owner = t /\ e.attempt = AttemptOf(t)}
Attended(e)  == task[e.owner].pc = "execute" /\ AttemptOf(e.owner) = e.attempt
OfAttempt(a, type) == {i \in DOMAIN log : log[i].type = type /\ log[i].attempt = a}
StepsOf(a)   == {i \in OfAttempt(a, "agent.event") : log[i].data = "step"}
=============================================================================
