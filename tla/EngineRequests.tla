--------------------------- MODULE EngineRequests ---------------------------
(***************************************************************************)
(* The run endpoints of api/app.py: RunTaskManager.start, and pause,       *)
(* resume, recover_incomplete and resolve_human of application/engine.py.  *)
(***************************************************************************)
EXTENDS EngineState

\* engine.create_run, with a fresh run id: nobody else can append to it.
CreateRun ==
    /\ log = <<>>
    /\ log' = <<Ev("run.created", 0)>>
    /\ UNCHANGED <<task, manager, emits, grades, request, bounds>>

-----------------------------------------------------------------------------
(* API requests.  Every operation checks the status of a snapshot and then *)
(* appends; `from` is the attempt of that snapshot.                        *)

NoRequest == [op |-> "none", pc |-> "idle", ver |-> 0, from |-> 0]
Move(r, pc) == request' = [request EXCEPT ![r].pc = pc, ![r].ver = 0]
Answer(r)   == request' = [request EXCEPT ![r] = NoRequest]

\* recover_run refuses at once if a task of this process owns the run.
Arrives(r, op) ==
    /\ request[r].pc = "idle"
    /\ log # <<>>
    /\ requests < MaxRequests
    /\ op = "recover" => ~IsActive
    /\ requests' = requests + 1
    /\ request' = [request EXCEPT ![r] =
                     [NoRequest EXCEPT !.op = op,
                                       !.pc = IF op = "start" THEN "lock" ELSE "check"]]
    /\ UNCHANGED <<log, task, manager, emits, grades, crashes>>

\* A bug: the check without the lock.
TakeNoLock(r) ==
    /\ request[r].pc = "lock"
    /\ IF IsActive THEN Answer(r) ELSE Move(r, "create")
    /\ UNCHANGED <<log, task, manager, emits, grades, bounds>>

\* RunTaskManager.start: the lock is held from the first check to the
\* creation of the task.
TakeStartLock(r) ==
    /\ request[r].pc = "lock"
    /\ startLock = None
    /\ IF IsActive
       THEN Answer(r) /\ UNCHANGED startLock
       ELSE Move(r, "create") /\ startLock' = r
    /\ UNCHANGED <<log, task, registered, failure, emits, grades, bounds>>

Refused == Terminal \cup {"paused", "waiting_human"}

\* A bug: the new task is not published in _tasks.
CreateUnpublishedTask(r) ==
    /\ request[r].pc = "create"
    /\ startLock' = None
    /\ Answer(r)
    /\ IF Status(log) \in Refused
       THEN UNCHANGED task
       ELSE \E t \in Tasks :
               ~Live(t) /\ task' = [task EXCEPT ![t] = [NoTask EXCEPT !.pc = "load"]]
    /\ UNCHANGED <<log, registered, failure, emits, grades, bounds>>

CreateTask(r) ==
    /\ request[r].pc = "create"
    /\ startLock' = None
    /\ Answer(r)
    /\ IF Status(log) \in Refused
       THEN UNCHANGED <<task, registered, failure>>
       ELSE /\ failure' = FALSE
            /\ \E t \in Tasks :
                  /\ ~Live(t)
                  /\ t = CHOOSE free \in Tasks : ~Live(free)
                  /\ task' = [task EXCEPT ![t] = [NoTask EXCEPT !.pc = "load"]]
                  /\ registered' = t
    /\ UNCHANGED <<log, emits, grades, bounds>>

\* The guard of each operation on the snapshot it reads.
Permitted(op, status) ==
    CASE op = "pause"   -> status \in Runnable
      [] op = "resume"  -> status = "paused"
      [] op = "recover" -> status \in Active
      [] op \in {"approve", "reject", "retry"} -> status = "waiting_human"

CheckStatus(r) ==
    /\ request[r].pc = "check"
    /\ IF Permitted(request[r].op, Status(log))
       THEN request' = [request EXCEPT ![r].pc = "append", ![r].from = Attempt(log)]
       ELSE Answer(r)
    /\ UNCHANGED <<log, task, manager, emits, grades, bounds>>

Resolved(a, decision) == [Ev("hitl.resolved", a) EXCEPT !.data = decision]
\* A bug: every decision but a retry is taken for an approval.
RequestBatchApproving(r) ==
    LET a  == request[r].from
        op == request[r].op
    IN  CASE op = "pause"   -> <<Ev("run.pause_requested", a), Ev("run.paused", a)>>
          [] op = "resume"  -> <<Ev("run.resumed", a + 1)>>
          [] op = "recover" -> <<Ev("run.recovered", a), Ev("run.retry_scheduled", a + 1)>>
          [] op = "retry"   -> <<Resolved(a, op), Ev("run.retry_scheduled", a + 1)>>
          [] OTHER          -> <<Resolved(a, op),
                                 [Ev("run.succeeded", a) EXCEPT !.data = "human"]>>

RequestBatch(r) ==
    LET a  == request[r].from
        op == request[r].op
    IN  CASE op = "pause"   -> <<Ev("run.pause_requested", a), Ev("run.paused", a)>>
          [] op = "resume"  -> <<Ev("run.resumed", a + 1)>>
          [] op = "recover" -> <<Ev("run.recovered", a), Ev("run.retry_scheduled", a + 1)>>
          [] op = "approve" -> <<Resolved(a, op),
                                 [Ev("run.succeeded", a) EXCEPT !.data = "human"]>>
          [] op = "reject"  -> <<Resolved(a, op), Ev("run.failed", a)>>
          [] op = "retry"   -> <<Resolved(a, op), Ev("run.retry_scheduled", a + 1)>>

RequestReadsVersion(r) ==
    /\ request[r].pc = "append" /\ request[r].ver = 0
    /\ request' = [request EXCEPT ![r] = ReadVersion(@)]
    /\ UNCHANGED <<log, task, manager, emits, grades, bounds>>

RequestAppends(r) ==
    /\ request[r].pc = "append" /\ request[r].ver # 0
    /\ Accepted(request[r])
    /\ log' = log \o RequestBatch(r)
    /\ Answer(r)
    /\ UNCHANGED <<task, manager, emits, grades, bounds>>

RequestConflicts(r) ==
    /\ request[r].pc = "append" /\ request[r].ver # 0
    /\ ~Accepted(request[r])
    /\ Answer(r)
    /\ UNCHANGED <<log, task, manager, emits, grades, bounds>>

RequestNext(r) ==
    \/ \E op \in Operations : Arrives(r, op)
    \/ TakeStartLock(r) \/ CreateTask(r)
    \/ CheckStatus(r)
    \/ RequestReadsVersion(r) \/ RequestAppends(r) \/ RequestConflicts(r)
=============================================================================
