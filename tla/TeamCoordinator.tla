--------------------------- MODULE TeamCoordinator ---------------------------
(***************************************************************************)
(* application/team.py and application/tasks.py over several runs: the     *)
(* Supervisor Agent of a running run spawns child runs, which the task     *)
(* manager executes as its semaphore allows and which may spawn in turn.   *)
(*                                                                         *)
(* The team of a run is in the run's own event stream.  spawn holds the    *)
(* lock of the parent from reading that stream to starting the child, but  *)
(* others append to the stream meanwhile, so each of its appends may       *)
(* conflict; and the call may be cancelled at every await (the attempt     *)
(* timed out, the process shuts down).                                     *)
(***************************************************************************)
EXTENDS Naturals, Sequences, FiniteSets, SequencesExt

CONSTANTS
    Runs,         \* run ids; all but the leader's are made by uuid4
    Leader,       \* the run an operator created
    Callers,      \* concurrent calls of spawn
    MaxSubagents, \* supervisor_policy.max_subagents, inherited by children
    MaxDepth,     \* supervisor_policy.max_subagent_depth, inherited
    Slots,        \* max_concurrency of the task manager
    MaxOther,     \* bound: events of others in a stream
    MaxCrashes,   \* bound: crashes of the process
    None          \* no run

ASSUME TeamAssumption ==
    /\ Leader \in Runs /\ None \notin Runs
    /\ MaxSubagents \in Nat /\ MaxDepth \in Nat /\ Slots \in Nat \ {0}
    /\ MaxOther \in Nat /\ MaxCrashes \in Nat

VARIABLES
    stream,  \* stream[r]: the events of run r that spawn reads or writes
    job,     \* job[r]: the background task of r
    queue,   \* tasks waiting for the semaphore
    lock,    \* lock[r]: the calls at TeamCoordinator._locks[r], its holder first
    call,    \* call[c]: [pc, parent, child, team, count, ver] of a spawn
    crashes  \* crashes so far

vars == <<stream, job, queue, lock, call, crashes>>

Event(type, run, team, depth) ==
    [type |-> type, run |-> run, team |-> team, depth |-> depth]
Idle == [pc |-> "idle", parent |-> None, child |-> None, team |-> None,
         count |-> 0, ver |-> 0]
Appending == {"create_team", "request", "failed", "spawned"}
Entered   == Appending \cup {"read", "create", "start"}

\* TeamContext.replay: the first team.created, and a member for each spawned.
Of(r, type)   == {i \in DOMAIN stream[r] : stream[r][i].type = type}
HasTeam(r)    == Of(r, "team.created") # {}
TeamOf(r)     == LET first == CHOOSE i \in Of(r, "team.created") :
                                \A j \in Of(r, "team.created") : i =< j
                 IN  stream[r][first].team
Members(r)    == {stream[r][i].run : i \in Of(r, "team.member.spawned")}
Created(r)    == stream[r] # <<>>
Definition(r) == stream[r][1]

\* uuid4 returns an id that nothing mentions.
Fresh == {r \in Runs \ {Leader} :
            /\ \A s \in Runs : \A i \in DOMAIN stream[s] :
                  r \notin {stream[s][i].run, stream[s][i].team}
            /\ \A c \in Callers : call[c].child # r}

Init ==
    /\ stream = [r \in Runs |->
                   IF r = Leader THEN <<Event("run.created", None, None, 0)>> ELSE <<>>]
    /\ job = [r \in Runs |-> "none"]
    /\ queue = <<>>
    /\ lock = [r \in Runs |-> <<>>]
    /\ call = [c \in Callers |-> Idle]
    /\ crashes = 0

-----------------------------------------------------------------------------
(* The task manager.                                                       *)

\* RunTaskManager.start creates a task.  It holds the start lock from its
\* check to the creation (EngineRequests.tla), so the two are one step here.
StartTask(r) ==
    /\ job' = [job EXCEPT ![r] = "queued"]
    /\ queue' = Append(queue, r)

\* POST /v1/runs/{id}/start, of any run there is: the leader, a member, or a
\* child that is not yet, or never will be, recorded as one.
OperatorStarts(r) ==
    /\ Created(r)
    /\ job[r] = "none"
    /\ StartTask(r)
    /\ UNCHANGED <<stream, lock, call, crashes>>

\* _run: asyncio's semaphore serves its waiters in order.
Execute ==
    /\ queue # <<>>
    /\ Cardinality({r \in Runs : job[r] = "executing"}) < Slots
    /\ job' = [job EXCEPT ![Head(queue)] = "executing"]
    /\ queue' = Tail(queue)
    /\ UNCHANGED <<stream, lock, call, crashes>>

End(r) ==
    /\ job[r] = "executing"
    /\ job' = [job EXCEPT ![r] = "none"]
    /\ UNCHANGED <<stream, queue, lock, call, crashes>>

\* The engine and the operators append to the stream of a run, too.
OtherAppends(r) ==
    /\ Created(r)
    /\ Cardinality(Of(r, "other")) < MaxOther
    /\ stream' = [stream EXCEPT ![r] = Append(@, Event("other", None, None, 0))]
    /\ UNCHANGED <<job, queue, lock, call, crashes>>

-----------------------------------------------------------------------------
(* spawn.                                                                  *)

Goto(c, pc) == call' = [call EXCEPT ![c].pc = pc, ![c].ver = 0]

\* A bug: the lock of a call that fails is kept.
LeaveHolding(c) == call' = [call EXCEPT ![c] = Idle] /\ UNCHANGED lock

\* The call returns or raises; `async with` releases the lock.
Leave(c) ==
    /\ call' = [call EXCEPT ![c] = Idle]
    /\ lock' = [lock EXCEPT ![call[c].parent] = RemoveFirst(@, c)]

\* The Supervisor Agent reviews an event of a harness that is executing.
Spawn(c) ==
    /\ call[c].pc = "idle"
    /\ \E p \in Runs : \E child \in Fresh :
          /\ job[p] = "executing"
          /\ call' = [call EXCEPT ![c] =
                        [Idle EXCEPT !.pc = "lock", !.parent = p, !.child = child]]
          /\ lock' = [lock EXCEPT ![p] = Append(@, c)]
    /\ UNCHANGED <<stream, job, queue, crashes>>

\* A bug: spawn does not take the lock.
EnterUnlocked(c) ==
    /\ call[c].pc = "lock"
    /\ Goto(c, "read")
    /\ UNCHANGED <<stream, job, queue, lock, crashes>>

Enter(c) ==
    /\ call[c].pc = "lock"
    /\ Head(lock[call[c].parent]) = c
    /\ Goto(c, "read")
    /\ UNCHANGED <<stream, job, queue, lock, crashes>>

\* A bug: one child more than the policy, and one level more.
WithinLimitsByOne(count, p) == count =< MaxSubagents /\ Definition(p).depth =< MaxDepth

\* SubagentLimitError otherwise.
WithinLimits(count, p) == count < MaxSubagents /\ Definition(p).depth < MaxDepth

Read(c) ==
    LET p == call[c].parent
        n == Cardinality(Members(p))
    IN  /\ call[c].pc = "read"
        /\ \/ /\ ~HasTeam(p)
              /\ call' = [call EXCEPT ![c].pc = "create_team", ![c].team = call[c].child]
              /\ UNCHANGED lock
           \/ /\ HasTeam(p) /\ WithinLimits(n, p)
              /\ call' = [call EXCEPT ![c].pc = "request", ![c].team = TeamOf(p),
                                      ![c].count = n]
              /\ UNCHANGED lock
           \/ /\ HasTeam(p) /\ ~WithinLimits(n, p)
              /\ Leave(c)
        /\ UNCHANGED <<stream, job, queue, crashes>>

\* append_control_event reads the version of the parent's stream, then appends.
ReadsVersion(c) ==
    /\ call[c].pc \in Appending /\ call[c].ver = 0
    /\ call' = [call EXCEPT ![c].ver = Len(stream[call[c].parent])]
    /\ UNCHANGED <<stream, job, queue, lock, crashes>>

\* A bug: an event type that TeamContext.replay does not know.
TypeAtMistyped(pc) ==
    CASE pc = "create_team" -> "team.created"
      [] pc = "request"     -> "team.member.spawn_requested"
      [] pc = "failed"      -> "team.member.spawn_failed"
      [] pc = "spawned"     -> "team.member.created"

TypeAt(pc) ==
    CASE pc = "create_team" -> "team.created"
      [] pc = "request"     -> "team.member.spawn_requested"
      [] pc = "failed"      -> "team.member.spawn_failed"
      [] pc = "spawned"     -> "team.member.spawned"

\* A bug: the child is announced after it was created.
AfterUnannounced(pc) ==
    CASE pc = "create_team" -> "create"
      [] pc = "request"     -> "create"
      [] pc = "spawned"     -> "start"

\* A bug: the member is recorded before its run is created.
AfterUncreated(pc) ==
    CASE pc = "create_team" -> "request"
      [] pc = "request"     -> "spawned"
      [] pc = "spawned"     -> "create"

After(pc) ==
    CASE pc = "create_team" -> "request"
      [] pc = "request"     -> "create"
      [] pc = "spawned"     -> "start"

Appends(c) ==
    LET p  == call[c].parent
        pc == call[c].pc
    IN  /\ pc \in Appending /\ call[c].ver # 0
        /\ call[c].ver = Len(stream[p])
        /\ stream' = [stream EXCEPT ![p] =
                        Append(@, Event(TypeAt(pc), call[c].child, call[c].team, 0))]
        /\ IF pc = "failed" \/ (pc = "create_team" /\ ~WithinLimits(call[c].count, p))
           THEN Leave(c)
           ELSE Goto(c, After(pc)) /\ UNCHANGED lock
        /\ UNCHANGED <<job, queue, crashes>>

Conflicts(c) ==
    /\ call[c].pc \in Appending /\ call[c].ver # 0
    /\ call[c].ver # Len(stream[call[c].parent])
    /\ Leave(c)
    /\ UNCHANGED <<stream, job, queue, crashes>>

CreateChild(c) ==
    /\ call[c].pc = "create"
    /\ stream' = [stream EXCEPT ![call[c].child] =
                    <<Event("run.created", call[c].parent, call[c].team,
                            Definition(call[c].parent).depth + 1)>>]
    /\ Goto(c, "spawned")
    /\ UNCHANGED <<job, queue, lock, crashes>>

\* create_run raises: an unknown harness or grader, a database error.
CreateFails(c) ==
    /\ call[c].pc = "create"
    /\ Goto(c, "failed")
    /\ UNCHANGED <<stream, job, queue, lock, crashes>>

\* A bug: the task manager does not look at the tasks it has.
StartChildAnyway(c) ==
    /\ call[c].pc = "start"
    /\ StartTask(call[c].child)
    /\ Leave(c)
    /\ UNCHANGED <<stream, crashes>>

\* start=False; or start raises, because an operator has started the child
\* (RunAlreadyActiveError) or changed its status.
StartChild(c) ==
    /\ call[c].pc = "start"
    /\ \/ job[call[c].child] = "none" /\ StartTask(call[c].child)
       \/ UNCHANGED <<job, queue>>
    /\ Leave(c)
    /\ UNCHANGED <<stream, crashes>>

Cancel(c) ==
    /\ call[c].pc # "idle"
    /\ Leave(c)
    /\ UNCHANGED <<stream, job, queue, crashes>>

SpawnNext(c) ==
    \/ Enter(c) \/ Read(c) \/ ReadsVersion(c) \/ Appends(c) \/ Conflicts(c)
    \/ CreateChild(c) \/ CreateFails(c) \/ StartChild(c)

\* The process dies and a new one starts: tasks, calls and locks are gone.
Crash ==
    /\ crashes < MaxCrashes
    /\ crashes' = crashes + 1
    /\ job' = [r \in Runs |-> "none"]
    /\ queue' = <<>>
    /\ lock' = [r \in Runs |-> <<>>]
    /\ call' = [c \in Callers |-> Idle]
    /\ UNCHANGED stream

Next ==
    \/ Execute \/ Crash
    \/ \E r \in Runs : OperatorStarts(r) \/ End(r) \/ OtherAppends(r)
    \/ \E c \in Callers : Spawn(c) \/ SpawnNext(c) \/ Cancel(c)

Spec == Init /\ [][Next]_vars

\* The event loop runs every call that can run, and every waiter it can admit.
FairSpec == Spec /\ WF_vars(Execute) /\ \A c \in Callers : WF_vars(SpawnNext(c))

-----------------------------------------------------------------------------
(* Properties.                                                             *)

EventTypes == {"run.created", "other", "team.created", "team.member.spawn_requested",
               "team.member.spawn_failed", "team.member.spawned"}

TypeOK ==
    /\ stream \in [Runs -> Seq([type : EventTypes, run : Runs \cup {None},
                                team : Runs \cup {None}, depth : Nat])]
    /\ job \in [Runs -> {"none", "queued", "executing"}]
    /\ queue \in Seq(Runs)
    /\ lock \in [Runs -> Seq(Callers)]
    /\ call \in [Callers -> [pc     : Entered \cup {"idle", "lock"},
                             parent : Runs \cup {None}, child : Runs \cup {None},
                             team   : Runs \cup {None}, count : Nat, ver : Nat]]
    /\ crashes \in 0 .. MaxCrashes

Children == {r \in Runs \ {Leader} : Created(r)}

(* However many events of however many attempts ask for a subagent at      *)
(* once, a run has at most max_subagents members and no run is deeper than *)
(* max_subagent_depth.                                                     *)
TeamsAreBounded ==
    /\ \A r \in Runs : Cardinality(Members(r)) =< MaxSubagents
    /\ \A r \in Children : Definition(r).depth =< MaxDepth

(* A run has one team: calls that race, conflict or are cancelled after    *)
(* creating it never create another, and every child carries its id.       *)
OneTeam ==
    /\ \A r \in Runs : Cardinality(Of(r, "team.created")) =< 1
    /\ \A r \in Children :
          HasTeam(Definition(r).run) /\ Definition(r).team = TeamOf(Definition(r).run)

(* No child is lost without a trace: a child run that exists was announced *)
(* in the stream of its parent, also when the call that created it was cut *)
(* off before it recorded the member.                                      *)
ChildrenAreAnnounced ==
    \A r \in Children :
        \E i \in Of(Definition(r).run, "team.member.spawn_requested") :
            stream[Definition(r).run][i].run = r

(* The team a leader's stream tells is a team of runs: a member that is on *)
(* record exists and is a child of that leader, was announced before, is   *)
(* recorded once, and its spawn is not on record as failed.  (The converse *)
(* does not hold: a call cut off between creating the child and recording  *)
(* it leaves a child that is no member and that an operator may execute.)  *)
MembersExist ==
    \A r \in Runs : \A i \in Of(r, "team.member.spawned") :
        LET m == stream[r][i].run IN
        /\ m \in Children /\ Definition(m).run = r
        /\ \E j \in Of(r, "team.member.spawn_requested") : j < i /\ stream[r][j].run = m
        /\ \A j \in Of(r, "team.member.spawned") : stream[r][j].run = m => j = i
        /\ \A j \in Of(r, "team.member.spawn_failed") : stream[r][j].run # m

(* An operator and the spawn that created a child may both start it, in    *)
(* either order, while other tasks hold the semaphore: a run waits for a   *)
(* slot once, and not while it executes.                                   *)
RunsQueueOnce ==
    /\ IsInjective(queue)
    /\ Range(queue) = {r \in Runs : job[r] = "queued"}

(* A spawn that is refused, conflicts or fails keeps no lock: every call   *)
(* ends.                                                                   *)
EverySpawnEnds == \A c \in Callers : call[c].pc # "idle" ~> call[c].pc = "idle"

(* "bounded child-run creation" (README.md): a run has at most             *)
(* max_subagents children.  A call that is cut off after it created the    *)
(* child leaves one that is no member and does not count.                  *)
ChildrenAreBounded ==
    \A p \in Runs : Cardinality({r \in Children : Definition(r).run = p}) =< MaxSubagents
=============================================================================
