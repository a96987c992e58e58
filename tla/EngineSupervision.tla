------------------------- MODULE EngineSupervision --------------------------
(***************************************************************************)
(* application/engine.py: the emit closure of _execute_attempt.  A harness *)
(* event is stored, counted against the step budget and, if the observation*)
(* policy says so, shown to the Supervisor Agent, whose directive is stored*)
(* and carried out.                                                        *)
(***************************************************************************)
EXTENDS EngineState

Passive == {"continue", "inject_hint"}
Signals == {"pause", "request_human", "abort"}

\* A bug: the keys published in earlier attempts are not asked for.
PublishedNow(e) == {log[i].data : i \in OfAttempt(e.attempt, "hint.published")}

\* published_hint_keys of the attempt's closure
Published(e) ==
    e.known \cup {log[i].data : i \in OfAttempt(e.attempt, "hint.published")}

\* The directive's hints that are fresh, in its order.
FreshKeys(e) ==
    LET fresh == {i \in DOMAIN e.dir.keys : e.dir.keys[i] \notin Published(e)}
    IN  [n \in 1 .. Cardinality(fresh) |-> e.dir.keys[Nth(fresh, n)]]

EmitAppending == {"event", "reviewed", "hints", "requested", "acted", "unacted"}

EmitBatch(e) ==
    CASE e.pc = "event"     -> <<[Ev("agent.event", e.attempt) EXCEPT !.data = e.kind]>>
      [] e.pc = "reviewed"  -> <<Ev("supervisor.reviewed", e.attempt)>>
      [] e.pc = "hints"     -> [i \in DOMAIN FreshKeys(e) |->
                                  [Ev("hint.published", e.attempt)
                                   EXCEPT !.data = FreshKeys(e)[i]]]
      [] e.pc = "requested" -> <<[Ev("supervisor.action_requested", e.attempt)
                                    EXCEPT !.data = e.dir.action]>>
      [] e.pc = "acted"     -> <<Ev("supervisor.action_completed", e.attempt)>>
      [] e.pc = "unacted"   -> <<Ev("supervisor.action_failed", e.attempt)>>

MoveEmit(e, pc)  == emits' = (emits \ {e}) \cup {[e EXCEPT !.pc = pc, !.ver = 0]}
EmitReturns(e)   == emits' = emits \ {e} /\ UNCHANGED task

\* An exception reaches the attempt that awaits the emit; if that attempt is
\* over, nobody sees it.
EmitRaises(e, pc, arg) ==
    /\ emits' = emits \ {e}
    /\ IF Attended(e) THEN GotoWith(e.owner, pc, arg) ELSE UNCHANGED task

EmitReadsVersion(e) ==
    /\ e.pc \in EmitAppending /\ e.ver = 0
    /\ emits' = (emits \ {e}) \cup {ReadVersion(e)}
    /\ UNCHANGED <<log, task, manager, grades, request, bounds>>

\* A bug: the budget admits one step too many.
EventStoredLate(e) ==
    /\ e.pc = "event"
    /\ IF e.kind = "step" /\ Cardinality(StepsOf(e.attempt)) > MaxSteps
       THEN EmitRaises(e, "budget", "steps")
       ELSE EmitReturns(e)

\* The event is stored; then the step budget, then the observation policy.
EventStored(e) ==
    /\ e.pc = "event"
    /\ IF e.kind = "step" /\ Cardinality(StepsOf(e.attempt)) + 1 > MaxSteps
       THEN EmitRaises(e, "budget", "steps")
       ELSE \/ EmitReturns(e)
            \/ /\ Directives # {}
               /\ MoveEmit(e, "review")
               /\ UNCHANGED task

AfterHints(e)     == IF e.dir.action \in Passive THEN "return" ELSE "requested"
AfterReviewed(e)  == IF FreshKeys(e) # <<>> THEN "hints" ELSE AfterHints(e)
MoveOrReturn(e, pc) ==
    IF pc = "return" THEN EmitReturns(e) ELSE MoveEmit(e, pc) /\ UNCHANGED task

\* A bug: an abort is recorded and not raised.
DirectiveStoredSoftly(e) ==
    \/ e.pc = "reviewed" /\ MoveOrReturn(e, AfterReviewed(e))
    \/ e.pc = "hints" /\ MoveOrReturn(e, AfterHints(e))
    \/ e.pc = "requested" /\ EmitReturns(e)

\* Without an action_handler a requested spawn or mutation stays a request.
DirectiveStored(e) ==
    \/ e.pc = "reviewed" /\ MoveOrReturn(e, AfterReviewed(e))
    \/ e.pc = "hints" /\ MoveOrReturn(e, AfterHints(e))
    \/ /\ e.pc = "requested"
       /\ IF e.dir.action \in Signals
          THEN EmitRaises(e, "control", e.dir.action)
          ELSE MoveOrReturn(e, IF HasHandler THEN "handle" ELSE "return")
    \/ e.pc = "acted" /\ EmitReturns(e)
    \/ e.pc = "unacted" /\ EmitRaises(e, "control", "request_human")

EmitAppends(e) ==
    /\ e.pc \in EmitAppending /\ e.ver # 0
    /\ Accepted(e)
    /\ log' = log \o EmitBatch(e)
    /\ EventStored(e) \/ DirectiveStored(e)
    /\ UNCHANGED <<manager, grades, request, bounds>>

\* A conflict while an action's success is recorded is recorded as the
\* action's failure; any other conflict ends the attempt as failed.
EmitConflicts(e) ==
    /\ e.pc \in EmitAppending /\ e.ver # 0
    /\ ~Accepted(e)
    /\ IF e.pc = "acted"
       THEN MoveEmit(e, "unacted") /\ UNCHANGED task
       ELSE EmitRaises(e, "failed", "")
    /\ UNCHANGED <<log, manager, grades, request, bounds>>

\* advisor.review: a directive, or SupervisorAdvisorError.
AdvisorAnswers(e) ==
    /\ e.pc = "review"
    /\ \E d \in Directives :
          emits' = (emits \ {e}) \cup {[e EXCEPT !.pc = "reviewed", !.dir = d]}
    /\ UNCHANGED <<log, task, manager, grades, request, bounds>>

AdvisorRaises(e) ==
    /\ e.pc = "review"
    /\ EmitRaises(e, "failed", "")
    /\ UNCHANGED <<log, manager, grades, request, bounds>>

\* action_handler.handle.  A spawn (TeamCoordinator.spawn) leaves a trail of
\* team events in this stream; each is an append of its own, so the attempt
\* may be cancelled, or the handler raise, between any two of them.
Team(e, type) == log' = Append(log, Ev(type, e.attempt))
IsSpawn(e)    == e.dir.action = "spawn_subagent"

HandlerSpawns(e) ==
    /\ IsSpawn(e)
    /\ \/ /\ e.pc = "handle"
          /\ \A i \in DOMAIN log : log[i].type # "team.created"
          /\ Team(e, "team.created")
          /\ UNCHANGED emits
       \/ /\ e.pc = "handle"
          /\ \E i \in DOMAIN log : log[i].type = "team.created"
          /\ Team(e, "team.member.spawn_requested")
          /\ MoveEmit(e, "spawning")
       \/ e.pc = "spawning" /\ Team(e, "team.member.spawned") /\ MoveEmit(e, "acted")
       \/ e.pc = "spawning" /\ Team(e, "team.member.spawn_failed") /\ MoveEmit(e, "unacted")
    /\ UNCHANGED <<task, manager, grades, request, bounds>>

\* A mutation is proposed in the version store and leaves nothing here.
HandlerSucceeds(e) ==
    /\ e.pc = "handle" /\ ~IsSpawn(e)
    /\ MoveEmit(e, "acted")
    /\ UNCHANGED <<log, task, manager, grades, request, bounds>>

\* A limit, an invalid payload, a conflict of one of the appends.
HandlerRaises(e) ==
    /\ e.pc \in {"handle", "spawning"}
    /\ MoveEmit(e, "unacted")
    /\ UNCHANGED <<log, task, manager, grades, request, bounds>>

EmitNext(e) ==
    \/ EmitReadsVersion(e) \/ EmitAppends(e) \/ EmitConflicts(e)
    \/ AdvisorAnswers(e) \/ AdvisorRaises(e)
    \/ HandlerSpawns(e) \/ HandlerSucceeds(e) \/ HandlerRaises(e)
=============================================================================
