---------------------------- MODULE VersionStore -----------------------------
(***************************************************************************)
(* infrastructure/version_store.py for ONE agent, with the endpoints of    *)
(* api/app.py that call it: initial versions, candidates, promotion on     *)
(* benchmark evidence, rollback.                                           *)
(*                                                                         *)
(* A call takes the agent's lock, reads the rows it needs and commits what *)
(* it changed.  Statuses are written as the ORM writes them: by primary    *)
(* key, and only where the value differs from the one that was read.  The  *)
(* active pointer is the one row updated with a condition on its old       *)
(* value.  What a promotion is decided on, the benchmark evidence, is      *)
(* computed before the lock is taken.                                      *)
(*                                                                         *)
(* A version is named by its bundle: (agent_name, fingerprint) is unique.  *)
(***************************************************************************)
EXTENDS Naturals, Sequences

CONSTANTS
    Bundles,    \* agent bundles, by fingerprint
    Calls,      \* coroutines that call the endpoints
    Benchmarks, \* what benchmark runs of two versions may show
    Policy,     \* PromotionPolicy: [score, delta, regressions, multiplier]
    MaxCalls,   \* bound: API calls
    None        \* no version, no holder of the lock

Benchmark == [baseline : Nat, candidate : Nat, regressions : Nat,
              constraints : BOOLEAN, baselineCost : Nat, candidateCost : Nat]

ASSUME VersionAssumption ==
    /\ None \notin Bundles /\ None \notin Calls
    /\ Benchmarks \subseteq Benchmark
    /\ Policy \in [score : Nat, delta : Nat, regressions : Nat, multiplier : Nat]
    /\ MaxCalls \in Nat

VARIABLES
    versions,   \* table agent_versions: a function on the stored bundles
    pointer,    \* table active_agent_versions
    history,    \* table agent_activation_history
    lock,       \* _locks[agent_name]
    call,       \* call[c]: [op, pc, target, base, shown, seen]
    calls       \* API calls made so far

vars == <<versions, pointer, history, lock, call, calls>>

Statuses   == {"candidate", "active", "superseded"}
Stored     == DOMAIN versions
NoEvidence == [base |-> None, shown |-> {}]
Nothing    == [stored |-> {}, status |-> <<>>, pointer |-> None]
Idle == [op |-> "none", pc |-> "idle", target |-> None, base |-> None,
         shown |-> {}, seen |-> Nothing]

Init ==
    /\ versions = <<>>
    /\ pointer = None
    /\ history = <<>>
    /\ lock = None
    /\ call = [c \in Calls |-> Idle]
    /\ calls = 0

-----------------------------------------------------------------------------
(* Before the lock.                                                        *)

Ask(c, op, target, base, shown) ==
    /\ call[c].pc = "idle"
    /\ calls < MaxCalls
    /\ calls' = calls + 1
    /\ call' = [call EXCEPT ![c] = [Idle EXCEPT !.op = op, !.pc = "lock",
                   !.target = target, !.base = base, !.shown = shown]]
    /\ UNCHANGED <<versions, pointer, history, lock>>

AskInitial(c) ==
    \E b \in Bundles, op \in {"activate", "draft"} : Ask(c, op, b, None, {})

\* The bundle of a candidate is its parent's, changed by a mutation plan; a
\* plan that changes nothing is refused (NoMutationError).
AskCandidate(c) ==
    \E parent \in Stored : \E b \in Bundles \ {parent} : Ask(c, "candidate", b, parent, {})

\* PromotionPolicy.evaluate.
Passes(shown) ==
    /\ shown.candidate >= Policy.score
    /\ shown.candidate >= shown.baseline + Policy.delta
    /\ shown.regressions =< Policy.regressions
    /\ shown.constraints
    /\ shown.baselineCost > 0 =>
          shown.candidateCost =< shown.baselineCost * Policy.multiplier

\* A bug: the decision of the policy is not looked at.
AskUndecidedPromotion(c) ==
    \E v, base \in Stored, shown \in Benchmarks : Ask(c, "promote", v, base, {shown})

\* promote_version: the evidence compares the runs of the version to promote
\* with those of the version the operator expects to be active; without one
\* the request is refused.
AskPromotion(c) ==
    \E v, base \in Stored, shown \in Benchmarks :
        Passes(shown) /\ Ask(c, "promote", v, base, {shown})

AskRollback(c) ==
    \E v, base \in Stored : Ask(c, "rollback", v, base, {})

-----------------------------------------------------------------------------
(* Under the lock.                                                         *)

\* A bug: the store works without its lock.
AcquireNothing(c) ==
    /\ call[c].pc = "lock"
    /\ call' = [call EXCEPT ![c].pc = "read"]
    /\ UNCHANGED <<versions, pointer, history, lock, calls>>

Acquire(c) ==
    /\ call[c].pc = "lock"
    /\ lock = None
    /\ lock' = c
    /\ call' = [call EXCEPT ![c].pc = "read"]
    /\ UNCHANGED <<versions, pointer, history, calls>>

\* A bug: an error leaves the lock behind.
LeaveHolding(c) == call' = [call EXCEPT ![c] = Idle] /\ UNCHANGED lock

Leave(c) == call' = [call EXCEPT ![c] = Idle] /\ lock' = None

\* What a call reads: the rows of the agent and its active pointer.
Snapshot ==
    [stored  |-> Stored,
     status  |-> [v \in Stored |-> versions[v].status],
     pointer |-> pointer]

\* The checks of create_initial, create_candidate, promote and rollback.
Admissible(op, target, base, seen) ==
    CASE op \in {"activate", "draft"} -> seen.stored = {}
      [] op = "candidate" -> target \notin seen.stored
      [] op = "promote"   -> seen.status[target] = "candidate" /\ seen.pointer = base
      [] op = "rollback"  -> /\ seen.status[target] \in {"superseded", "active"}
                             /\ seen.pointer = base
                             /\ seen.pointer # target

Read(c) ==
    /\ call[c].pc = "read"
    /\ IF Admissible(call[c].op, call[c].target, call[c].base, Snapshot)
       THEN /\ call' = [call EXCEPT ![c].pc = "commit", ![c].seen = Snapshot]
            /\ UNCHANGED lock
       ELSE Leave(c)
    /\ UNCHANGED <<versions, pointer, history, calls>>

\* _new_record; the version number and the parent, which no decision reads,
\* are left out.
Insert(v, status) ==
    versions' = [w \in Stored \cup {v} |->
        IF w = v THEN [status |-> status, evidence |-> NoEvidence] ELSE versions[w]]
Record(action, from, to) ==
    history' = Append(history, [action |-> action, from |-> from, to |-> to])

CommitInitial(c) ==
    /\ call[c].op \in {"activate", "draft"}
    /\ Stored = {}
    /\ IF call[c].op = "activate"
       THEN /\ Insert(call[c].target, "active")
            /\ pointer' = call[c].target
            /\ Record("initial_activation", None, call[c].target)
       ELSE /\ Insert(call[c].target, "candidate")
            /\ UNCHANGED <<pointer, history>>

CommitCandidate(c) ==
    /\ call[c].op = "candidate"
    /\ call[c].target \notin Stored
    /\ Insert(call[c].target, "candidate")
    /\ UNCHANGED <<pointer, history>>

\* A bug: the version that is replaced is given the status nobody reads.
ReplacedForGood(seen, target, base) ==
    [v \in Stored |->
        CASE v = target -> "active"
          [] v = base   -> "rejected"
          [] OTHER      -> versions[v].status]

\* The statuses after target replaced base, as the ORM flushes them.
Replaced(seen, target, base) ==
    [v \in Stored |->
        CASE v = target /\ seen.status[v] # "active"   -> "active"
          [] v = base /\ seen.status[v] # "superseded" -> "superseded"
          [] OTHER                                     -> versions[v].status]

\* A bug: the version that was active is left as it is.
CommitActivationBeside(c) ==
    LET target == call[c].target
        base   == call[c].base
    IN  /\ call[c].op \in {"promote", "rollback"}
        /\ pointer = base
        /\ pointer' = target
        /\ versions' = [versions EXCEPT ![target].status = "active",
                           ![target].evidence = IF call[c].op = "promote"
                             THEN [base |-> base, shown |-> call[c].shown] ELSE @]
        /\ Record(call[c].op, base, target)

CommitActivation(c) ==
    LET target == call[c].target
        base   == call[c].base
        status == Replaced(call[c].seen, target, base)
    IN  /\ call[c].op \in {"promote", "rollback"}
        /\ pointer = base
        /\ pointer' = target
        /\ versions' = [v \in Stored |->
             [versions[v] EXCEPT !.status = status[v],
                !.evidence = IF v = target /\ call[c].op = "promote"
                             THEN [base |-> base, shown |-> call[c].shown] ELSE @]]
        /\ Record(call[c].op, base, target)

Commit(c) ==
    /\ call[c].pc = "commit"
    /\ CommitInitial(c) \/ CommitCandidate(c) \/ CommitActivation(c)
    /\ Leave(c)
    /\ UNCHANGED calls

\* A database error, a violated constraint, a pointer that has moved or a
\* cancelled request: the transaction is rolled back.
Abort(c) ==
    /\ call[c].pc \in {"read", "commit"}
    /\ Leave(c)
    /\ UNCHANGED <<versions, pointer, history, calls>>

CallNext(c) == Acquire(c) \/ Read(c) \/ Commit(c) \/ Abort(c)

Next ==
    \E c \in Calls :
        \/ AskInitial(c) \/ AskCandidate(c) \/ AskPromotion(c) \/ AskRollback(c)
        \/ CallNext(c)

Spec == Init /\ [][Next]_vars

\* The event loop runs every call that can run.
FairSpec == Spec /\ \A c \in Calls : WF_vars(CallNext(c))

-----------------------------------------------------------------------------
(* Properties.                                                             *)

Row == [status   : Statuses,
        evidence : [base : Bundles \cup {None}, shown : SUBSET Benchmarks]]

TypeOK ==
    /\ Stored \subseteq Bundles
    /\ \A v \in Stored : versions[v] \in Row
    /\ pointer \in Stored \cup {None}
    /\ history \in Seq([action : {"initial_activation", "promote", "rollback"},
                        from   : Bundles \cup {None},
                        to     : Bundles])
    /\ lock \in Calls \cup {None}
    /\ calls \in 0 .. MaxCalls

Activations(v) == {i \in DOMAIN history : history[i].to = v}

(* The activation history explains the store ("retain activation history", *)
(* docs/architecture.md): each entry leaves the version the one before it  *)
(* reached, the pointer is where the last one leads, and a version is      *)
(* active, superseded or a candidate according to it.                      *)
HistoryExplains ==
    /\ pointer = IF history = <<>> THEN None ELSE history[Len(history)].to
    /\ \A i \in DOMAIN history :
          history[i].from = IF i = 1 THEN None ELSE history[i - 1].to
    /\ \A v \in Stored :
          versions[v].status = CASE v = pointer           -> "active"
                                 [] v # pointer /\ Activations(v) # {} -> "superseded"
                                 [] OTHER                 -> "candidate"

(* "Only a candidate version can be promoted": whatever calls race, a      *)
(* version is promoted at most once, and every rollback leads to a version *)
(* that had been active.                                                   *)
PromotedOnce ==
    \A i \in DOMAIN history :
        LET earlier == {j \in Activations(history[i].to) : j < i} IN
        IF history[i].action = "rollback" THEN earlier # {} ELSE earlier = {}

(* A promotion is backed by evidence that passed the policy against the    *)
(* very version it replaced, although the evidence was gathered before the *)
(* lock was taken.                                                         *)
PromotedOnEvidence ==
    \A i \in DOMAIN history :
        history[i].action = "promote" =>
            LET evidence == versions[history[i].to].evidence IN
            /\ evidence.base = history[i].from
            /\ \E shown \in evidence.shown : Passes(shown)

(* No call, refused, failed or cancelled, keeps the agent's lock: every    *)
(* call is answered.                                                       *)
EveryCallAnswered == \A c \in Calls : call[c].pc # "idle" ~> call[c].pc = "idle"
=============================================================================
