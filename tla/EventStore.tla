----------------------------- MODULE EventStore ------------------------------
(***************************************************************************)
(* infrastructure/event_store.py: SqlEventStore.append for ONE run id, as  *)
(* called by several coroutines of several operating-system processes that *)
(* share the database.                                                     *)
(*                                                                         *)
(* A call suspends three times: on the asyncio lock of its own process, on *)
(* the version query and on the insert that commits.  The lock orders the  *)
(* callers of one process only; between two processes the order is kept by *)
(* the (run_id, sequence) uniqueness constraint.                           *)
(***************************************************************************)
EXTENDS Naturals, Sequences, FiniteSets

CONSTANTS
    Processes,  \* operating-system processes with an SqlEventStore each
    Writers,    \* coroutines that call append
    Home,       \* Home[w]: the process writer w runs in
    Events,     \* what a batch is made of
    Batches,    \* the batches a caller may pass
    MaxLength,  \* bound on the length of the stream
    NoWriter    \* value of a free lock

ASSUME HomeAssumption ==
    /\ Home \in [Writers -> Processes]
    /\ NoWriter \notin Writers
    /\ Batches \subseteq Seq(Events) \ {<<>>}
    /\ MaxLength \in Nat

VARIABLES
    rows,       \* table run_events, restricted to the run: {[sequence, event]}
    lock,       \* lock[p]: holder of _locks[run_id] in process p
    call        \* call[w]: [phase, expected, batch, actual] of writer w

vars == <<rows, lock, call>>

Row     == [sequence : Nat \ {0}, event : Events]
Phases  == {"idle", "waiting", "reading", "writing", "rechecking",
            "ok", "conflict", "error"}
Holding == {"reading", "writing", "rechecking"}
NoBatch == <<>>
Idle    == [phase |-> "idle", expected |-> 0, batch |-> NoBatch, actual |-> 0]

TypeOK ==
    /\ rows \subseteq Row
    /\ lock \in [Processes -> Writers \cup {NoWriter}]
    /\ call \in [Writers -> [phase    : Phases,
                             expected : Nat,
                             batch    : Batches \cup {NoBatch},
                             actual   : Nat]]

\* _version: coalesce(max(sequence), 0) over the rows of the run.
Sequences == {r.sequence : r \in rows}
Version   == CHOOSE n \in Sequences \cup {0} : \A m \in Sequences : m =< n

\* A bug: the first record is given the version that was read.
NewRowsFromActual(actual, batch) ==
    {[sequence |-> actual + i - 1, event |-> batch[i]] : i \in DOMAIN batch}

\* The records append builds: consecutive sequences after the version it read.
NewRows(actual, batch) ==
    {[sequence |-> actual + i, event |-> batch[i]] : i \in DOMAIN batch}

\* UniqueConstraint("run_id", "sequence")
Collides(new) == \E r \in rows, n \in new : r.sequence = n.sequence

-----------------------------------------------------------------------------
Init ==
    /\ rows = {}
    /\ lock = [p \in Processes |-> NoWriter]
    /\ call = [w \in Writers |-> Idle]

Release(w) == lock' = [lock EXCEPT ![Home[w]] = NoWriter]

\* append is called with a version the caller read earlier.  (An append of
\* no events returns at once and is not a step.)
Invoke(w, v, b) ==
    /\ call[w].phase = "idle"
    /\ v + Len(b) =< MaxLength
    /\ v =< Version
    /\ call' = [call EXCEPT ![w] = [phase |-> "waiting", expected |-> v,
                                    batch |-> b, actual |-> 0]]
    /\ UNCHANGED <<rows, lock>>

Acquire(w) ==
    /\ call[w].phase = "waiting"
    /\ lock[Home[w]] = NoWriter
    /\ lock' = [lock EXCEPT ![Home[w]] = w]
    /\ call' = [call EXCEPT ![w].phase = "reading"]
    /\ UNCHANGED rows

\* A bug: the expected version is not compared.
CheckNothing(w) ==
    /\ call[w].phase = "reading"
    /\ call' = [call EXCEPT ![w].phase = "writing", ![w].actual = Version]
    /\ UNCHANGED <<rows, lock>>

\* The version query, and the comparison with the expected version.
CheckVersion(w) ==
    /\ call[w].phase = "reading"
    /\ IF Version = call[w].expected
       THEN /\ call' = [call EXCEPT ![w].phase = "writing", ![w].actual = Version]
            /\ UNCHANGED lock
       ELSE /\ call' = [call EXCEPT ![w].phase = "conflict"]
            /\ Release(w)
    /\ UNCHANGED rows

\* A bug: the table without its uniqueness constraint.
InsertUnconstrained(w) ==
    /\ call[w].phase = "writing"
    /\ rows' = rows \cup NewRows(call[w].actual, call[w].batch)
    /\ call' = [call EXCEPT ![w].phase = "ok"]
    /\ Release(w)

\* The insert commits with the transaction: all the rows of the batch or none.
Insert(w) ==
    /\ call[w].phase = "writing"
    /\ LET new == NewRows(call[w].actual, call[w].batch) IN
       IF Collides(new)
       THEN /\ call' = [call EXCEPT ![w].phase = "rechecking"]
            /\ UNCHANGED <<rows, lock>>
       ELSE /\ rows' = rows \cup new
            /\ call' = [call EXCEPT ![w].phase = "ok"]
            /\ Release(w)

\* IntegrityError: the actual version is read again for the error message,
\* still under the lock, and EventStoreConcurrencyError is raised.
Recheck(w) ==
    /\ call[w].phase = "rechecking"
    /\ call' = [call EXCEPT ![w].phase = "conflict"]
    /\ Release(w)
    /\ UNCHANGED rows

\* Any other database error (a busy timeout, a lost connection) rolls back.
DatabaseError(w) ==
    /\ call[w].phase \in Holding
    /\ call' = [call EXCEPT ![w].phase = "error"]
    /\ Release(w)
    /\ UNCHANGED rows

Return(w) ==
    /\ call[w].phase \in {"ok", "conflict", "error"}
    /\ call' = [call EXCEPT ![w] = Idle]
    /\ UNCHANGED <<rows, lock>>

\* A process dies: its lock and its calls are gone, an open transaction is
\* rolled back by the database.
Crash(p) ==
    /\ \E w \in Writers : Home[w] = p /\ call[w].phase # "idle"
    /\ call' = [w \in Writers |-> IF Home[w] = p THEN Idle ELSE call[w]]
    /\ lock' = [lock EXCEPT ![p] = NoWriter]
    /\ UNCHANGED rows

Step(w) ==
    \/ Acquire(w) \/ CheckVersion(w) \/ Insert(w) \/ Recheck(w)
    \/ Return(w)

Next ==
    \/ \E w \in Writers :
          \/ \E v \in 0 .. MaxLength, b \in Batches : Invoke(w, v, b)
          \/ Step(w)
          \/ DatabaseError(w)
    \/ \E p \in Processes : Crash(p)

Spec == Init /\ [][Next]_vars

-----------------------------------------------------------------------------
(* Properties.                                                             *)

\* The stream has no gap and no sequence twice, so it can be replayed in
\* order: "A run stream must start with run.created" (domain/runs.py) is
\* decided by the row of sequence 1.
Contiguous ==
    /\ Sequences = 1 .. Version
    /\ \A r, s \in rows : r.sequence = s.sequence => r = s

\* An asyncio lock is held by the one coroutine that is past it.
LockHeld ==
    \A w \in Writers : call[w].phase \in Holding <=> lock[Home[w]] = w

\* A writer that passed the version check holds a version the stream had.
CheckedVersion ==
    \A w \in Writers :
        call[w].phase = "writing" =>
            /\ call[w].actual = call[w].expected
            /\ call[w].actual =< Version

\* An IntegrityError is only ever met because another append committed.
CollisionMeansConflict ==
    \A w \in Writers :
        call[w].phase = "rechecking" => call[w].expected < Version

\* The refinement mapping: the rows in the order of their sequence.
EventAt(i) == (CHOOSE r \in rows : r.sequence = i).event
Stream     == [i \in 1 .. Version |-> EventAt(i)]
AbstractPhase(phase) ==
    IF phase \in {"waiting"} \cup Holding THEN "open" ELSE phase
AbstractCall ==
    [w \in Writers |-> [phase    |-> AbstractPhase(call[w].phase),
                        expected |-> call[w].expected,
                        batch    |-> call[w].batch]]

RS == INSTANCE RunStream WITH stream <- Stream, call <- AbstractCall

\* The store keeps the promise of RunStream to every caller.
ImplementsRunStream == RS!Spec
=============================================================================
