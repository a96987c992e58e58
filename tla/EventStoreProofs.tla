-------------------------- MODULE EventStoreProofs --------------------------
(***************************************************************************)
(* Every append to a run stream, by any number of writers in any number of *)
(* processes, keeps the promise of RunStream.tla.                          *)
(*                                                                         *)
(* The inductive invariant is IInv.  Its core is Gapless with              *)
(* CheckedVersion: the rows are numbered 1 .. n, and a writer about to     *)
(* insert holds a version the stream had, so either nobody wrote since and *)
(* its rows continue the stream, or its first row collides.                *)
(***************************************************************************)
EXTENDS EventStore, SequenceTheorems, TLAPS

\* The rows are numbered 1 .. n and no number is used twice.
Gapless(n) ==
    /\ Sequences = 1 .. n
    /\ \A r, s \in rows : r.sequence = s.sequence => r = s

\* A call that is under way has a batch to write.
HasBatch ==
    \A w \in Writers :
        call[w].phase \in {"waiting"} \cup Holding => call[w].batch # NoBatch

IInv ==
    /\ TypeOK
    /\ HasBatch
    /\ \E n \in Nat : Gapless(n)
    /\ LockHeld
    /\ CheckedVersion
    /\ CollisionMeansConflict

-----------------------------------------------------------------------------
(* _version: the maximum of the sequences of a gapless stream is its length.*)
LEMMA VersionIsLength ==
    ASSUME NEW n \in Nat, Sequences = 1 .. n
    PROVE  Version = n
<1>1. n \in Sequences \cup {0} /\ \A m \in Sequences : m =< n
  OBVIOUS
<1>2. \A k \in Sequences \cup {0} : (\A m \in Sequences : m =< k) => k = n
  OBVIOUS
<1> QED
  BY <1>1, <1>2 DEF Version

LEMMA VersionIsLengthNext ==
    ASSUME NEW n \in Nat, Sequences' = 1 .. n
    PROVE  Version' = n
<1>1. n \in Sequences' \cup {0} /\ \A m \in Sequences' : m =< n
  OBVIOUS
<1>2. \A k \in Sequences' \cup {0} : (\A m \in Sequences' : m =< k) => k = n
  OBVIOUS
<1> QED
  BY <1>1, <1>2 DEF Version

(* The batches append is called with have at least one event.              *)
LEMMA BatchTypes ==
    ASSUME NEW b \in Batches
    PROVE  /\ b \in Seq(Events) /\ b # NoBatch
           /\ Len(b) \in Nat \ {0} /\ DOMAIN b = 1 .. Len(b)
           /\ \A i \in 1 .. Len(b) : b[i] \in Events
  BY HomeAssumption DEF NoBatch

(* The rows of a batch written at the end of a gapless stream extend it.   *)
LEMMA InsertExtends ==
    ASSUME NEW n \in Nat, Gapless(n), NEW b \in Batches, rows \subseteq Row,
           rows' = rows \cup NewRows(n, b)
    PROVE  /\ Gapless(n + Len(b))'
           /\ rows' \subseteq Row
<1> DEFINE new == NewRows(n, b)
<1>1. /\ Len(b) \in Nat \ {0} /\ DOMAIN b = 1 .. Len(b)
      /\ \A i \in 1 .. Len(b) : b[i] \in Events
  BY BatchTypes
<1>2. /\ \A r \in new : r \in Row /\ r.sequence \in n + 1 .. n + Len(b)
      /\ \A r, s \in new : r.sequence = s.sequence => r = s
  BY <1>1 DEF NewRows, Row
<1>3. \A k \in n + 1 .. n + Len(b) : \E r \in new : r.sequence = k
  <2> SUFFICES ASSUME NEW k \in n + 1 .. n + Len(b)
               PROVE  \E r \in new : r.sequence = k
    OBVIOUS
  <2>1. k - n \in DOMAIN b /\ n + (k - n) = k
    BY <1>1
  <2>2. [sequence |-> n + (k - n), event |-> b[k - n]] \in new
    BY <2>1 DEF NewRows
  <2> QED
    BY <2>1, <2>2
<1>4. \A r \in rows : r.sequence \in 1 .. n
  BY DEF Gapless, Sequences
<1>5. \A k \in 1 .. n : \E r \in rows : r.sequence = k
  BY DEF Gapless, Sequences
<1>6. Sequences' = 1 .. n + Len(b)
  BY <1>1, <1>2, <1>3, <1>4, <1>5 DEF Sequences
<1>7. \A r, s \in rows' : r.sequence = s.sequence => r = s
  BY <1>1, <1>2, <1>4 DEF Gapless
<1> QED
  BY <1>2, <1>6, <1>7 DEF Gapless

(* A batch whose first number is free continues the stream exactly.        *)
LEMMA NoCollisionAtEnd ==
    ASSUME NEW n \in Nat, Gapless(n), NEW actual \in Nat, actual =< n,
           NEW b \in Batches, ~Collides(NewRows(actual, b))
    PROVE  actual = n
<1> SUFFICES ASSUME actual < n PROVE FALSE
  OBVIOUS
<1>1. 1 \in DOMAIN b
  BY BatchTypes
<1>2. PICK r \in rows : r.sequence = actual + 1
  BY DEF Gapless, Sequences
<1>3. [sequence |-> actual + 1, event |-> b[1]] \in NewRows(actual, b)
  BY <1>1 DEF NewRows
<1> QED
  BY <1>2, <1>3 DEF Collides

(* A batch that collides starts below the end of the stream.               *)
LEMMA CollisionBelowEnd ==
    ASSUME NEW n \in Nat, Gapless(n), NEW actual \in Nat,
           NEW b \in Batches, Collides(NewRows(actual, b))
    PROVE  actual < n
<1>1. PICK r \in rows, i \in DOMAIN b : r.sequence = actual + i
  BY DEF Collides, NewRows
<1>2. r.sequence \in 1 .. n /\ i \in Nat \ {0}
  BY <1>1, BatchTypes DEF Gapless, Sequences
<1> QED
  BY <1>1, <1>2

-----------------------------------------------------------------------------
THEOREM InitEstablishes == Init => IInv
<1> SUFFICES ASSUME Init PROVE IInv
  OBVIOUS
<1>1. TypeOK
  BY HomeAssumption DEF Init, TypeOK, Idle, Phases
<1>2. Gapless(0)
  BY DEF Init, Gapless, Sequences
<1>3. HasBatch /\ LockHeld /\ CheckedVersion /\ CollisionMeansConflict
  BY HomeAssumption DEF Init, HasBatch, LockHeld, CheckedVersion, CollisionMeansConflict,
                        Idle, Holding
<1> QED
  BY <1>1, <1>2, <1>3 DEF IInv

\* A call that fails releases the lock and writes nothing.
Ends(w, outcome) ==
    /\ call[w].phase \in Holding
    /\ call' = [call EXCEPT ![w].phase = outcome]
    /\ Release(w)
    /\ rows' = rows

LEMMA EndKeeps ==
    ASSUME IInv, NEW w \in Writers, NEW outcome \in {"conflict", "error"},
           Ends(w, outcome)
    PROVE  IInv'
<1> USE HomeAssumption DEF Holding
<1>1. TypeOK /\ HasBatch /\ LockHeld /\ CheckedVersion /\ CollisionMeansConflict
  BY DEF IInv
<1>2. PICK n \in Nat : Gapless(n)
  BY DEF IInv
<1>3. Gapless(n)' /\ Version = n /\ Version' = n
  BY <1>2, VersionIsLength, VersionIsLengthNext DEF Ends, Gapless, Sequences
<1>4. /\ \A u \in Writers \ {w} : call'[u] = call[u]
      /\ call'[w] = [call[w] EXCEPT !.phase = outcome]
      /\ call'[w].phase = outcome
  BY <1>1 DEF Ends, TypeOK
<1>5. TypeOK'
  BY <1>1 DEF Ends, Release, TypeOK, Phases
<1>6. HasBatch' /\ CheckedVersion' /\ CollisionMeansConflict'
  BY <1>1, <1>3, <1>4 DEF HasBatch, CheckedVersion, CollisionMeansConflict
<1>7. LockHeld'
  BY <1>1, <1>4 DEF Ends, Release, TypeOK, LockHeld
<1> QED
  BY <1>3, <1>5, <1>6, <1>7 DEF IInv

(* A step keeps the invariant: each action keeps the types, the numbering  *)
(* and the lock, and the versions its writers hold stay versions the       *)
(* stream had.                                                             *)
LEMMA StepKeeps ==
    ASSUME IInv, [Next]_vars
    PROVE  IInv'
<1> USE HomeAssumption
<1>1. PICK n \in Nat : Gapless(n)
  BY DEF IInv
<1>2. Version = n
  BY <1>1, VersionIsLength DEF Gapless
<1>3. TypeOK /\ HasBatch /\ LockHeld /\ CheckedVersion /\ CollisionMeansConflict
  BY DEF IInv
<1>4. ASSUME rows' = rows PROVE Gapless(n)' /\ Version' = n
  BY <1>4, <1>1, VersionIsLengthNext DEF Gapless, Sequences
<1> DEFINE Held == HasBatch /\ LockHeld /\ CheckedVersion /\ CollisionMeansConflict
<1> USE DEF Holding
<1>5. ASSUME NEW w \in Writers, NEW v \in 0 .. MaxLength, NEW b \in Batches,
             Invoke(w, v, b)
      PROVE  IInv'
  <2>1. TypeOK'
    BY <1>5, <1>3 DEF Invoke, TypeOK, Phases
  <2>2. Held'
    BY <1>5, <1>4, <1>2, <1>3, BatchTypes
    DEF Invoke, TypeOK, HasBatch, LockHeld, CheckedVersion, CollisionMeansConflict
  <2> QED
    BY <2>1, <2>2, <1>4, <1>5 DEF IInv, Invoke
<1>6. ASSUME NEW w \in Writers, Acquire(w) PROVE IInv'
  <2>1. TypeOK'
    BY <1>6, <1>3 DEF Acquire, TypeOK, Phases
  <2>2. LockHeld'
    BY <1>6, <1>3 DEF Acquire, TypeOK, LockHeld
  <2>3. (HasBatch /\ CheckedVersion /\ CollisionMeansConflict)'
    BY <1>6, <1>4, <1>2, <1>3
    DEF Acquire, TypeOK, HasBatch, CheckedVersion, CollisionMeansConflict
  <2> QED
    BY <2>1, <2>2, <2>3, <1>4, <1>6 DEF IInv, Acquire
<1>7. ASSUME NEW w \in Writers, CheckVersion(w) PROVE IInv'
  <2>1. CASE n = call[w].expected
    <3>1. /\ rows' = rows /\ lock' = lock /\ call[w].phase = "reading"
          /\ call' = [call EXCEPT ![w].phase = "writing", ![w].actual = n]
      BY <1>7, <1>2, <2>1 DEF CheckVersion
    <3>2. TypeOK'
      BY <3>1, <1>3 DEF TypeOK, Phases
    <3>3. /\ \A u \in Writers \ {w} : call'[u] = call[u]
          /\ call'[w] = [call[w] EXCEPT !.phase = "writing", !.actual = n]
      BY <3>1, <1>3 DEF TypeOK
    <3>4. /\ call'[w].phase = "writing" /\ call'[w].actual = n
          /\ call'[w].expected = call[w].expected /\ call'[w].batch = call[w].batch
      BY <3>3, <1>3 DEF TypeOK
    <3>5. Version' = n /\ n =< n
      BY <3>1, <1>4
    <3>6. HasBatch' /\ CheckedVersion'
      <4>1. HasBatch'
        <5> SUFFICES ASSUME NEW u \in Writers,
                            call'[u].phase \in {"waiting"} \cup Holding
                     PROVE  call'[u].batch # NoBatch
          BY DEF HasBatch
        <5>1. CASE u = w
          <6>1. call[w].phase \in {"waiting"} \cup Holding
            BY <3>1, HomeAssumption DEF Holding
          <6> QED
            BY <5>1, <6>1, <3>4, <1>3 DEF HasBatch
        <5>2. CASE u # w
          BY <5>2, <3>3, <1>3 DEF HasBatch
        <5> QED
          BY <5>1, <5>2
      <4>2. CheckedVersion'
        <5> SUFFICES ASSUME NEW u \in Writers, call'[u].phase = "writing"
                     PROVE  call'[u].actual = call'[u].expected /\ call'[u].actual =< n
          BY <3>5 DEF CheckedVersion
        <5>1. CASE u = w
          BY <5>1, <3>4, <3>5, <2>1
        <5>2. CASE u # w
          BY <5>2, <3>3, <1>2, <1>3 DEF CheckedVersion
        <5> QED
          BY <5>1, <5>2
      <4> QED
        BY <4>1, <4>2
    <3>7. LockHeld'
      BY <3>1, <3>3, <3>4, <1>3 DEF LockHeld
    <3>8. CollisionMeansConflict'
      BY <3>5, <3>3, <3>4, <1>2, <1>3 DEF CollisionMeansConflict
    <3>9. Held'
      BY <3>6, <3>7, <3>8
    <3> QED
      BY <3>1, <3>2, <3>9, <1>4 DEF IInv
  <2>2. CASE n # call[w].expected
    <3>1. Ends(w, "conflict")
      BY <1>7, <1>2, <2>2 DEF CheckVersion, Ends
    <3> QED
      BY <3>1, EndKeeps
  <2> QED
    BY <2>1, <2>2
<1>8. ASSUME NEW w \in Writers, Insert(w) PROVE IInv'
  <2>1. PICK b \in Batches, actual \in Nat :
           /\ b = call[w].batch /\ actual = call[w].actual
           /\ actual =< n /\ call[w].expected = actual
    BY <1>8, <1>2, <1>3 DEF Insert, TypeOK, HasBatch, CheckedVersion
  <2>2. CASE Collides(NewRows(actual, b))
    <3>1. /\ rows' = rows /\ lock' = lock
          /\ call' = [call EXCEPT ![w].phase = "rechecking"]
      BY <1>8, <2>1, <2>2 DEF Insert
    <3>2. actual < n
      BY <2>1, <2>2, <1>1, CollisionBelowEnd
    <3>3. TypeOK'
      BY <3>1, <1>3 DEF TypeOK, Phases
    <3>4. Held'
      BY <1>8, <3>1, <3>2, <2>1, <1>4, <1>2, <1>3
      DEF Insert, TypeOK, HasBatch, LockHeld, CheckedVersion, CollisionMeansConflict
    <3> QED
      BY <3>1, <3>3, <3>4, <1>4 DEF IInv
  <2>3. CASE ~Collides(NewRows(actual, b))
    <3>1. /\ rows' = rows \cup NewRows(actual, b)
          /\ call' = [call EXCEPT ![w].phase = "ok"]
          /\ Release(w)
      BY <1>8, <2>1, <2>3 DEF Insert
    <3>2. actual = n
      BY <2>1, <2>3, <1>1, NoCollisionAtEnd
    <3>3. Gapless(n + Len(b))' /\ rows' \subseteq Row
      BY <3>1, <3>2, <2>1, <1>1, <1>3, InsertExtends DEF TypeOK
    <3>4. n + Len(b) \in Nat /\ n =< n + Len(b)
      BY <2>1, BatchTypes
    <3>5. Version' = n + Len(b)
      BY <3>3, <3>4, VersionIsLengthNext DEF Gapless
    <3>6. TypeOK'
      BY <3>1, <3>3, <1>3 DEF Release, TypeOK, Phases
    <3>7. Held'
      BY <1>8, <3>1, <3>4, <3>5, <1>2, <1>3
      DEF Insert, Release, TypeOK, HasBatch, LockHeld, CheckedVersion, CollisionMeansConflict
    <3> QED
      BY <3>3, <3>4, <3>6, <3>7 DEF IInv
  <2> QED
    BY <2>2, <2>3
<1>9. ASSUME NEW w \in Writers, Recheck(w) \/ DatabaseError(w) PROVE IInv'
  <2>1. Ends(w, "conflict") \/ Ends(w, "error")
    BY <1>9 DEF Recheck, DatabaseError, Ends
  <2> QED
    BY <2>1, EndKeeps
<1>12. ASSUME NEW w \in Writers, Return(w) PROVE IInv'
  <2>1. TypeOK'
    BY <1>12, <1>3 DEF Return, TypeOK, Phases, Idle
  <2>2. Held'
    BY <1>12, <1>4, <1>2, <1>3
    DEF Return, Idle, TypeOK, HasBatch, LockHeld, CheckedVersion, CollisionMeansConflict
  <2> QED
    BY <2>1, <2>2, <1>12, <1>4 DEF IInv, Return
<1>10. ASSUME NEW p \in Processes, Crash(p) PROVE IInv'
  <2>1. TypeOK'
    BY <1>10, <1>3 DEF Crash, TypeOK, Phases, Idle
  <2>2. Held'
    BY <1>10, <1>4, <1>2, <1>3
    DEF Crash, Idle, TypeOK, HasBatch, LockHeld, CheckedVersion, CollisionMeansConflict
  <2> QED
    BY <2>1, <2>2, <1>4, <1>10 DEF IInv, Crash
<1>11. ASSUME UNCHANGED vars PROVE IInv'
  BY <1>11, <1>4, <1>2, <1>3
  DEF vars, IInv, TypeOK, HasBatch, LockHeld, CheckedVersion, CollisionMeansConflict
<1> QED
  BY <1>5, <1>6, <1>7, <1>8, <1>9, <1>10, <1>11, <1>12 DEF Next, Step

-----------------------------------------------------------------------------
THEOREM Invariance == Spec => []IInv
  BY InitEstablishes, StepKeeps, PTL DEF Spec

(* The types, for every set of writers, processes and batches.             *)
THEOREM TypeCorrect == Spec => []TypeOK
  BY Invariance, PTL DEF IInv

(* A run stream is gapless: no sequence is missing, none is used twice.    *)
THEOREM StreamIsContiguous == Spec => []Contiguous
<1>1. IInv => Contiguous
  BY VersionIsLength DEF IInv, Contiguous, Gapless
<1> QED
  BY <1>1, Invariance, PTL

(* The append lock of a process has exactly one coroutine past it.         *)
THEOREM LockIsHeld == Spec => []LockHeld
  BY Invariance, PTL DEF IInv

(* An insert that collides has been overtaken: the conflict is genuine.    *)
THEOREM CollisionIsConflict == Spec => []CollisionMeansConflict
  BY Invariance, PTL DEF IInv

-----------------------------------------------------------------------------
(* The refinement.  The stream RunStream speaks of is the rows in the      *)
(* order of their sequence.                                                *)

LEMMA StreamOfRows ==
    ASSUME NEW n \in Nat, Gapless(n), rows \subseteq Row
    PROVE  /\ Stream = [i \in 1 .. n |-> EventAt(i)]
           /\ Stream \in Seq(Events) /\ Len(Stream) = n
           /\ \A r \in rows : EventAt(r.sequence) = r.event
<1>1. Version = n
  BY VersionIsLength DEF Gapless
<1>2. \A r \in rows : EventAt(r.sequence) = r.event
  BY DEF Gapless, EventAt
<1>3. \A i \in 1 .. n : EventAt(i) \in Events
  <2> TAKE i \in 1 .. n
  <2>1. PICK r \in rows : r.sequence = i
    BY DEF Gapless, Sequences
  <2> QED
    BY <2>1, <1>2 DEF Row
<1> QED
  BY <1>1, <1>2, <1>3 DEF Stream

LEMMA StreamGrows ==
    ASSUME NEW n \in Nat, Gapless(n), rows \subseteq Row, NEW b \in Batches,
           rows' = rows \cup NewRows(n, b)
    PROVE  Stream' = Stream \o b
<1> DEFINE m == n + Len(b)
<1>1. Len(b) \in Nat \ {0} /\ DOMAIN b = 1 .. Len(b) /\ b \in Seq(Events)
  BY BatchTypes
<1>2. Gapless(m)' /\ rows' \subseteq Row
  BY InsertExtends
<1>3. /\ Stream = [i \in 1 .. n |-> EventAt(i)] /\ Len(Stream) = n
      /\ Stream \in Seq(Events)
      /\ \A r \in rows : EventAt(r.sequence) = r.event
  BY StreamOfRows
<1>4. Version' = m
  BY <1>1, <1>2, VersionIsLengthNext DEF Gapless
<1>5. \A r \in rows' : EventAt(r.sequence)' = r.event
  BY <1>2 DEF Gapless, EventAt
<1>6. \A i \in 1 .. n : EventAt(i)' = EventAt(i)
  <2> TAKE i \in 1 .. n
  <2>1. PICK r \in rows : r.sequence = i
    BY DEF Gapless, Sequences
  <2> QED
    BY <2>1, <1>3, <1>5
<1>7. \A i \in 1 .. Len(b) : EventAt(n + i)' = b[i]
  <2> TAKE i \in 1 .. Len(b)
  <2>1. [sequence |-> n + i, event |-> b[i]] \in rows'
    BY <1>1 DEF NewRows
  <2> QED
    BY <2>1, <1>5
<1>8. Stream' = [i \in 1 .. m |-> EventAt(i)']
  BY <1>4 DEF Stream
<1>9. \A i \in 1 .. m : EventAt(i)' = (Stream \o b)[i]
  <2> TAKE i \in 1 .. m
  <2>1. CASE i =< n
    BY <2>1, <1>1, <1>3, <1>6
  <2>2. CASE i > n
    <3>1. i - n \in 1 .. Len(b) /\ n + (i - n) = i
      BY <2>2, <1>1
    <3>2. EventAt(n + (i - n))' = b[i - n]
      BY <3>1, <1>7
    <3>3. (Stream \o b)[i] = b[i - n]
      BY <2>2, <3>1, <1>1, <1>3
    <3> QED
      BY <3>1, <3>2, <3>3
  <2>3. i =< n \/ i > n
    BY <1>1
  <2> QED
    BY <2>1, <2>2, <2>3
<1>10. Stream \o b \in Seq(Events) /\ Len(Stream \o b) = m
  BY <1>1, <1>3, ConcatProperties
<1>11. Stream' \in Seq(Events) /\ Len(Stream') = m
  <2>1. \A i \in 1 .. m : (Stream \o b)[i] \in Events
    BY <1>10, ElementOfSeq
  <2>2. \A i \in 1 .. m : EventAt(i)' \in Events
    BY <2>1, <1>9
  <2>3. m \in Nat
    BY <1>1
  <2> QED
    BY <1>8, <2>2, <2>3
<1>12. \A i \in 1 .. Len(Stream') : Stream'[i] = (Stream \o b)[i]
  BY <1>8, <1>9, <1>11
<1> QED
  BY <1>10, <1>11, <1>12, SeqEqual

(* How the calls look to RunStream.                                        *)
LEMMA AbstractPhases ==
    /\ \A q \in {"waiting"} \cup Holding : AbstractPhase(q) = "open"
    /\ \A q \in {"idle", "ok", "conflict", "error"} : AbstractPhase(q) = q
  BY DEF AbstractPhase, Holding

LEMMA AbstractFields ==
    \A u \in Writers :
        /\ AbstractCall[u].phase = AbstractPhase(call[u].phase)
        /\ AbstractCall[u].expected = call[u].expected
        /\ AbstractCall[u].batch = call[u].batch
  BY DEF AbstractCall

LEMMA AbstractMove ==
    ASSUME TypeOK, NEW w \in Writers, NEW q \in Phases,
           \/ call' = [call EXCEPT ![w].phase = q]
           \/ \E a \in Nat : call' = [call EXCEPT ![w].phase = q, ![w].actual = a]
    PROVE  AbstractCall' = [AbstractCall EXCEPT ![w].phase = AbstractPhase(q)]
<1>1. \A u \in Writers :
          /\ call'[u].phase = IF u = w THEN q ELSE call[u].phase
          /\ call'[u].expected = call[u].expected
          /\ call'[u].batch = call[u].batch
  BY DEF TypeOK
<1> QED
  BY <1>1 DEF AbstractCall

(* A call put as a whole.                                                  *)
LEMMA AbstractPut ==
    ASSUME TypeOK, NEW P \in SUBSET Writers, NEW c,
           call' = [u \in Writers |-> IF u \in P THEN c ELSE call[u]]
    PROVE  AbstractCall' =
             [u \in Writers |-> IF u \in P
                THEN [phase |-> AbstractPhase(c.phase), expected |-> c.expected,
                      batch |-> c.batch]
                ELSE AbstractCall[u]]
<1>1. \A u \in Writers : call'[u] = IF u \in P THEN c ELSE call[u]
  OBVIOUS
<1> QED
  BY <1>1 DEF AbstractCall

LEMMA StepImplements ==
    ASSUME IInv, IInv', [Next]_vars
    PROVE  [RS!Next]_(RS!vars)
<1> USE HomeAssumption
<1>1. PICK n \in Nat : Gapless(n)
  BY DEF IInv
<1>2. TypeOK /\ CheckedVersion /\ CollisionMeansConflict /\ HasBatch
  BY DEF IInv
<1>3. Version = n /\ Len(Stream) = n
  BY <1>1, <1>2, VersionIsLength, StreamOfRows DEF Gapless, TypeOK
<1>4. ASSUME rows' = rows PROVE Stream' = Stream
  BY <1>4 DEF Stream, EventAt, Version, Sequences
<1>5. \A u \in Writers :
          /\ AbstractCall[u].phase = AbstractPhase(call[u].phase)
          /\ AbstractCall[u].expected = call[u].expected
          /\ AbstractCall[u].batch = call[u].batch
  BY AbstractFields
<1>17. [phase |-> AbstractPhase(Idle.phase), expected |-> Idle.expected,
        batch |-> Idle.batch] = RS!Idle
  BY AbstractPhases DEF Idle, NoBatch, RS!Idle, RS!NoBatch
<1>6. ASSUME NEW w \in Writers, NEW v \in 0 .. MaxLength, NEW b \in Batches,
             Invoke(w, v, b)
      PROVE  RS!Next
  <2> DEFINE c == [phase |-> "waiting", expected |-> v, batch |-> b, actual |-> 0]
  <2>1. AbstractCall[w].phase = "idle"
    BY <1>5, <1>6, AbstractPhases DEF Invoke
  <2>2. call' = [u \in Writers |-> IF u \in {w} THEN c ELSE call[u]]
    BY <1>6, <1>2 DEF Invoke, TypeOK
  <2>3. AbstractCall' = [u \in Writers |-> IF u \in {w}
           THEN [phase |-> AbstractPhase(c.phase), expected |-> c.expected,
                 batch |-> c.batch]
           ELSE AbstractCall[u]]
    <3>1. {w} \in SUBSET Writers
      OBVIOUS
    <3> HIDE DEF c
    <3> QED
      BY <3>1, <2>2, <1>2, AbstractPut
  <2>4. AbstractPhase("waiting") = "open"
    BY AbstractPhases
  <2>5. AbstractCall' = [AbstractCall EXCEPT ![w] =
                           [phase |-> "open", expected |-> v, batch |-> b]]
    BY <2>3, <2>4 DEF AbstractCall
  <2>6. RS!Invoke(w, v, b)
    BY <2>1, <2>5, <1>3, <1>4, <1>6 DEF RS!Invoke, Invoke
  <2> QED
    BY <2>6 DEF RS!Next
<1>7. ASSUME NEW w \in Writers, NEW q \in Holding, rows' = rows,
             call[w].phase \in {"waiting"} \cup Holding,
             \/ call' = [call EXCEPT ![w].phase = q]
             \/ \E a \in Nat : call' = [call EXCEPT ![w].phase = q, ![w].actual = a]
      PROVE  UNCHANGED RS!vars
  <2>1. AbstractCall' = [AbstractCall EXCEPT ![w].phase = AbstractPhase(q)]
    <3>1. q \in Phases
      BY DEF Holding, Phases
    <3> QED
      BY <3>1, <1>7, <1>2, AbstractMove
  <2>2. AbstractCall[w].phase = "open" /\ AbstractPhase(q) = "open"
    BY <1>5, <1>7, AbstractPhases
  <2>3. AbstractCall' = AbstractCall
    BY <2>1, <2>2 DEF AbstractCall
  <2> QED
    BY <2>3, <1>4, <1>7 DEF RS!vars
<1>8. ASSUME NEW w \in Writers, NEW q \in {"ok", "conflict", "error"},
             call[w].phase \in Holding, call' = [call EXCEPT ![w].phase = q]
      PROVE  RS!Finish(w, q)
  <2>1. q \in Phases /\ AbstractPhase(q) = q
    BY AbstractPhases DEF Phases
  <2>2. AbstractCall' = [AbstractCall EXCEPT ![w].phase = q]
    BY <2>1, <1>8, <1>2, AbstractMove
  <2>3. AbstractCall[w].phase = "open"
    BY <1>5, <1>8, AbstractPhases
  <2> QED
    BY <2>2, <2>3 DEF RS!Finish
<1>9. ASSUME NEW w \in Writers, Acquire(w) PROVE UNCHANGED RS!vars
  BY <1>9, <1>7 DEF Acquire, Holding
<1>10. ASSUME NEW w \in Writers, CheckVersion(w) PROVE [RS!Next]_(RS!vars)
  <2>1. CASE call[w].expected = n
    BY <1>10, <1>3, <1>7, <2>1 DEF CheckVersion, Holding
  <2>2. CASE call[w].expected # n
    <3>1. RS!Finish(w, "conflict")
      BY <1>10, <1>3, <1>8, <2>2 DEF CheckVersion, Holding
    <3>2. RS!Conflict(w)
      BY <3>1, <2>2, <1>3, <1>4, <1>5, <1>10 DEF RS!Conflict, CheckVersion
    <3> QED
      BY <3>2 DEF RS!Next
  <2> QED
    BY <2>1, <2>2
<1>11. ASSUME NEW w \in Writers, Insert(w) PROVE [RS!Next]_(RS!vars)
  <2>1. PICK b \in Batches, actual \in Nat :
           /\ b = call[w].batch /\ actual = call[w].actual
           /\ actual =< n /\ call[w].expected = actual
    BY <1>11, <1>2, <1>3 DEF Insert, TypeOK, HasBatch, CheckedVersion, Holding
  <2>2. CASE Collides(NewRows(actual, b))
    BY <1>11, <1>7, <2>1, <2>2 DEF Insert, Holding
  <2>3. CASE ~Collides(NewRows(actual, b))
    <3>1. /\ rows' = rows \cup NewRows(actual, b)
          /\ call' = [call EXCEPT ![w].phase = "ok"]
      BY <1>11, <2>1, <2>3 DEF Insert
    <3>2. actual = n
      BY <2>1, <2>3, <1>1, NoCollisionAtEnd
    <3>3. Stream' = Stream \o b
      BY <3>1, <3>2, <1>1, <1>2, StreamGrows DEF TypeOK
    <3>4. RS!Finish(w, "ok")
      BY <3>1, <1>8, <1>11 DEF Insert, Holding
    <3>5. RS!Commit(w)
      BY <3>2, <3>3, <3>4, <2>1, <1>3, <1>5 DEF RS!Commit
    <3> QED
      BY <3>5 DEF RS!Next
  <2> QED
    BY <2>2, <2>3
<1>12. ASSUME NEW w \in Writers, Recheck(w) PROVE RS!Next
  <2>1. RS!Finish(w, "conflict")
    BY <1>12, <1>8 DEF Recheck, Holding
  <2>2. call[w].expected # n
    BY <1>12, <1>2, <1>3 DEF Recheck, CollisionMeansConflict, TypeOK
  <2>3. RS!Conflict(w)
    BY <2>1, <2>2, <1>3, <1>4, <1>5, <1>12 DEF RS!Conflict, Recheck
  <2> QED
    BY <2>3 DEF RS!Next
<1>13. ASSUME NEW w \in Writers, DatabaseError(w) PROVE RS!Next
  <2>1. RS!Fail(w)
    BY <1>13, <1>8, <1>4 DEF RS!Fail, DatabaseError
  <2> QED
    BY <2>1 DEF RS!Next
<1>14. ASSUME NEW w \in Writers, Return(w) PROVE RS!Next
  <2>1. AbstractCall[w].phase \in RS!Outcomes
    BY <1>14, <1>5, AbstractPhases DEF Return, RS!Outcomes
  <2>2. call' = [u \in Writers |-> IF u \in {w} THEN Idle ELSE call[u]]
    BY <1>14, <1>2 DEF Return, TypeOK
  <2>3. AbstractCall' = [u \in Writers |-> IF u \in {w} THEN RS!Idle
                                            ELSE AbstractCall[u]]
    <3>1. {w} \in SUBSET Writers
      OBVIOUS
    <3>2. AbstractCall' = [u \in Writers |-> IF u \in {w}
             THEN [phase |-> AbstractPhase(Idle.phase),
                   expected |-> Idle.expected, batch |-> Idle.batch]
             ELSE AbstractCall[u]]
      BY <3>1, <2>2, <1>2, AbstractPut
    <3> QED
      BY <3>2, <1>17
  <2>4. AbstractCall' = [AbstractCall EXCEPT ![w] = RS!Idle]
    BY <2>3 DEF AbstractCall
  <2>5. RS!Return(w)
    BY <2>1, <2>4, <1>4, <1>14 DEF RS!Return, Return
  <2> QED
    BY <2>5 DEF RS!Next
<1>15. ASSUME NEW p \in Processes, Crash(p) PROVE RS!Next
  <2> DEFINE dead == {w \in Writers : Home[w] = p}
  <2>1. call' = [u \in Writers |-> IF u \in dead THEN Idle ELSE call[u]]
    BY <1>15 DEF Crash
  <2>2. dead \in SUBSET Writers
    OBVIOUS
  <2>3. AbstractCall' = [u \in Writers |-> IF u \in dead THEN RS!Idle
                                            ELSE AbstractCall[u]]
    <3> HIDE DEF dead
    <3> QED
      BY <2>1, <2>2, <1>2, <1>17, AbstractPut
  <2>4. RS!Lose(dead)
    BY <2>3, <1>4, <1>15 DEF RS!Lose, Crash
  <2> QED
    BY <2>2, <2>4 DEF RS!Next
<1>16. CASE UNCHANGED vars
  BY <1>16, <1>4 DEF vars, RS!vars, AbstractCall
<1> QED
  BY <1>6, <1>9, <1>10, <1>11, <1>12, <1>13, <1>14, <1>15, <1>16 DEF Next, Step

(* SqlEventStore.append implements the compare-and-append of RunStream.    *)
THEOREM StoreImplementsRunStream == Spec => ImplementsRunStream
<1>1. Init => RS!Init
  <2> SUFFICES ASSUME Init PROVE RS!Init
    OBVIOUS
  <2>1. Gapless(0) /\ rows = {}
    BY DEF Init, Gapless, Sequences
  <2>2. Stream = <<>>
    BY <2>1, VersionIsLength DEF Stream, Gapless
  <2>3. AbstractCall = [w \in Writers |-> RS!Idle]
    BY DEF Init, AbstractCall, AbstractPhase, Holding, Idle, NoBatch,
           RS!Idle, RS!NoBatch
  <2> QED
    BY <2>2, <2>3 DEF RS!Init
<1>2. IInv /\ IInv' /\ [Next]_vars => [RS!Next]_(RS!vars)
  BY StepImplements
<1> QED
  BY <1>1, <1>2, Invariance, PTL DEF Spec, ImplementsRunStream, RS!Spec
=============================================================================
