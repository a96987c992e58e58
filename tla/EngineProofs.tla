---------------------------- MODULE EngineProofs -----------------------------
(***************************************************************************)
(* One run is executed by one task at a time, and no attempt number is     *)
(* used twice, for any numbers of tasks, requests, graders, events, crashes *)
(* and retries.  The first two sections are about streams: what an append  *)
(* changes in the readings of RunReplay.tla, and what its loop computes.   *)
(*                                                                         *)
(* The inductive invariant is IInv.  Its core is Alone (a live task is the *)
(* registered one, and a request that is about to create a task holds the  *)
(* start lock and saw no live task) and FreshStart (the snapshot of a task *)
(* about to append run.started still tells the attempt of the stream: only *)
(* a task appends run.started, and there is no other task).                *)
(***************************************************************************)
EXTENDS SupervisorEngine, FiniteSetTheorems, SequenceTheorems, TLAPS

-----------------------------------------------------------------------------
(* Positions in a stream.                                                  *)

(* A non-empty set of naturals has a least element.                        *)
Below == {p \in Nat \X Nat : p[1] < p[2]}

LEMMA BelowWellFounded == IsWellFoundedOn(Below, Nat)
  BY NatLessThanWellFounded DEF OpToRel, Below

LEMMA LeastNat ==
    ASSUME NEW S \in SUBSET Nat, S # {}
    PROVE  \E n \in S : \A m \in S : n =< m
<1>1. PICK n \in S : \A m \in S : ~ (<<m, n>> \in Below)
  BY BelowWellFounded, WFMin
<1>2. \A m \in S : ~ (m < n)
  BY <1>1 DEF Below
<1> QED
  BY <1>1, <1>2

(* A non-empty bounded set of positions has a last one.                    *)
LEMMA LastPosition ==
    ASSUME NEW m \in Nat, NEW S \in SUBSET (1 .. m), S # {}
    PROVE  \E n \in S : \A i \in S : i =< n
<1> DEFINE U == {k \in Nat : \A i \in S : i =< k}
<1>1. PICK k \in U : \A j \in U : k =< j
  <2>1. m \in U /\ U \in SUBSET Nat
    OBVIOUS
  <2> HIDE DEF U
  <2> QED
    BY <2>1, LeastNat
<1>2. k \in S
  <2> SUFFICES ASSUME k \notin S PROVE FALSE
    OBVIOUS
  <2>1. k \in Nat /\ \A i \in S : i \in Nat /\ i >= 1 /\ i < k
    BY <1>1
  <2>2. k - 1 \in U
    <3>1. k # 0
      <4>1. PICK i \in S : TRUE
        OBVIOUS
      <4> QED
        BY <2>1, <4>1
    <3>2. k - 1 \in Nat /\ \A i \in S : i =< k - 1
      BY <2>1, <3>1
    <3> QED
      BY <3>2
  <2> QED
    BY <1>1, <2>1, <2>2
<1> QED
  BY <1>1, <1>2

(* The n-th of a set of positions exists, and n of them are up to it.        *)
LEMMA NthExists ==
    ASSUME NEW m \in Nat, NEW S \in SUBSET (1 .. m), NEW n \in 1 .. Cardinality(S)
    PROVE  Nth(S, n) \in S /\ Cardinality({j \in S : j =< Nth(S, n)}) = n
<1> DEFINE Upto(k) == {j \in S : j =< k}
           T == {k \in Nat : Cardinality(Upto(k)) >= n}
<1>0. \A j \in S : j \in Nat /\ j >= 1 /\ j =< m
  OBVIOUS
<1>1. IsFiniteSet(S) /\ Cardinality(S) \in Nat
  <2>1. IsFiniteSet(1 .. m)
    BY FS_Interval
  <2> QED
    BY <2>1, FS_Subset, FS_CardinalityType
<1>2. ASSUME NEW k \in Nat
      PROVE  IsFiniteSet(Upto(k)) /\ Cardinality(Upto(k)) \in Nat
  <2>1. Upto(k) \in SUBSET S
    OBVIOUS
  <2> HIDE DEF Upto
  <2> QED
    BY <2>1, <1>1, FS_Subset, FS_CardinalityType
<1>3. PICK k \in T : \A j \in T : k =< j
  <2>1. Upto(m) = S
    BY <1>0
  <2>2. m \in T /\ T \in SUBSET Nat
    <3> HIDE DEF Upto
    <3> QED
      BY <2>1, <1>1
  <2> HIDE DEF T
  <2> QED
    BY <2>2, LeastNat
<1>4. k # 0
  <2> SUFFICES ASSUME k = 0 PROVE FALSE
    OBVIOUS
  <2>1. Upto(0) = {}
    <3>1. \A j \in S : ~ (j =< 0)
      BY <1>0
    <3> QED
      BY <3>1
  <2>2. Cardinality(Upto(0)) = 0
    BY <2>1, FS_EmptySet
  <2> HIDE DEF Upto
  <2> QED
    BY <1>3, <2>2
<1>5. k \in Nat /\ k - 1 \in Nat /\ Cardinality(Upto(k)) >= n
  BY <1>3, <1>4
<1>6. Cardinality(Upto(k - 1)) < n
  <2>1. k - 1 \notin T
    <3> HIDE DEF T
    <3> QED
      BY <1>3, <1>5
  <2>2. Cardinality(Upto(k - 1)) \in Nat
    BY <1>5, <1>2
  <2> QED
    BY <2>1, <2>2, <1>5
<1>7. k \in S
  <2> SUFFICES ASSUME k \notin S PROVE FALSE
    OBVIOUS
  <2>1. Upto(k) = Upto(k - 1)
    <3>1. \A j \in S : j =< k <=> j =< k - 1
      BY <1>0, <1>5
    <3> QED
      BY <3>1
  <2> HIDE DEF Upto
  <2> QED
    BY <2>1, <1>2, <1>5, <1>6
<1>8. Cardinality(Upto(k)) = Cardinality(Upto(k - 1)) + 1
  <2>1. k \notin Upto(k - 1) /\ Upto(k) = Upto(k - 1) \cup {k}
    <3>1. \A j \in S : j =< k <=> j =< k - 1 \/ j = k
      BY <1>0, <1>5
    <3>2. ~ (k =< k - 1) /\ k =< k
      BY <1>5
    <3> QED
      BY <3>1, <3>2, <1>7
  <2> HIDE DEF Upto
  <2> QED
    BY <2>1, <1>2, <1>5, FS_AddElement
<1>9. Cardinality(Upto(k)) = n
  <2>1. Cardinality(Upto(k - 1)) \in Nat
    BY <1>5, <1>2
  <2> HIDE DEF Upto
  <2> QED
    BY <2>1, <1>5, <1>6, <1>8
<1> QED
  BY <1>7, <1>9 DEF Nth

-----------------------------------------------------------------------------
(* Streams.                                                                *)
Amounts == [Resources -> Nat]
EventSet(types, words) ==
    [type : types, attempt : Nat, usage : Amounts, data : words]
Starts(l) == {i \in DOMAIN l : l[i].type = "run.started"}

(* LastOf is 0 if no event has one of the types, and else the last such.   *)
LEMMA LastOfIs ==
    ASSUME NEW S, NEW l \in Seq(S), NEW types
    PROVE  LET at == {i \in DOMAIN l : l[i].type \in types} IN
           /\ at = {} => LastOf(l, types) = 0
           /\ at # {} => /\ LastOf(l, types) \in at
                         /\ \A j \in at : j =< LastOf(l, types)
<1> DEFINE at == {i \in DOMAIN l : l[i].type \in types}
<1>1. at \in SUBSET (1 .. Len(l)) /\ Len(l) \in Nat
  OBVIOUS
<1>2. CASE at = {}
  BY <1>2 DEF LastOf
<1>3. CASE at # {}
  <2>1. \E n \in at : \A j \in at : j =< n
    <3> HIDE DEF at
    <3> QED
      BY <1>1, <1>3, LastPosition
  <2>2. LastOf(l, types) = CHOOSE i \in at : \A j \in at : j =< i
    BY <1>3 DEF LastOf
  <2> HIDE DEF at
  <2>3. LastOf(l, types) \in at /\ \A j \in at : j =< LastOf(l, types)
    BY <2>1, <2>2
  <2> QED
    BY <2>3, <1>3 DEF at
<1> QED
  BY <1>2, <1>3

(* The attempt number is that of the last run.started.                     *)
LEMMA AttemptIs ==
    ASSUME NEW types, NEW words, NEW l \in Seq(EventSet(types, words))
    PROVE  /\ Attempt(l) \in Nat
           /\ Starts(l) = {} => Attempt(l) = 0
           /\ \A i \in Starts(l) :
                 (\A j \in Starts(l) : j =< i) => Attempt(l) = l[i].attempt
<1> DEFINE last == LastOf(l, StartTypes)
<1>1. Starts(l) = {i \in DOMAIN l : l[i].type \in StartTypes}
  BY DEF Starts, StartTypes
<1>2. /\ Starts(l) = {} => last = 0
      /\ Starts(l) # {} => last \in Starts(l) /\ \A j \in Starts(l) : j =< last
  BY <1>1, LastOfIs
<1>3. \A i \in Starts(l) : i \in 1 .. Len(l) /\ i \in Nat /\ l[i].attempt \in Nat
  <2> TAKE i \in Starts(l)
  <2>1. i \in 1 .. Len(l) /\ l[i] \in EventSet(types, words)
    BY ElementOfSeq DEF Starts
  <2> QED
    BY <2>1 DEF EventSet
<1>4. Attempt(l) = IF last = 0 THEN 0 ELSE l[last].attempt
  BY DEF Attempt
<1> HIDE DEF last
<1>5. ASSUME NEW i \in Starts(l), \A j \in Starts(l) : j =< i
      PROVE  Attempt(l) = l[i].attempt
  <2>1. last \in Starts(l) /\ i =< last /\ last =< i
    BY <1>2, <1>5
  <2>2. last = i /\ last # 0
    BY <2>1, <1>3
  <2> QED
    BY <2>2, <1>4
<1>6. Starts(l) # {} => last # 0 /\ Attempt(l) \in Nat
  BY <1>2, <1>3, <1>4
<1> QED
  BY <1>2, <1>4, <1>5, <1>6

(* What an append leaves in place.                                         *)
LEMMA Appended ==
    ASSUME NEW S, NEW l \in Seq(S), NEW b \in Seq(S)
    PROVE  /\ l \o b \in Seq(S)
           /\ DOMAIN (l \o b) = 1 .. Len(l) + Len(b)
           /\ \A i \in DOMAIN l : i \in DOMAIN (l \o b) /\ (l \o b)[i] = l[i]
           /\ \A i \in DOMAIN (l \o b) \ DOMAIN l :
                 /\ i - Len(l) \in DOMAIN b
                 /\ (l \o b)[i] = b[i - Len(l)]
                 /\ \A j \in DOMAIN l : j < i
<1>1. /\ l \o b \in Seq(S) /\ Len(l \o b) = Len(l) + Len(b)
      /\ \A i \in 1 .. Len(l) + Len(b) :
            (l \o b)[i] = IF i <= Len(l) THEN l[i] ELSE b[i - Len(l)]
  BY ConcatProperties
<1>2. /\ Len(l) \in Nat /\ DOMAIN l = 1 .. Len(l)
      /\ Len(b) \in Nat /\ DOMAIN b = 1 .. Len(b)
      /\ DOMAIN (l \o b) = 1 .. Len(l) + Len(b)
  BY <1>1, LenProperties
<1>3. ASSUME NEW i \in DOMAIN l
      PROVE  i \in DOMAIN (l \o b) /\ (l \o b)[i] = l[i]
  BY <1>1, <1>2
<1>4. ASSUME NEW i \in DOMAIN (l \o b) \ DOMAIN l
      PROVE  /\ i - Len(l) \in DOMAIN b
             /\ (l \o b)[i] = b[i - Len(l)]
             /\ \A j \in DOMAIN l : j < i
  BY <1>1, <1>2
<1> QED
  BY <1>1, <1>2, <1>3, <1>4

(* An append of one event.                                                 *)
LEMMA OneAppended ==
    ASSUME NEW S, NEW l \in Seq(S), NEW e \in S
    PROVE  /\ l \o <<e>> \in Seq(S)
           /\ DOMAIN (l \o <<e>>) = DOMAIN l \cup {Len(l) + 1}
           /\ Len(l) + 1 \notin DOMAIN l
           /\ \A i \in DOMAIN l :
                 (l \o <<e>>)[i] = l[i] /\ i \in Nat /\ i # 0 /\ i < Len(l) + 1
           /\ (l \o <<e>>)[Len(l) + 1] = e
           /\ Len(l) + 1 \in Nat /\ Len(l) + 1 # 0
<1> DEFINE m == l \o <<e>>
           n == Len(l) + 1
<1>1. <<e>> \in Seq(S) /\ Len(<<e>>) = 1 /\ DOMAIN <<e>> = {1} /\ <<e>>[1] = e
  OBVIOUS
<1>2. Len(l) \in Nat /\ DOMAIN l = 1 .. Len(l)
  BY LenProperties
<1>3. /\ m \in Seq(S) /\ DOMAIN m = 1 .. n
      /\ \A i \in DOMAIN l : m[i] = l[i]
      /\ m[n] = e
  <2>1. n \in (1 .. n) \ (1 .. Len(l)) /\ n - Len(l) = 1
    BY <1>2
  <2> QED
    BY <2>1, <1>1, <1>2, Appended
<1>4. /\ 1 .. n = DOMAIN l \cup {n} /\ n \notin DOMAIN l /\ n \in Nat /\ n # 0
      /\ \A i \in DOMAIN l : i \in Nat /\ i # 0 /\ i < n
  BY <1>2
<1> HIDE DEF m
<1> QED
  BY <1>3, <1>4 DEF m

(* Events that do not start an attempt leave the attempt number.           *)
LEMMA AttemptKept ==
    ASSUME NEW types, NEW words, NEW l \in Seq(EventSet(types, words)), NEW b \in Seq(EventSet(types, words)),
           \A i \in DOMAIN b : b[i].type # "run.started"
    PROVE  Starts(l \o b) = Starts(l) /\ Attempt(l \o b) = Attempt(l)
<1>1. Starts(l \o b) = Starts(l)
  BY Appended DEF Starts
<1>2. l \o b \in Seq(EventSet(types, words)) /\ \A i \in Starts(l) : (l \o b)[i] = l[i]
  BY Appended DEF Starts
<1>3. CASE Starts(l) = {}
  BY <1>1, <1>2, <1>3, AttemptIs
<1>4. CASE Starts(l) # {}
  <2>1. Starts(l) \in SUBSET (1 .. Len(l)) /\ Len(l) \in Nat
    BY DEF Starts
  <2>2. PICK i \in Starts(l) : \A j \in Starts(l) : j =< i
    BY <1>4, <2>1, LastPosition
  <2>3. Attempt(l) = l[i].attempt
    BY <2>2, AttemptIs
  <2>4. Attempt(l \o b) = (l \o b)[i].attempt
    <3> DEFINE m == l \o b
    <3>1. i \in Starts(m) /\ \A j \in Starts(m) : j =< i
      BY <1>1, <2>2
    <3>2. m \in Seq(EventSet(types, words))
      BY <1>2
    <3> HIDE DEF m
    <3>3. Attempt(m) = m[i].attempt
      BY <3>1, <3>2, AttemptIs
    <3> QED
      BY <3>3 DEF m
  <2> QED
    BY <1>1, <1>2, <2>2, <2>3, <2>4
<1> QED
  BY <1>1, <1>3, <1>4

(* A run.started sets it.                                                  *)
LEMMA AttemptSet ==
    ASSUME NEW types, NEW words, NEW l \in Seq(EventSet(types, words)), NEW e \in EventSet(types, words), e.type = "run.started"
    PROVE  /\ Starts(l \o <<e>>) = Starts(l) \cup {Len(l) + 1}
           /\ (l \o <<e>>)[Len(l) + 1] = e
           /\ Attempt(l \o <<e>>) = e.attempt
<1>1. <<e>> \in Seq(EventSet(types, words)) /\ Len(<<e>>) = 1 /\ DOMAIN <<e>> = {1} /\ <<e>>[1] = e
  OBVIOUS
<1>2. Len(l) \in Nat /\ DOMAIN l = 1 .. Len(l)
  BY LenProperties
<1> DEFINE m == l \o <<e>>
           n == Len(l) + 1
<1>3. /\ m \in Seq(EventSet(types, words)) /\ DOMAIN m = 1 .. n
      /\ \A i \in DOMAIN l : m[i] = l[i]
      /\ m[n] = e
  <2>1. n \in (1 .. n) \ (1 .. Len(l)) /\ n - Len(l) = 1
    BY <1>2
  <2> QED
    BY <2>1, <1>1, <1>2, Appended
<1>4. DOMAIN m = DOMAIN l \cup {n} /\ \A j \in DOMAIN l : j =< n
  BY <1>2, <1>3
<1> HIDE DEF m, n
<1>5. Starts(m) = Starts(l) \cup {n}
  BY <1>3, <1>4 DEF Starts
<1>6. n \in Starts(m) /\ \A j \in Starts(m) : j =< n
  <2>1. n \in Nat
    BY <1>2 DEF n
  <2> QED
    BY <2>1, <1>4, <1>5 DEF Starts
<1>7. Attempt(m) = e.attempt
  BY <1>3, <1>6, AttemptIs
<1> QED
  BY <1>3, <1>5, <1>7 DEF m, n

(* A resource used is counted on a finite set, one unit for each.          *)
Reports(l) == {j \in DOMAIN l : l[j].type = "agent.execution.completed"}
Units(l, u) == UNION {{i} \X (1 .. l[i].usage[u]) : i \in Reports(l)}

LEMMA UnitsFinite ==
    ASSUME NEW types, NEW words, NEW u \in Resources, NEW l \in Seq(EventSet(types, words))
    PROVE  IsFiniteSet(Units(l, u)) /\ Used(l, u) = Cardinality(Units(l, u)) /\ Used(l, u) \in Nat
<1> DEFINE at == Reports(l)
           U(i) == {i} \X (1 .. l[i].usage[u])
           C == {U(i) : i \in at}
<1>1. IsFiniteSet(at)
  <2>1. at \in SUBSET (1 .. Len(l)) /\ 1 \in Int /\ Len(l) \in Int
    BY DEF Reports
  <2>2. IsFiniteSet(1 .. Len(l))
    BY <2>1, FS_Interval
  <2> HIDE DEF at
  <2> QED
    BY <2>1, <2>2, FS_Subset
<1>2. \A i \in at : IsFiniteSet(U(i))
  <2> TAKE i \in at
  <2>1. l[i] \in EventSet(types, words)
    BY ElementOfSeq DEF Reports
  <2>2. l[i].usage[u] \in Nat
    BY <2>1 DEF EventSet, Amounts
  <2>3. 1 \in Int /\ l[i].usage[u] \in Int
    BY <2>2
  <2>4. IsFiniteSet(1 .. l[i].usage[u])
    BY <2>3, FS_Interval
  <2>5. IsFiniteSet({i})
    BY FS_Singleton
  <2> QED
    BY <2>4, <2>5, FS_Product
<1>3. IsFiniteSet(C)
  <2> DEFINE f == [i \in at |-> U(i)]
  <2>1. f \in Surjection(at, C)
    <3> HIDE DEF at, U
    <3> QED
      BY DEF Surjection
  <2> HIDE DEF at, C, f
  <2> QED
    BY <1>1, <2>1, FS_Surjection
<1>4. IsFiniteSet(UNION C)
  <2> HIDE DEF at, U
  <2>1. \A T \in C : IsFiniteSet(T)
    BY <1>2
  <2> HIDE DEF C
  <2> QED
    BY <2>1, <1>3, FS_UNION
<1>5. Used(l, u) = Cardinality(UNION C) /\ Units(l, u) = UNION C
  BY DEF Used, Units, Reports
<1> HIDE DEF C
<1> QED
  BY <1>4, <1>5, FS_CardinalityType

(* Events that report no execution leave what was used.                    *)
LEMMA UsageKept ==
    ASSUME NEW types, NEW words, NEW u \in Resources, NEW l \in Seq(EventSet(types, words)),
           NEW b \in Seq(EventSet(types, words)),
           \A i \in DOMAIN b : b[i].type # "agent.execution.completed"
    PROVE  Used(l \o b, u) = Used(l, u)
<1> DEFINE m == l \o b
<1>1. /\ m \in Seq(EventSet(types, words))
      /\ \A i \in DOMAIN l : i \in DOMAIN m /\ m[i] = l[i]
      /\ \A i \in DOMAIN m \ DOMAIN l : m[i].type # "agent.execution.completed"
  BY Appended
<1> HIDE DEF m
<1>2. Reports(m) = Reports(l)
  BY <1>1 DEF Reports
<1>3. \A i \in Reports(l) : m[i] = l[i]
  BY <1>1 DEF Reports
<1>4. {{i} \X (1 .. m[i].usage[u]) : i \in Reports(m)}
        = {{i} \X (1 .. l[i].usage[u]) : i \in Reports(l)}
  BY <1>2, <1>3
<1>5. Units(m, u) = Units(l, u)
  BY <1>4 DEF Units
<1>6. Used(m, u) = Used(l, u)
  BY <1>1, <1>5, UnitsFinite
<1> QED
  BY <1>6 DEF m

(* The report of an execution adds what it used.                           *)
LEMMA UsageAdded ==
    ASSUME NEW types, NEW words, NEW u \in Resources, NEW l \in Seq(EventSet(types, words)),
           NEW e \in EventSet(types, words), e.type = "agent.execution.completed"
    PROVE  Used(l \o <<e>>, u) = Used(l, u) + e.usage[u]
<1> DEFINE m == l \o <<e>>
           n == Len(l) + 1
           New == {n} \X (1 .. e.usage[u])
<1>1. <<e>> \in Seq(EventSet(types, words)) /\ DOMAIN <<e>> = {1} /\ <<e>>[1] = e
      /\ Len(<<e>>) = 1 /\ e.usage[u] \in Nat
  BY DEF EventSet, Amounts
<1>2. Len(l) \in Nat /\ DOMAIN l = 1 .. Len(l)
  BY LenProperties
<1>3. /\ m \in Seq(EventSet(types, words)) /\ DOMAIN m = 1 .. n
      /\ \A i \in DOMAIN l : m[i] = l[i]
      /\ m[n] = e
  <2>1. n \in (1 .. n) \ (1 .. Len(l)) /\ n - Len(l) = 1
    BY <1>2
  <2> QED
    BY <2>1, <1>1, <1>2, Appended
<1>4. DOMAIN m = DOMAIN l \cup {n} /\ n \notin DOMAIN l
  BY <1>2, <1>3
<1> HIDE DEF m, n
<1>5. Reports(m) = Reports(l) \cup {n} /\ n \notin Reports(l)
  BY <1>3, <1>4 DEF Reports
<1>6. \A i \in Reports(l) : m[i] = l[i]
  BY <1>3 DEF Reports
<1>7. {{i} \X (1 .. m[i].usage[u]) : i \in Reports(m)}
        = {{i} \X (1 .. l[i].usage[u]) : i \in Reports(l)} \cup {New}
  BY <1>3, <1>5, <1>6
<1>8. Units(m, u) = Units(l, u) \cup New
  BY <1>7 DEF Units
<1>9. Units(l, u) \cap New = {}
  <2>1. \A p \in New : p[1] = n
    OBVIOUS
  <2>2. \A p \in Units(l, u) : p[1] \in Reports(l)
    BY DEF Units
  <2> HIDE DEF New
  <2> QED
    BY <2>1, <2>2, <1>5
<1>10. IsFiniteSet(New) /\ Cardinality(New) = e.usage[u]
  <2>1. IsFiniteSet({n}) /\ Cardinality({n}) = 1
    BY FS_Singleton
  <2>2. IsFiniteSet(1 .. e.usage[u]) /\ Cardinality(1 .. e.usage[u]) = e.usage[u]
    <3>1. 1 \in Int /\ e.usage[u] \in Int
      BY <1>1
    <3>2. /\ IsFiniteSet(1 .. e.usage[u])
          /\ Cardinality(1 .. e.usage[u]) = IF 1 > e.usage[u] THEN 0 ELSE e.usage[u] - 1 + 1
      BY <3>1, FS_Interval
    <3> QED
      BY <3>2, <1>1
  <2>3. /\ IsFiniteSet({n} \X (1 .. e.usage[u]))
        /\ Cardinality({n} \X (1 .. e.usage[u])) = Cardinality({n}) * Cardinality(1 .. e.usage[u])
    BY <2>1, <2>2, FS_Product
  <2>4. 1 * e.usage[u] = e.usage[u]
    BY <1>1
  <2> QED
    BY <2>1, <2>2, <2>3, <2>4
<1> HIDE DEF New
<1>11. IsFiniteSet(Units(l, u)) /\ Used(l, u) = Cardinality(Units(l, u)) /\ Used(l, u) \in Nat
       /\ Used(m, u) = Cardinality(Units(m, u))
  BY <1>3, UnitsFinite
<1>12. Cardinality(Units(l, u) \cup New)
          = Cardinality(Units(l, u)) + Cardinality(New) - Cardinality(Units(l, u) \cap New)
  BY <1>10, <1>11, FS_Union
<1>13. Cardinality(Units(l, u) \cap New) = 0
  BY <1>9, FS_EmptySet
<1>14. Used(m, u) = Used(l, u) + e.usage[u]
  BY <1>1, <1>8, <1>10, <1>11, <1>12, <1>13
<1> QED
  BY <1>14 DEF m

\* All that is used, resource by resource.
UsedOf(l) == [u \in Resources |-> Used(l, u)]

LEMMA UsedOfIs ==
    ASSUME NEW types, NEW words, NEW l \in Seq(EventSet(types, words)),
           NEW e \in EventSet(types, words)
    PROVE  /\ UsedOf(l) \in Amounts
           /\ UsedOf(l \o <<e>>) =
                IF e.type = "agent.execution.completed"
                THEN [u \in Resources |-> UsedOf(l)[u] + e.usage[u]] ELSE UsedOf(l)
<1>1. \A u \in Resources : Used(l, u) \in Nat
  BY UnitsFinite
<1>2. ASSUME NEW u \in Resources
      PROVE  Used(l \o <<e>>, u) = IF e.type = "agent.execution.completed"
                                  THEN Used(l, u) + e.usage[u] ELSE Used(l, u)
  <2>1. CASE e.type = "agent.execution.completed"
    BY <2>1, UsageAdded
  <2>2. CASE e.type # "agent.execution.completed"
    <3> DEFINE b == <<e>>
    <3>1. b \in Seq(EventSet(types, words))
          /\ \A i \in DOMAIN b : b[i].type # "agent.execution.completed"
      BY <2>2
    <3> HIDE DEF b
    <3>2. Used(l \o b, u) = Used(l, u)
      BY <3>1, UsageKept
    <3> QED
      BY <2>2, <3>2 DEF b
  <2> QED
    BY <2>1, <2>2
<1> QED
  BY <1>1, <1>2 DEF UsedOf, Amounts

LEMMA UsedOfKept ==
    ASSUME NEW types, NEW words, NEW l \in Seq(EventSet(types, words)),
           NEW b \in Seq(EventSet(types, words)),
           \A i \in DOMAIN b : b[i].type # "agent.execution.completed"
    PROVE  UsedOf(l \o b) = UsedOf(l)
<1>1. \A u \in Resources : Used(l \o b, u) = Used(l, u)
  BY UsageKept
<1> QED
  BY <1>1 DEF UsedOf

(* A run becomes runnable only by an event that says so.                   *)
LEMMA RunnableBy ==
    ASSUME NEW S, NEW l \in Seq(S), NEW b \in Seq(S),
           \A i \in DOMAIN b :
              b[i].type \notin {"run.retry_scheduled", "run.resumed", "run.recovered"},
           Status(l \o b) \in Runnable
    PROVE  Status(l) \in Runnable
<1> DEFINE m == l \o b
           before == {i \in DOMAIN l : l[i].type \in StatusTypes}
           after  == {i \in DOMAIN m : m[i].type \in StatusTypes}
           k == LastOf(m, StatusTypes)
           n == LastOf(l, StatusTypes)
<1>1. /\ m \in Seq(S)
      /\ \A i \in DOMAIN l : i \in DOMAIN m /\ m[i] = l[i]
      /\ \A i \in DOMAIN m \ DOMAIN l : \E j \in DOMAIN b : m[i] = b[j]
  BY Appended
<1>2. DOMAIN m \subseteq Nat \ {0}
  BY <1>1, LenProperties
<1>3. /\ before = {} => n = 0
      /\ before # {} => n \in before /\ \A j \in before : j =< n
  BY LastOfIs
<1>4. /\ after = {} => k = 0
      /\ after # {} => k \in after /\ \A j \in after : j =< k
  BY <1>1, LastOfIs
<1>5. /\ Status(m) = IF k = 0 THEN "created" ELSE StatusAfter(m[k].type)
      /\ Status(l) = IF n = 0 THEN "created" ELSE StatusAfter(l[n].type)
  BY DEF Status
<1>6. Status(m) \in Runnable
  OBVIOUS
<1> HIDE DEF m, k, n
<1>7. before \subseteq after
  BY <1>1
<1>8. CASE after = {}
  BY <1>3, <1>5, <1>7, <1>8 DEF Runnable
<1>9. CASE after # {}
  <2>1. k \in after /\ k # 0
    BY <1>2, <1>4, <1>9
  <2>2. m[k].type \in StatusTypes /\ StatusAfter(m[k].type) \in Runnable
    BY <1>5, <1>6, <2>1
  <2>3. m[k].type \in {"run.retry_scheduled", "run.resumed", "run.recovered"}
    BY <2>2 DEF StatusTypes, StatusAfter, Runnable
  <2>4. k \in DOMAIN l
    BY <1>1, <2>1, <2>3
  <2>5. k \in before /\ m[k] = l[k]
    BY <1>1, <2>1, <2>4
  <2>6. n \in before /\ k =< n /\ n =< k
    BY <1>3, <1>4, <1>7, <1>9, <2>5
  <2>7. n = k
    BY <1>1, <1>2, <2>4, <2>6
  <2> QED
    BY <1>5, <2>1, <2>2, <2>5, <2>7
<1> QED
  BY <1>8, <1>9

-----------------------------------------------------------------------------
(* The loop of replay: what it has computed after the events of a stream   *)
(* is what the last event of each kind says.                               *)

(* The state before the first turn, and the loop over the positions of a   *)
(* stream: Loop(s) is what FoldLeft computes, set of positions by set.     *)
NewRun == [status |-> "created", attempt |-> 0, used |-> NoUsage, steps |-> 0,
           score |-> "none", hints |-> <<>>, override |-> FALSE]
Turn(f, u, s) == IF u = {} THEN NewRun ELSE Apply(f[u \ {Max(u)}], s[Max(u)])
Loop(s) == CHOOSE f : f = [u \in SUBSET DOMAIN s |-> Turn(f, u, s)]

(* Max is the greatest of a set of positions.                              *)
LEMMA MaxIs ==
    ASSUME NEW n \in Nat, NEW u \in SUBSET (1 .. n), u # {}
    PROVE  Max(u) \in u /\ \A i \in u : i =< Max(u)
<1>1. PICK m \in u : \A i \in u : i =< m
  BY LastPosition
<1>2. \A i \in u : m >= i
  BY <1>1
<1>3. \E x \in u : \A i \in u : x >= i
  BY <1>2
<1>4. Max(u) \in u /\ \A i \in u : Max(u) >= i
  BY <1>3 DEF Max
<1> QED
  BY <1>4

(* The recursion of the fold has a solution, built up position by position. *)
LEMMA LoopExists ==
    ASSUME NEW S, NEW s \in Seq(S)
    PROVE  Loop(s) = [u \in SUBSET DOMAIN s |-> Turn(Loop(s), u, s)]
<1> DEFINE Upto(k, f) == f = [u \in SUBSET (1 .. k) |-> Turn(f, u, s)]
           Bad == {k \in 0 .. Len(s) : ~ \E f : Upto(k, f)}
<1>1. Len(s) \in Nat /\ DOMAIN s = 1 .. Len(s)
  BY LenProperties
<1>2. Bad = {}
  <2> SUFFICES ASSUME Bad # {} PROVE FALSE
    OBVIOUS
  <2>1. PICK k \in Bad : \A j \in Bad : k =< j
    <3>1. Bad \in SUBSET Nat
      BY <1>1
    <3> HIDE DEF Bad
    <3> QED
      BY <3>1, LeastNat
  <2>2. k \in 0 .. Len(s) /\ ~ \E f : Upto(k, f)
    BY <2>1
  <2>3. CASE k = 0
    <3> DEFINE f == [u \in SUBSET (1 .. 0) |-> NewRun]
    <3>1. 1 .. 0 = {}
      OBVIOUS
    <3>2. \A u \in SUBSET (1 .. 0) : f[u] = Turn(f, u, s)
      BY <3>1 DEF Turn
    <3>3. Upto(0, f)
      BY <3>2
    <3> QED
      BY <2>2, <2>3, <3>3
  <2>4. CASE k # 0
    <3>1. k - 1 \in 0 .. Len(s) /\ k - 1 \notin Bad /\ k \in Nat /\ k - 1 \in Nat
      <4>1. k - 1 \in 0 .. Len(s) /\ k \in Nat /\ ~ (k =< k - 1) /\ k - 1 \in Nat
        BY <1>1, <2>2, <2>4
      <4> HIDE DEF Bad
      <4> QED
        BY <4>1, <2>1
    <3>2. PICK g : Upto(k - 1, g)
      BY <3>1
    <3> DEFINE f == [u \in SUBSET (1 .. k) |-> Turn(g, u, s)]
    <3>3. ASSUME NEW u \in SUBSET (1 .. k), u # {}
          PROVE  u \ {Max(u)} \in SUBSET (1 .. k - 1)
      <4>1. Max(u) \in u /\ \A i \in u : i =< Max(u)
        BY <3>1, <3>3, MaxIs
      <4>2. \A i \in u \ {Max(u)} : i \in 1 .. k - 1
        <5> DEFINE m == Max(u)
        <5>1. \A i \in u : i \in Nat /\ 1 =< i /\ i =< k /\ i =< m
          BY <3>1, <4>1
        <5>2. m \in Nat /\ m =< k
          BY <4>1, <5>1
        <5> HIDE DEF m
        <5>3. \A i \in u \ {m} : i \in 1 .. k - 1
          BY <3>1, <5>1, <5>2
        <5> QED
          BY <5>3 DEF m
      <4> QED
        BY <4>2
    <3>4. ASSUME NEW u \in SUBSET (1 .. k - 1) PROVE f[u] = g[u]
      <4>1. u \in SUBSET (1 .. k)
        BY <3>1
      <4>2. g[u] = Turn(g, u, s)
        BY <3>2
      <4> QED
        BY <4>1, <4>2
    <3>5. \A u \in SUBSET (1 .. k) : Turn(g, u, s) = Turn(f, u, s)
      <4> HIDE DEF f
      <4> QED
        BY <3>3, <3>4 DEF Turn
    <3>6. Upto(k, f)
      BY <3>5
    <3> QED
      BY <2>2, <3>6
  <2> QED
    BY <2>3, <2>4
<1>3. \E f : Upto(Len(s), f)
  <2>1. Len(s) \in 0 .. Len(s)
    BY <1>1
  <2> HIDE DEF Upto
  <2> QED
    BY <1>2, <2>1
<1>4. \E f : f = [u \in SUBSET DOMAIN s |-> Turn(f, u, s)]
  BY <1>1, <1>3
<1> QED
  BY <1>4 DEF Loop

(* Replay is that loop over all positions but the first.                   *)
LEMMA ReplayLoops == ASSUME NEW l PROVE Replay(l) = Loop(Tail(l))[DOMAIN Tail(l)]
  BY Zenon DEF Replay, FoldLeft, MapThenFoldSet, Loop, Turn, NewRun

(* From one position to the next the loop takes one turn.                  *)
LEMMA LoopSteps ==
    ASSUME NEW S, NEW s \in Seq(S)
    PROVE  /\ Loop(s)[1 .. 0] = NewRun
           /\ \A k \in 1 .. Len(s) : Loop(s)[1 .. k] = Apply(Loop(s)[1 .. k - 1], s[k])
<1>1. Len(s) \in Nat /\ DOMAIN s = 1 .. Len(s)
  BY LenProperties
<1> DEFINE h == Loop(s)
<1>2. h = [u \in SUBSET DOMAIN s |-> Turn(h, u, s)]
  BY LoopExists
<1> HIDE DEF h
<1>3. 1 .. 0 = {} /\ h[{}] = Turn(h, {}, s)
  BY <1>2
<1>4. ASSUME NEW k \in 1 .. Len(s) PROVE h[1 .. k] = Apply(h[1 .. k - 1], s[k])
  <2>1. k \in Nat /\ 1 .. k \in SUBSET DOMAIN s /\ 1 .. k # {}
    <3>1. k \in Nat /\ 1 =< k /\ k =< Len(s)
      BY <1>1
    <3>2. k \in 1 .. k /\ \A i \in 1 .. k : i \in 1 .. Len(s)
      BY <1>1, <3>1
    <3> QED
      BY <1>1, <3>1, <3>2
  <2>2. Max(1 .. k) \in 1 .. k /\ k =< Max(1 .. k)
    <3>1. k \in 1 .. k
      BY <2>1
    <3> QED
      BY <2>1, <3>1, MaxIs
  <2>3. Max(1 .. k) = k /\ (1 .. k) \ {k} = 1 .. k - 1
    BY <2>1, <2>2
  <2>4. h[1 .. k] = Turn(h, 1 .. k, s)
    BY <1>2, <2>1
  <2> QED
    BY <2>1, <2>3, <2>4 DEF Turn
<1> QED
  BY <1>3, <1>4 DEF h, Turn

(* An event that says a status sets it, and another one leaves it.         *)
LEMMA StatusAppend ==
    ASSUME NEW S, NEW l \in Seq(S), NEW e \in S
    PROVE  Status(l \o <<e>>) =
              IF e.type \in StatusTypes THEN StatusAfter(e.type) ELSE Status(l)
<1> DEFINE m == l \o <<e>>
           n == Len(l) + 1
           before == {i \in DOMAIN l : l[i].type \in StatusTypes}
           after  == {i \in DOMAIN m : m[i].type \in StatusTypes}
<1>1. /\ m \in Seq(S) /\ DOMAIN m = DOMAIN l \cup {n} /\ n \notin DOMAIN l
      /\ \A i \in DOMAIN l : m[i] = l[i] /\ i \in Nat /\ i # 0 /\ i < n
      /\ m[n] = e /\ n \in Nat /\ n # 0
  BY OneAppended
<1>2. /\ before = {} => LastOf(l, StatusTypes) = 0
      /\ before # {} => /\ LastOf(l, StatusTypes) \in before
                        /\ \A j \in before : j =< LastOf(l, StatusTypes)
  BY LastOfIs
<1>3. /\ after = {} => LastOf(m, StatusTypes) = 0
      /\ after # {} => /\ LastOf(m, StatusTypes) \in after
                       /\ \A j \in after : j =< LastOf(m, StatusTypes)
  BY <1>1, LastOfIs
<1> HIDE DEF m, n
<1>4. CASE e.type \in StatusTypes
  <2>1. n \in after /\ \A j \in after : j =< n /\ j \in Nat
    BY <1>1, <1>4
  <2>2. LastOf(m, StatusTypes) = n
    BY <1>1, <1>3, <2>1
  <2> QED
    BY <1>1, <1>4, <2>2 DEF Status, m
<1>5. CASE e.type \notin StatusTypes
  <2>1. after = before
    BY <1>1, <1>5
  <2>2. LastOf(m, StatusTypes) = LastOf(l, StatusTypes)
    BY <1>1, <1>2, <1>3, <2>1
  <2>3. LastOf(l, StatusTypes) # 0 => LastOf(l, StatusTypes) \in DOMAIN l
    BY <1>2
  <2> QED
    BY <1>1, <1>5, <2>2, <2>3 DEF Status, m
<1> QED
  BY <1>4, <1>5

(* An evaluation sets the score, and another event leaves it.              *)
LEMMA ScoreAppend ==
    ASSUME NEW S, NEW l \in Seq(S), NEW e \in S
    PROVE  Score(l \o <<e>>) =
              IF e.type = "evaluation.completed" THEN e.data ELSE Score(l)
<1> DEFINE m == l \o <<e>>
           n == Len(l) + 1
           before == {i \in DOMAIN l : l[i].type \in {"evaluation.completed"}}
           after  == {i \in DOMAIN m : m[i].type \in {"evaluation.completed"}}
<1>1. /\ m \in Seq(S) /\ DOMAIN m = DOMAIN l \cup {n} /\ n \notin DOMAIN l
      /\ \A i \in DOMAIN l : m[i] = l[i] /\ i \in Nat /\ i # 0 /\ i < n
      /\ m[n] = e /\ n \in Nat /\ n # 0
  BY OneAppended
<1>2. /\ before = {} => LastOf(l, {"evaluation.completed"}) = 0
      /\ before # {} => /\ LastOf(l, {"evaluation.completed"}) \in before
                        /\ \A j \in before : j =< LastOf(l, {"evaluation.completed"})
  BY LastOfIs
<1>3. /\ after = {} => LastOf(m, {"evaluation.completed"}) = 0
      /\ after # {} => /\ LastOf(m, {"evaluation.completed"}) \in after
                       /\ \A j \in after : j =< LastOf(m, {"evaluation.completed"})
  BY <1>1, LastOfIs
<1> HIDE DEF m, n
<1>4. CASE e.type \in {"evaluation.completed"}
  <2>1. n \in after /\ \A j \in after : j =< n /\ j \in Nat
    BY <1>1, <1>4
  <2>2. LastOf(m, {"evaluation.completed"}) = n
    BY <1>1, <1>3, <2>1
  <2> QED
    BY <1>1, <1>4, <2>2 DEF Score, m
<1>5. CASE e.type \notin {"evaluation.completed"}
  <2>1. after = before
    BY <1>1, <1>5
  <2>2. LastOf(m, {"evaluation.completed"}) = LastOf(l, {"evaluation.completed"})
    BY <1>1, <1>2, <1>3, <2>1
  <2>3. LastOf(l, {"evaluation.completed"}) # 0 => LastOf(l, {"evaluation.completed"}) \in DOMAIN l
    BY <1>2
  <2> QED
    BY <1>1, <1>5, <2>2, <2>3 DEF Score, m
<1> QED
  BY <1>4, <1>5

(* A success says whether a human decided, and no other event does.        *)
LEMMA OverrideAppend ==
    ASSUME NEW S, NEW l \in Seq(S), NEW e \in S
    PROVE  Override(l \o <<e>>) =
              IF e.type = "run.succeeded" THEN (e.data = "human") ELSE Override(l)
<1> DEFINE m == l \o <<e>>
           n == Len(l) + 1
           before == {i \in DOMAIN l : l[i].type \in {"run.succeeded"}}
           after  == {i \in DOMAIN m : m[i].type \in {"run.succeeded"}}
<1>1. /\ m \in Seq(S) /\ DOMAIN m = DOMAIN l \cup {n} /\ n \notin DOMAIN l
      /\ \A i \in DOMAIN l : m[i] = l[i] /\ i \in Nat /\ i # 0 /\ i < n
      /\ m[n] = e /\ n \in Nat /\ n # 0
  BY OneAppended
<1>2. /\ before = {} => LastOf(l, {"run.succeeded"}) = 0
      /\ before # {} => /\ LastOf(l, {"run.succeeded"}) \in before
                        /\ \A j \in before : j =< LastOf(l, {"run.succeeded"})
  BY LastOfIs
<1>3. /\ after = {} => LastOf(m, {"run.succeeded"}) = 0
      /\ after # {} => /\ LastOf(m, {"run.succeeded"}) \in after
                       /\ \A j \in after : j =< LastOf(m, {"run.succeeded"})
  BY <1>1, LastOfIs
<1> HIDE DEF m, n
<1>4. CASE e.type \in {"run.succeeded"}
  <2>1. n \in after /\ \A j \in after : j =< n /\ j \in Nat
    BY <1>1, <1>4
  <2>2. LastOf(m, {"run.succeeded"}) = n
    BY <1>1, <1>3, <2>1
  <2> QED
    BY <1>1, <1>4, <2>2 DEF Override, m
<1>5. CASE e.type \notin {"run.succeeded"}
  <2>1. after = before
    BY <1>1, <1>5
  <2>2. LastOf(m, {"run.succeeded"}) = LastOf(l, {"run.succeeded"})
    BY <1>1, <1>2, <1>3, <2>1
  <2>3. LastOf(l, {"run.succeeded"}) # 0 => LastOf(l, {"run.succeeded"}) \in DOMAIN l
    BY <1>2
  <2> QED
    BY <1>1, <1>5, <2>2, <2>3 DEF Override, m
<1> QED
  BY <1>4, <1>5

(* A published hint adds its key.                                          *)
LEMMA HintKeysAppend ==
    ASSUME NEW S, NEW l \in Seq(S), NEW e \in S
    PROVE  HintKeys(l \o <<e>>) =
              HintKeys(l) \cup (IF e.type = "hint.published" THEN {e.data} ELSE {})
<1> DEFINE m == l \o <<e>>
           n == Len(l) + 1
<1>1. /\ DOMAIN m = DOMAIN l \cup {n} /\ n \notin DOMAIN l
      /\ \A i \in DOMAIN l : m[i] = l[i]
      /\ m[n] = e
  BY OneAppended
<1> HIDE DEF m, n
<1>2. HintKeys(m) = HintKeys(l) \cup (IF e.type = "hint.published" THEN {e.data} ELSE {})
  BY <1>1 DEF HintKeys
<1> QED
  BY <1>2 DEF m

(* What the loop has computed after the events of a stream.                *)
Agrees(state, l, S) ==
    /\ state = [status |-> Status(l), attempt |-> Attempt(l), used |-> UsedOf(l),
                steps |-> state.steps, score |-> Score(l), hints |-> state.hints,
                override |-> Override(l)]
    /\ state.hints \in Seq(S)
    /\ {state.hints[i].data : i \in DOMAIN state.hints} = HintKeys(l)

(* One turn of the loop follows one event of the stream.                   *)
LEMMA TurnAgrees ==
    ASSUME NEW types, NEW words, NEW l \in Seq(EventSet(types, words)),
           NEW e \in EventSet(types, words),
           NEW state, Agrees(state, l, EventSet(types, words))
    PROVE  Agrees(Apply(state, e), l \o <<e>>, EventSet(types, words))
<1> DEFINE S == EventSet(types, words)
           m == l \o <<e>>
           s1 == IF e.type \in StatusTypes
                 THEN [state EXCEPT !.status = StatusAfter(e.type)] ELSE state
           next == Apply(state, e)
<1>1. /\ state = [status |-> Status(l), attempt |-> Attempt(l), used |-> UsedOf(l),
                  steps |-> state.steps, score |-> Score(l), hints |-> state.hints,
                  override |-> Override(l)]
      /\ state.hints \in Seq(S)
      /\ {state.hints[i].data : i \in DOMAIN state.hints} = HintKeys(l)
  BY DEF Agrees
<1>2. /\ Status(m) = IF e.type \in StatusTypes THEN StatusAfter(e.type) ELSE Status(l)
      /\ HintKeys(m) = HintKeys(l) \cup (IF e.type = "hint.published" THEN {e.data} ELSE {})
      /\ Score(m) = IF e.type = "evaluation.completed" THEN e.data ELSE Score(l)
      /\ Override(m) = IF e.type = "run.succeeded" THEN (e.data = "human") ELSE Override(l)
  BY StatusAppend, HintKeysAppend, ScoreAppend, OverrideAppend
<1>3. <<e>> \in Seq(S) /\ \A i \in DOMAIN <<e>> : <<e>>[i] = e
  OBVIOUS
<1>4. Attempt(m) = IF e.type = "run.started" THEN e.attempt ELSE Attempt(l)
  <2>1. CASE e.type = "run.started"
    BY <2>1, AttemptSet
  <2>2. CASE e.type # "run.started"
    <3> DEFINE b == <<e>>
    <3>1. b \in Seq(S) /\ \A i \in DOMAIN b : b[i].type # "run.started"
      BY <1>3, <2>2
    <3> HIDE DEF b
    <3>2. Attempt(l \o b) = Attempt(l)
      BY <3>1, AttemptKept
    <3> QED
      BY <2>2, <3>2 DEF b
  <2> QED
    BY <2>1, <2>2
<1>5. UsedOf(m) = IF e.type = "agent.execution.completed"
                  THEN [u \in Resources |-> UsedOf(l)[u] + e.usage[u]] ELSE UsedOf(l)
  BY UsedOfIs
<1> HIDE DEF m, S
<1>6. s1 = [status |-> Status(m), attempt |-> Attempt(l), used |-> UsedOf(l),
            steps |-> state.steps, score |-> Score(l), hints |-> state.hints,
            override |-> Override(l)]
  BY <1>1, <1>2
<1> HIDE DEF s1
<1>7. next = CASE e.type = "run.started"   -> [s1 EXCEPT !.attempt = e.attempt]
               [] e.type = "agent.execution.completed"
                                           -> [s1 EXCEPT !.used =
                                                 [u \in Resources |-> s1.used[u] + e.usage[u]]]
               [] e.type = "agent.event" /\ e.data = "step"
                                           -> [s1 EXCEPT !.steps = @ + 1]
               [] e.type = "evaluation.completed"
                                           -> [s1 EXCEPT !.score = e.data]
               [] e.type = "hint.published"-> [s1 EXCEPT !.hints = Append(@, e)]
               [] e.type = "run.succeeded" -> [s1 EXCEPT !.override = (e.data = "human")]
               [] OTHER                    -> s1
  BY DEF Apply, s1
<1> HIDE DEF next
<1>8. next.hints = IF e.type = "hint.published" THEN Append(state.hints, e) ELSE state.hints
  BY <1>6, <1>7
<1>9. next = [status |-> Status(m), attempt |-> Attempt(m), used |-> UsedOf(m),
              steps |-> next.steps, score |-> Score(m), hints |-> next.hints,
              override |-> Override(m)]
  <2>1. CASE e.type = "run.started"
    BY <2>1, <1>2, <1>4, <1>5, <1>6, <1>7
  <2>2. CASE e.type = "agent.execution.completed"
    BY <2>2, <1>2, <1>4, <1>5, <1>6, <1>7
  <2>3. CASE e.type = "evaluation.completed"
    BY <2>3, <1>2, <1>4, <1>5, <1>6, <1>7
  <2>4. CASE e.type = "run.succeeded"
    BY <2>4, <1>2, <1>4, <1>5, <1>6, <1>7
  <2>5. CASE e.type \notin {"run.started", "agent.execution.completed",
                           "evaluation.completed", "run.succeeded"}
    BY <2>5, <1>2, <1>4, <1>5, <1>6, <1>7
  <2> QED
    BY <2>1, <2>2, <2>3, <2>4, <2>5
<1>10. next.hints \in Seq(S)
       /\ {next.hints[i].data : i \in DOMAIN next.hints} = HintKeys(m)
  <2>1. CASE e.type # "hint.published"
    BY <2>1, <1>1, <1>2, <1>8
  <2>2. CASE e.type = "hint.published"
    <3> DEFINE h == state.hints
               n == Len(h) + 1
    <3>1. h \in Seq(S) /\ e \in S
      BY <1>1 DEF S
    <3> HIDE DEF h
    <3>2. /\ Append(h, e) \in Seq(S) /\ DOMAIN Append(h, e) = DOMAIN h \cup {n}
          /\ n \notin DOMAIN h
          /\ \A i \in DOMAIN h : Append(h, e)[i] = h[i]
          /\ Append(h, e)[n] = e
      BY <3>1, AppendProperties, LenProperties
    <3> HIDE DEF n
    <3>3. {Append(h, e)[i].data : i \in DOMAIN Append(h, e)}
            = {h[i].data : i \in DOMAIN h} \cup {e.data}
      BY <3>2
    <3> QED
      BY <2>2, <1>1, <1>2, <1>8, <3>2, <3>3 DEF h
  <2> QED
    BY <2>1, <2>2
<1> QED
  BY <1>9, <1>10 DEF Agrees, next, m, S

(* A stream of one event that replay does not read.                        *)
LEMMA CreatedAgrees ==
    ASSUME NEW types, NEW words, NEW e \in EventSet(types, words), e.type = "run.created"
    PROVE  Agrees(NewRun, <<e>>, EventSet(types, words))
<1> DEFINE S == EventSet(types, words)
           l == <<e>>
<1>1. l \in Seq(S) /\ \A i \in DOMAIN l : l[i] = e
  OBVIOUS
<1> HIDE DEF l
<1>2. Status(l) = "created"
  <2>1. {i \in DOMAIN l : l[i].type \in StatusTypes} = {}
    BY <1>1 DEF StatusTypes
  <2> QED
    BY <1>1, <2>1, LastOfIs DEF Status
<1>3. Attempt(l) = 0
  <2>1. Starts(l) = {}
    BY <1>1 DEF Starts
  <2> QED
    BY <1>1, <2>1, AttemptIs
<1>4. UsedOf(l) = NoUsage
  <2>1. ASSUME NEW u \in Resources PROVE Used(l, u) = 0
    <3>1. Units(l, u) = {}
      BY <1>1 DEF Units, Reports
    <3> QED
      BY <1>1, <3>1, UnitsFinite, FS_EmptySet
  <2> QED
    BY <2>1 DEF UsedOf, NoUsage
<1>5. HintKeys(l) = {}
  BY <1>1 DEF HintKeys
<1>6. NewRun.hints = <<>> /\ <<>> \in Seq(S) /\ DOMAIN <<>> = {}
  BY DEF NewRun
<1>7. Score(l) = "none"
  <2>1. {i \in DOMAIN l : l[i].type \in {"evaluation.completed"}} = {}
    BY <1>1
  <2> QED
    BY <1>1, <2>1, LastOfIs DEF Score
<1>8. Override(l) = FALSE
  <2>1. {i \in DOMAIN l : l[i].type \in {"run.succeeded"}} = {}
    BY <1>1
  <2> QED
    BY <1>1, <2>1, LastOfIs DEF Override
<1> QED
  BY <1>2, <1>3, <1>4, <1>5, <1>6, <1>7, <1>8 DEF Agrees, NewRun, l

(* The loop agrees with the closed forms, by the least position at which   *)
(* it would not.                                                           *)
LEMMA ReplayAgrees ==
    ASSUME NEW types, NEW words, NEW l \in Seq(EventSet(types, words)),
           l # <<>>, l[1].type = "run.created"
    PROVE  Agrees(Replay(l), l, EventSet(types, words))
<1> DEFINE S == EventSet(types, words)
           s == Tail(l)
           state(k) == Loop(s)[1 .. k]
           Bad == {k \in 0 .. Len(s) : ~ Agrees(state(k), SubSeq(l, 1, k + 1), S)}
<1>1. /\ s \in Seq(S) /\ Len(s) = Len(l) - 1 /\ \A k \in 1 .. Len(s) : s[k] = l[k + 1]
      /\ Len(l) \in Nat /\ Len(l) # 0 /\ Len(s) \in Nat /\ DOMAIN s = 1 .. Len(s)
  <2>1. /\ s \in Seq(S) /\ Len(s) = Len(l) - 1
        /\ \A k \in 1 .. Len(s) : s[k] = l[k + 1]
    BY HeadTailProperties
  <2>2. Len(l) \in Nat /\ Len(l) # 0
    BY EmptySeq
  <2>3. Len(s) \in Nat /\ DOMAIN s = 1 .. Len(s)
    BY <2>1, LenProperties
  <2> QED
    BY <2>1, <2>2, <2>3
<1>2. /\ state(0) = NewRun
      /\ \A k \in 1 .. Len(s) : state(k) = Apply(state(k - 1), s[k])
  BY <1>1, LoopSteps
<1>3. Bad = {}
  <2> SUFFICES ASSUME Bad # {} PROVE FALSE
    OBVIOUS
  <2>1. PICK k \in Bad : \A j \in Bad : k =< j
    <3>1. Bad \in SUBSET Nat
      BY <1>1
    <3> HIDE DEF Bad
    <3> QED
      BY <3>1, LeastNat
  <2>2. k \in Nat /\ k =< Len(s) /\ ~ Agrees(state(k), SubSeq(l, 1, k + 1), S)
    BY <2>1, <1>1
  <2>3. CASE k = 0
    <3>1. SubSeq(l, 1, 1) = <<l[1]>> /\ l[1] \in S
      <4>1. 1 \in 1 .. Len(l) /\ 1 \in 1 .. 1
        BY <1>1
      <4>2. SubSeq(l, 1, 1) = SubSeq(l, 1, 0) \o <<l[1]>> /\ SubSeq(l, 1, 0) = <<>>
        BY <4>1, SubSeqRecursiveSecond, SubSeqEmpty
      <4>3. l[1] \in S
        BY <4>1, ElementOfSeq
      <4>4. <<l[1]>> \in Seq(S)
        BY <4>3
      <4> QED
        BY <4>2, <4>3, <4>4, ConcatEmptySeq
    <3>2. Agrees(NewRun, SubSeq(l, 1, 1), S)
      BY <3>1, CreatedAgrees
    <3> HIDE DEF state
    <3> QED
      BY <1>2, <2>2, <2>3, <3>2
  <2>4. CASE k # 0
    <3>1. k - 1 \in 0 .. Len(s) /\ k - 1 \notin Bad /\ k \in 1 .. Len(s) /\ k - 1 + 1 = k
      <4>1. k - 1 \in 0 .. Len(s) /\ ~ (k =< k - 1) /\ k \in 1 .. Len(s) /\ k - 1 + 1 = k
        BY <1>1, <2>2, <2>4
      <4> HIDE DEF Bad
      <4> QED
        BY <4>1, <2>1
    <3> DEFINE p == SubSeq(l, 1, k)
    <3>2. Agrees(state(k - 1), p, S)
      <4> HIDE DEF state
      <4> QED
        BY <3>1
    <3>3. SubSeq(l, 1, k + 1) = p \o <<l[k + 1]>> /\ p \in Seq(S) /\ l[k + 1] \in S
      <4>1. /\ 1 \in 1 .. Len(l) /\ k + 1 \in 1 .. Len(l) /\ k + 1 - 1 = k
            /\ k \in Int /\ 1 \in Int /\ \A i \in 1 .. k : i \in 1 .. Len(l)
        BY <1>1, <2>2
      <4>2. l[k + 1] \in S /\ \A i \in 1 .. k : l[i] \in S
        BY <4>1, ElementOfSeq
      <4>3. SubSeq(l, 1, k + 1) = SubSeq(l, 1, k + 1 - 1) \o <<l[k + 1]>>
        <5>1. \A n \in 1 .. Len(l) :
                 SubSeq(l, 1, n) = SubSeq(l, 1, n - 1) \o <<l[n]>>
          BY <4>1, SubSeqRecursiveSecond
        <5> DEFINE n == k + 1
        <5>2. n \in 1 .. Len(l)
          BY <4>1
        <5> HIDE DEF n
        <5>3. SubSeq(l, 1, n) = SubSeq(l, 1, n - 1) \o <<l[n]>>
          BY <5>1, <5>2
        <5> QED
          BY <5>3 DEF n
      <4>4. SubSeq(l, 1, k) \in Seq(S)
        BY <4>1, <4>2, SubSeqProperties
      <4> QED
        BY <4>1, <4>2, <4>3, <4>4
    <3> HIDE DEF p, state
    <3>4. Agrees(Apply(state(k - 1), l[k + 1]), p \o <<l[k + 1]>>, S)
      BY <3>2, <3>3, TurnAgrees
    <3>5. state(k) = Apply(state(k - 1), l[k + 1])
      BY <1>1, <1>2, <3>1
    <3> QED
      BY <2>2, <3>3, <3>4, <3>5
  <2> QED
    BY <2>3, <2>4
<1>4. Agrees(state(Len(s)), SubSeq(l, 1, Len(s) + 1), S)
  <2>1. Len(s) \in 0 .. Len(s)
    BY <1>1
  <2> HIDE DEF state
  <2> QED
    BY <1>3, <2>1
<1>5. SubSeq(l, 1, Len(s) + 1) = l
  BY <1>1, SubSeqFull
<1>6. Replay(l) = state(Len(s))
  BY <1>1, ReplayLoops
<1> HIDE DEF state
<1> QED
  BY <1>4, <1>5, <1>6

-----------------------------------------------------------------------------
(* The inductive invariant.                                                *)

LogEvent == EventSet(EventTypes, Words)
Plain    == EventSet(EventTypes \ {"run.started"}, Words)
Snap     == [attempt : Nat, used : Amounts, keys : SUBSET Words]
Pcs      == Appending \cup {"done", "load", "execute", "gather", "crashed"}
TaskRec  == [pc : Pcs, ver : Nat, snap : Snap, arg : Words, usage : Amounts]
Request  == [op : AllOperations \cup {"none"},
             pc : {"idle", "lock", "create", "check", "append"},
             ver : Nat, from : Nat]
Directive == [action : Actions, keys : Seq(Keys)]
Emit     == [owner : Tasks, attempt : Nat,
             pc : EmitAppending \cup {"review", "handle", "spawning"},
             ver : Nat, kind : Words, known : SUBSET Words, dir : Directive]
Grade    == [owner : Tasks, attempt : Nat, grader : Graders,
             pc : {"grading", "record", "done"}, ver : Nat,
             res : [score : Nat, retryable : BOOLEAN]]
Verdicts == {"pass", "retry", "human", "fail"}

\* The verdict of an evaluation and the control of a directive are known ones.
ArgOf(rec) ==
    /\ rec.pc \in {"evaluated", "verdict"} => rec.arg \in Verdicts
    /\ rec.pc = "control" => rec.arg \in Signals

CallsTyped == emits \subseteq Emit /\ grades \subseteq Grade
Args       == \A t \in Tasks : ArgOf(task[t])
Ops        == \A r \in Requests :
                 request[r].pc \in {"check", "append"}
                    => request[r].op \in AllOperations \ {"start"}
Alone      == /\ \A t \in Tasks : Live(t) => registered = t
              /\ \A r \in Requests :
                    request[r].pc = "create" => startLock = r /\ ~IsActive
FreshStart == \A t \in Tasks :
                 task[t].pc = "start" => task[t].snap.attempt = Attempt(log)

IInv ==
    /\ TypeOK
    /\ CallsTyped
    /\ Args
    /\ Ops
    /\ Alone
    /\ FreshStart
    /\ AttemptsIncrease

-----------------------------------------------------------------------------
(* Events and streams.                                                     *)

LEMMA RecordSets ==
    /\ Plain \subseteq LogEvent
    /\ \A e \in LogEvent : e.data \in Words /\ e.attempt \in Nat
  BY DEF Plain, LogEvent, EventSet

LEMMA StartedIsType == "run.started" \in EventTypes
<1>1. "run.started" \in StatusTypes
  BY DEF StatusTypes
<1> QED
  BY <1>1 DEF EventTypes

LEMMA StartTyped ==
    ASSUME NEW a \in Nat
    PROVE  Ev("run.started", a) \in LogEvent
<1>1. NoUsage \in Amounts /\ "" \in Words
  BY DEF NoUsage, Amounts, Words
<1> QED
  BY <1>1, StartedIsType DEF Ev, LogEvent, EventSet

LEMMA LogIsStream ==
    ASSUME TypeOK
    PROVE  log \in Seq(LogEvent)
  BY DEF TypeOK, LogEvent, EventSet, Amounts

LEMMA EvPlain ==
    ASSUME NEW q \in EventTypes \ {"run.started"}, NEW a \in Nat
    PROVE  /\ Ev(q, a) \in Plain
           /\ \A d \in Words : [Ev(q, a) EXCEPT !.data = d] \in Plain
           /\ \A n \in Amounts : [Ev(q, a) EXCEPT !.usage = n] \in Plain
<1>1. "" \in Words /\ NoUsage \in Amounts
  BY DEF Words, NoUsage, Amounts
<1>2. Ev(q, a) \in Plain
  BY <1>1 DEF Ev, Plain, EventSet
<1>3. ASSUME NEW d \in Words PROVE [Ev(q, a) EXCEPT !.data = d] \in Plain
  BY <1>1 DEF Ev, Plain, EventSet
<1>4. ASSUME NEW n \in Amounts PROVE [Ev(q, a) EXCEPT !.usage = n] \in Plain
  BY <1>1 DEF Ev, Plain, EventSet
<1> QED
  BY <1>2, <1>3, <1>4

LEMMA Batches12 ==
    ASSUME NEW S, NEW x \in S, NEW y \in S
    PROVE  <<x>> \in Seq(S) /\ <<x, y>> \in Seq(S)
  OBVIOUS

\* The snapshot of a well-typed stream.
LEMMA SnapshotTyped ==
    ASSUME TypeOK
    PROVE  Snapshot \in Snap /\ Attempt(log) \in Nat /\ HintKeys(log) \subseteq Words
<1>1. log \in Seq(LogEvent)
  BY LogIsStream
<1>2. \A i \in DOMAIN log : log[i].data \in Words
  BY <1>1, ElementOfSeq, RecordSets
<1> QED
  BY <1>1, <1>2, AttemptIs, UnitsFinite DEF Snapshot, Snap, HintKeys, LogEvent, Amounts

\* An append that starts no attempt.
LEMMA PlainAppend ==
    ASSUME TypeOK, AttemptsIncrease, NEW b \in Seq(Plain), log' = log \o b
    PROVE  /\ log' \in Seq(LogEvent)
           /\ Attempt(log') = Attempt(log)
           /\ AttemptsIncrease'
<1>1. log \in Seq(LogEvent)
  BY LogIsStream
<1>2. Plain \subseteq LogEvent
  BY RecordSets
<1>3. b \in Seq(LogEvent)
  BY <1>2, SeqMonotonic
<1>4. \A i \in DOMAIN b : b[i].type # "run.started"
  <2>1. \A e \in Plain : e.type # "run.started"
    BY DEF Plain, EventSet
  <2>2. \A i \in DOMAIN b : b[i] \in Plain
    BY ElementOfSeq
  <2> QED
    BY <2>1, <2>2
<1>5. log' \in Seq(LogEvent)
  BY <1>1, <1>3, Appended
<1>6. Starts(log') = Starts(log) /\ Attempt(log') = Attempt(log)
  BY <1>1, <1>3, <1>4, AttemptKept DEF LogEvent
<1>7. \A i \in DOMAIN log : log'[i] = log[i]
  BY <1>1, <1>3, Appended
<1>8. AttemptsIncrease'
  BY <1>6, <1>7 DEF AttemptsIncrease, Positions, Starts
<1> QED
  BY <1>5, <1>6, <1>8

\* An append that starts the next attempt.
LEMMA StartAppend ==
    ASSUME TypeOK, AttemptsIncrease, NEW a \in Nat, a = Attempt(log) + 1,
           log' = log \o <<Ev("run.started", a)>>
    PROVE  log' \in Seq(LogEvent) /\ Attempt(log') = a /\ AttemptsIncrease'
<1> DEFINE e == Ev("run.started", a)
<1>1. log \in Seq(LogEvent) /\ DOMAIN log = 1 .. Len(log)
      /\ Len(log) \in Nat
  BY LogIsStream, LenProperties
<1>2. e \in LogEvent /\ e.type = "run.started" /\ e.attempt = a
  BY StartTyped DEF Ev
<1> HIDE DEF e
<1>3. <<e>> \in Seq(LogEvent)
  BY <1>2
<1>4. log' = log \o <<e>>
  BY DEF e
<1>5. log' \in Seq(LogEvent)
  BY <1>1, <1>3, <1>4, Appended
<1>6. /\ Starts(log') = Starts(log) \cup {Len(log) + 1}
      /\ log'[Len(log) + 1] = e
      /\ Attempt(log') = a
  BY <1>1, <1>2, <1>4, AttemptSet DEF LogEvent
<1>7. \A i \in DOMAIN log : log'[i] = log[i]
  BY <1>1, <1>3, <1>4, Appended
<1>8. \A i \in Starts(log) : log[i].attempt \in Nat /\ log[i].attempt =< Attempt(log)
  <2>1. Starts(log) \in SUBSET (1 .. Len(log))
    BY <1>1 DEF Starts
  <2>2. \A i \in Starts(log) : log[i].attempt \in Nat
    BY <1>1, ElementOfSeq, RecordSets DEF Starts
  <2>3. SUFFICES ASSUME NEW i \in Starts(log)
                 PROVE  log[i].attempt =< Attempt(log)
    BY <2>2
  <2>4. PICK n \in Starts(log) : \A j \in Starts(log) : j =< n
    BY <1>1, <2>1, LastPosition
  <2>5. Attempt(log) = log[n].attempt
    BY <1>1, <2>4, AttemptIs DEF LogEvent
  <2>6. i = n \/ i < n
    BY <2>1, <2>4
  <2>7. i < n => log[i].attempt < log[n].attempt
    BY <2>4 DEF AttemptsIncrease, Positions, Starts
  <2> QED
    BY <2>2, <2>4, <2>5, <2>6, <2>7
<1>9. AttemptsIncrease'
  <2> SUFFICES ASSUME NEW i \in Starts(log'), NEW j \in Starts(log'), i < j
               PROVE  log'[i].attempt < log'[j].attempt
    BY DEF AttemptsIncrease, Positions, Starts
  <2>1. i \in Starts(log)
    BY <1>1, <1>6 DEF Starts
  <2>2. CASE j \in Starts(log)
    BY <2>1, <2>2, <1>7 DEF AttemptsIncrease, Positions, Starts
  <2>3. CASE j = Len(log) + 1
    <3>1. log'[i].attempt =< Attempt(log) /\ log'[i].attempt \in Nat
      BY <2>1, <1>7, <1>8 DEF Starts
    <3>2. log'[j].attempt = Attempt(log) + 1
      BY <2>3, <1>2, <1>6
    <3>3. Attempt(log) \in Nat
      BY <1>1, AttemptIs DEF LogEvent
    <3>4. \A x, y, z \in Nat : x =< y /\ z = y + 1 => x < z
      OBVIOUS
    <3> QED
      BY <3>1, <3>2, <3>3, <3>4
  <2> QED
    BY <2>2, <2>3, <1>6
<1> QED
  BY <1>5, <1>6, <1>9

-----------------------------------------------------------------------------
(* Tasks and requests.                                                     *)

TasksTyped    == task \in [Tasks -> TaskRec]
RequestsTyped == request \in [Requests -> Request]

LEMMA Typed ==
    ASSUME TypeOK
    PROVE  TasksTyped /\ RequestsTyped
  BY DEF TypeOK, TasksTyped, RequestsTyped, TaskRec, Snap, Amounts, Pcs, Request

LEMMA NoTaskTyped == NoTask \in TaskRec /\ NoTask.pc = "done"
<1>1. "" \in Words /\ NoUsage \in Amounts
  BY DEF Words, NoUsage, Amounts
<1> QED
  BY <1>1 DEF NoTask, NoSnapshot, TaskRec, Snap, Pcs

LEMMA MovedTyped ==
    ASSUME NEW rec \in TaskRec, NEW pc \in Pcs, NEW arg \in Words
    PROVE  /\ Moved(rec, pc, arg) \in TaskRec
           /\ Moved(rec, pc, arg).pc = pc
           /\ pc \notin {"done", "load"} => Moved(rec, pc, arg).arg = arg
<1>1. CASE pc = "done"
  BY <1>1, NoTaskTyped DEF Moved
<1>2. CASE pc = "load"
  <2>1. Moved(rec, pc, arg) = [NoTask EXCEPT !.pc = "load"]
    BY <1>2 DEF Moved
  <2> QED
    BY <2>1, <1>2, NoTaskTyped DEF TaskRec, Pcs
<1>3. CASE pc \notin {"done", "load"}
  <2>1. Moved(rec, pc, arg) =
          [rec EXCEPT !.pc = pc, !.ver = 0, !.arg = arg,
                      !.usage = IF pc = "crashed" THEN NoUsage ELSE @]
    BY <1>3 DEF Moved
  <2> DEFINE u == IF pc = "crashed" THEN NoUsage ELSE rec.usage
  <2>2. u \in Amounts
    BY DEF TaskRec, NoUsage, Amounts
  <2>3. Moved(rec, pc, arg) =
          [pc |-> pc, ver |-> 0, snap |-> rec.snap, arg |-> arg, usage |-> u]
    BY <2>1 DEF TaskRec
  <2> HIDE DEF u
  <2>4. rec.snap \in Snap
    BY DEF TaskRec
  <2> QED
    BY <2>2, <2>3, <2>4 DEF TaskRec
<1> QED
  BY <1>1, <1>2, <1>3

LEMMA GotoStep ==
    ASSUME TasksTyped, NEW t \in Tasks, NEW pc \in Pcs, NEW arg \in Words,
           GotoWith(t, pc, arg)
    PROVE  /\ TasksTyped'
           /\ task' = [task EXCEPT ![t] = Moved(task[t], pc, arg)]
           /\ task'[t].pc = pc
           /\ pc \notin {"done", "load"} => task'[t].arg = arg
           /\ \A u \in Tasks : u # t => task'[u] = task[u]
<1>1. task' = [task EXCEPT ![t] = Moved(task[t], pc, arg)]
  BY DEF GotoWith
<1>2. Moved(task[t], pc, arg) \in TaskRec
  BY MovedTyped DEF TasksTyped
<1>3. /\ Moved(task[t], pc, arg).pc = pc
      /\ pc \notin {"done", "load"} => Moved(task[t], pc, arg).arg = arg
  BY MovedTyped DEF TasksTyped
<1> QED
  BY <1>1, <1>2, <1>3 DEF TasksTyped

\* A task that a step leaves alone, or moves without bringing it to life.
TaskFrame(u) ==
    \/ task'[u] = task[u]
    \/ /\ Live(u)' => Live(u)
       /\ ArgOf(task'[u])
       /\ task'[u].pc = "start" => task'[u].snap.attempt = Attempt(log)

\* An append that starts no attempt, or none.
PlainLog == log' = log \/ \E b \in Seq(Plain) : log' = log \o b

LEMMA FrameStep ==
    ASSUME IInv,
           \A u \in Tasks : TaskFrame(u),
           UNCHANGED <<registered, startLock>>,
           \A r \in Requests : request'[r].pc = "create" => request[r].pc = "create",
           Attempt(log') = Attempt(log)
    PROVE  Args' /\ Alone' /\ FreshStart'
<1>1. Args' /\ FreshStart'
  BY DEF IInv, Args, FreshStart, TaskFrame
<1>2. \A u \in Tasks : Live(u)' => Live(u)
  BY DEF Live, TaskFrame
<1>3. ASSUME NEW r \in Requests, request'[r].pc = "create"
      PROVE  startLock' = r /\ ~IsActive'
  <2>1. startLock = r /\ ~IsActive /\ registered \in Tasks \cup {None}
    BY <1>3 DEF IInv, Alone, TypeOK
  <2> QED
    BY <2>1, <1>2 DEF IsActive
<1>4. \A t \in Tasks : Live(t)' => registered' = t
  BY <1>2 DEF IInv, Alone
<1> QED
  BY <1>1, <1>3, <1>4 DEF Alone

LEMMA LogStep ==
    ASSUME IInv, PlainLog
    PROVE  log' \in Seq(LogEvent) /\ Attempt(log') = Attempt(log) /\ AttemptsIncrease'
<1>1. CASE log' = log
  BY <1>1, LogIsStream DEF IInv, AttemptsIncrease, Positions
<1>2. CASE \E b \in Seq(Plain) : log' = log \o b
  BY <1>2, PlainAppend DEF IInv
<1> QED
  BY <1>1, <1>2 DEF PlainLog

LEMMA TypeParts ==
    ASSUME TypeOK, log' \in Seq(LogEvent), TasksTyped', RequestsTyped',
           registered' \in Tasks \cup {None}, startLock' \in Requests \cup {None},
           failure' \in BOOLEAN, requests' \in 0 .. MaxRequests,
           crashes' \in 0 .. MaxCrashes
    PROVE  TypeOK'
  BY DEF TypeOK, LogEvent, EventSet, Amounts, TasksTyped, RequestsTyped, TaskRec, Snap, Pcs,
         Request

\* A step of a request that neither takes the lock nor creates a task.
LEMMA RequestStep ==
    ASSUME IInv, PlainLog,
           \A u \in Tasks : TaskFrame(u), TasksTyped', CallsTyped',
           RequestsTyped', Ops',
           \A r \in Requests : request'[r].pc = "create" => request[r].pc = "create",
           UNCHANGED <<registered, startLock, crashes>>,
           failure' \in BOOLEAN, requests' \in 0 .. MaxRequests
    PROVE  IInv'
<1>1. log' \in Seq(LogEvent) /\ Attempt(log') = Attempt(log) /\ AttemptsIncrease'
  BY LogStep
<1>2. Args' /\ Alone' /\ FreshStart'
  BY <1>1, FrameStep
<1>3. registered \in Tasks \cup {None} /\ startLock \in Requests \cup {None}
      /\ crashes \in 0 .. MaxCrashes /\ TypeOK
  BY DEF IInv, TypeOK
<1>4. TypeOK'
  BY <1>1, <1>3, TypeParts
<1> QED
  BY <1>1, <1>2, <1>4 DEF IInv

\* A step of a task, an emit or a grader.
LEMMA CalmStep ==
    ASSUME IInv, PlainLog,
           \A u \in Tasks : TaskFrame(u), TasksTyped', CallsTyped',
           UNCHANGED <<registered, startLock, request, bounds>>, failure' \in BOOLEAN
    PROVE  IInv'
<1>1. RequestsTyped /\ Ops /\ requests \in 0 .. MaxRequests
  BY Typed DEF IInv, TypeOK
<1>2. RequestsTyped' /\ Ops'
  BY <1>1 DEF RequestsTyped, Ops
<1> QED
  BY <1>1, <1>2, RequestStep DEF bounds

\* One that moves a live task by GotoWith, other than to its first append.
LEMMA GotoCalmStep ==
    ASSUME IInv, PlainLog, NEW t \in Tasks, Live(t),
           NEW pc \in Pcs \ {"start"}, NEW arg \in Words,
           pc \in {"evaluated", "verdict"} => arg \in Verdicts,
           pc = "control" => arg \in Signals,
           GotoWith(t, pc, arg), CallsTyped',
           UNCHANGED <<registered, startLock, request, bounds>>, failure' \in BOOLEAN
    PROVE  IInv'
<1>1. TasksTyped
  BY Typed DEF IInv
<1>2. /\ TasksTyped' /\ task'[t].pc = pc
      /\ pc \notin {"done", "load"} => task'[t].arg = arg
      /\ \A u \in Tasks : u # t => task'[u] = task[u]
  BY <1>1, GotoStep
<1>3. ArgOf(task'[t])
  BY <1>2 DEF ArgOf
<1>4. \A u \in Tasks : TaskFrame(u)
  BY <1>2, <1>3 DEF TaskFrame
<1> QED
  BY <1>2, <1>4, CalmStep

-----------------------------------------------------------------------------
(* The events of every append.  Only a task's first append starts an       *)
(* attempt.                                                                *)

LEMMA PlainTypes ==
    /\ {"run.succeeded", "run.retry_scheduled", "run.waiting_human", "run.failed",
        "run.paused", "run.resumed", "run.recovered", "evaluation.started",
        "evaluation.completed"} \subseteq EventTypes \ {"run.started"}
    /\ {"run.created", "run.pause_requested", "run.internal_failed",
        "hitl.resolved", "agent.event", "agent.execution.completed",
        "agent.execution.failed", "budget.exhausted", "hint.published",
        "grader.failed", "supervisor.reviewed", "supervisor.action_requested",
        "supervisor.action_completed", "supervisor.action_failed", "team.created",
        "team.member.spawn_requested", "team.member.spawned",
        "team.member.spawn_failed"} \subseteq EventTypes \ {"run.started"}
<1>1. {"run.succeeded", "run.retry_scheduled", "run.waiting_human", "run.failed",
       "run.paused", "run.resumed", "run.recovered", "evaluation.started",
       "evaluation.completed"} \subseteq StatusTypes \ {"run.started"}
  BY DEF StatusTypes
<1> QED
  BY <1>1 DEF EventTypes

LEMMA AttemptTyped ==
    ASSUME TasksTyped, NEW t \in Tasks
    PROVE  /\ task[t].snap.attempt \in Nat /\ AttemptOf(t) \in Nat
           /\ task[t].usage \in Amounts /\ task[t].arg \in Words
  BY DEF TasksTyped, TaskRec, Snap, AttemptOf

LEMMA VerdictBatch ==
    ASSUME NEW a \in Nat, NEW arg \in Verdicts
    PROVE  Verdict(a, arg) \in Seq(Plain)
<1>1. /\ [Ev("run.succeeded", a) EXCEPT !.data = "graders"] \in Plain
      /\ [Ev("hint.published", a) EXCEPT !.data = "evaluation"] \in Plain
      /\ Ev("run.retry_scheduled", a + 1) \in Plain
      /\ Ev("run.waiting_human", a) \in Plain /\ Ev("run.failed", a) \in Plain
  <2>1. "graders" \in Words /\ "evaluation" \in Words /\ a + 1 \in Nat
    BY DEF Words
  <2> QED
    BY <2>1, PlainTypes, EvPlain
<1>2. CASE arg = "pass"
  BY <1>1, <1>2 DEF Verdict
<1>3. CASE arg = "retry"
  BY <1>1, <1>3 DEF Verdict
<1>4. CASE arg = "human"
  BY <1>1, <1>4 DEF Verdict
<1>5. CASE arg = "fail"
  BY <1>1, <1>5 DEF Verdict
<1> QED
  BY <1>2, <1>3, <1>4, <1>5 DEF Verdicts

LEMMA ControlBatch ==
    ASSUME NEW a \in Nat, NEW action \in Signals
    PROVE  Control(a, action) \in Seq(Plain)
<1>1. /\ Ev("run.paused", a) \in Plain /\ Ev("run.waiting_human", a) \in Plain
      /\ Ev("run.failed", a) \in Plain
  BY PlainTypes, EvPlain
<1> QED
  BY <1>1 DEF Control, Signals

LEMMA TaskBatch ==
    ASSUME TasksTyped, Args, NEW t \in Tasks, task[t].pc \in Appending
    PROVE  /\ task[t].pc = "start" => Batch(t) = <<Ev("run.started", AttemptOf(t))>>
           /\ task[t].pc # "start" => Batch(t) \in Seq(Plain)
<1> DEFINE a == AttemptOf(t)
<1>1. a \in Nat /\ task[t].usage \in Amounts /\ ArgOf(task[t])
  BY AttemptTyped DEF Args
<1>2. CASE task[t].pc = "start"
  BY <1>2 DEF Batch
<1>3. CASE task[t].pc = "completed"
  <2>1. [Ev("agent.execution.completed", a) EXCEPT !.usage = task[t].usage] \in Plain
    BY <1>1, PlainTypes, EvPlain
  <2>2. Batch(t) = <<[Ev("agent.execution.completed", a) EXCEPT !.usage = task[t].usage]>>
    BY <1>3 DEF Batch
  <2> HIDE DEF a
  <2> QED
    BY <1>3, <2>1, <2>2, Batches12
<1>4. CASE task[t].pc = "evaluate"
  BY <1>1, <1>4, PlainTypes, EvPlain, Batches12 DEF Batch
<1>5. CASE task[t].pc = "evaluated"
  <2> DEFINE d == IF task[t].arg = "pass" THEN "passed" ELSE "not passed"
  <2>1. d \in Words
    BY DEF Words
  <2>2. Batch(t) = <<[Ev("evaluation.completed", a) EXCEPT !.data = d]>>
    BY <1>5 DEF Batch
  <2> HIDE DEF d, a
  <2>3. [Ev("evaluation.completed", a) EXCEPT !.data = d] \in Plain
    BY <1>1, <2>1, PlainTypes, EvPlain
  <2> QED
    BY <1>5, <2>2, <2>3, Batches12
<1>6. CASE task[t].pc = "verdict"
  <2>1. Batch(t) = Verdict(a, task[t].arg)
    BY <1>6 DEF Batch
  <2>2. task[t].arg \in Verdicts
    BY <1>1, <1>6 DEF ArgOf
  <2> QED
    BY <1>1, <1>6, <2>1, <2>2, VerdictBatch
<1>7. CASE task[t].pc = "control"
  <2>1. Batch(t) = Control(a, task[t].arg)
    BY <1>7 DEF Batch
  <2>2. task[t].arg \in Signals
    BY <1>1, <1>7 DEF ArgOf
  <2> QED
    BY <1>1, <1>7, <2>1, <2>2, ControlBatch
<1>8. CASE task[t].pc \in {"budget", "failed", "internal"}
  <2>1. /\ Ev("budget.exhausted", a) \in Plain /\ Ev("run.waiting_human", a) \in Plain
        /\ Ev("agent.execution.failed", a) \in Plain
        /\ Ev("run.internal_failed", a) \in Plain
    BY <1>1, PlainTypes, EvPlain
  <2> HIDE DEF a
  <2>2. \/ Batch(t) = <<Ev("budget.exhausted", a), Ev("run.waiting_human", a)>>
        \/ Batch(t) = <<Ev("agent.execution.failed", a), Ev("run.waiting_human", a)>>
        \/ Batch(t) = <<Ev("run.internal_failed", a), Ev("run.waiting_human", a)>>
    BY <1>8 DEF Batch, a
  <2> QED
    BY <1>8, <2>1, <2>2, Batches12
<1> QED
  BY <1>2, <1>3, <1>4, <1>5, <1>6, <1>7, <1>8 DEF Appending

LEMMA RequestBatchPlain ==
    ASSUME RequestsTyped, Ops, NEW r \in Requests, request[r].pc = "append"
    PROVE  RequestBatch(r) \in Seq(Plain)
<1> DEFINE a  == request[r].from
           op == request[r].op
<1>1. a \in Nat /\ a + 1 \in Nat /\ op \in AllOperations \ {"start"} /\ op \in Words
  <2>1. request[r].from \in Nat
    BY DEF RequestsTyped, Request
  <2>2. request[r].op \in AllOperations \ {"start"}
    BY DEF Ops
  <2>3. AllOperations \subseteq Words
    BY DEF Words
  <2> QED
    BY <2>1, <2>2, <2>3
<1>2. /\ Ev("run.pause_requested", a) \in Plain /\ Ev("run.paused", a) \in Plain
      /\ Ev("run.resumed", a + 1) \in Plain /\ Ev("run.recovered", a) \in Plain
      /\ Ev("run.retry_scheduled", a + 1) \in Plain /\ Ev("run.failed", a) \in Plain
  <2> HIDE DEF a
  <2> QED
    BY <1>1, PlainTypes, EvPlain
<1>3. /\ Resolved(a, op) \in Plain
      /\ [Ev("run.succeeded", a) EXCEPT !.data = "human"] \in Plain
  <2>1. "human" \in Words
    BY DEF Words
  <2> HIDE DEF a, op
  <2> QED
    BY <1>1, <2>1, PlainTypes, EvPlain DEF Resolved
<1>4. \/ RequestBatch(r) = <<Ev("run.pause_requested", a), Ev("run.paused", a)>>
      \/ RequestBatch(r) = <<Ev("run.resumed", a + 1)>>
      \/ RequestBatch(r) = <<Ev("run.recovered", a), Ev("run.retry_scheduled", a + 1)>>
      \/ RequestBatch(r) = <<Resolved(a, op),
                             [Ev("run.succeeded", a) EXCEPT !.data = "human"]>>
      \/ RequestBatch(r) = <<Resolved(a, op), Ev("run.failed", a)>>
      \/ RequestBatch(r) = <<Resolved(a, op), Ev("run.retry_scheduled", a + 1)>>
  BY <1>1 DEF RequestBatch, AllOperations
<1> HIDE DEF a, op
<1> QED
  BY <1>2, <1>3, <1>4, Batches12

LEMMA FreshKeysTyped ==
    ASSUME NEW e \in Emit
    PROVE  /\ Len(FreshKeys(e)) \in Nat /\ DOMAIN FreshKeys(e) = 1 .. Len(FreshKeys(e))
           /\ \A i \in DOMAIN FreshKeys(e) : FreshKeys(e)[i] \in Words
<1> DEFINE keys == e.dir.keys
           fresh == {i \in DOMAIN keys : keys[i] \notin Published(e)}
<1>1. keys \in Seq(Keys) /\ Len(keys) \in Nat /\ fresh \in SUBSET (1 .. Len(keys))
      /\ \A i \in fresh : keys[i] \in Words
  <2>1. keys \in Seq(Keys)
    BY DEF Emit, Directive
  <2>2. \A i \in 1 .. Len(keys) : keys[i] \in Keys
    BY <2>1, ElementOfSeq
  <2>3. Len(keys) \in Nat /\ DOMAIN keys = 1 .. Len(keys)
    BY <2>1, LenProperties
  <2> QED
    BY <2>1, <2>2, <2>3 DEF Words
<1>2. FreshKeys(e) = [n \in 1 .. Cardinality(fresh) |-> keys[Nth(fresh, n)]]
  BY DEF FreshKeys
<1> HIDE DEF keys, fresh
<1>3. Cardinality(fresh) \in Nat
  <2>1. 1 \in Int /\ Len(keys) \in Int
    BY <1>1
  <2>2. IsFiniteSet(1 .. Len(keys))
    BY <2>1, FS_Interval
  <2> QED
    BY <1>1, <2>2, FS_Subset, FS_CardinalityType
<1>4. \A n \in 1 .. Cardinality(fresh) : keys[Nth(fresh, n)] \in Words
  BY <1>1, NthExists
<1>5. FreshKeys(e) \in Seq(Words)
  BY <1>2, <1>3, <1>4
<1> QED
  BY <1>5, LenProperties, ElementOfSeq

LEMMA EmitBatchPlain ==
    ASSUME NEW e \in Emit, e.pc \in EmitAppending
    PROVE  EmitBatch(e) \in Seq(Plain)
<1>1. e.attempt \in Nat /\ e.kind \in Words /\ e.dir.action \in Words
  BY DEF Emit, Directive, Words
<1>2. CASE e.pc = "hints"
  <2> DEFINE fresh == FreshKeys(e)
             Hinted(k) == [Ev("hint.published", e.attempt) EXCEPT !.data = k]
  <2>1. Len(fresh) \in Nat /\ DOMAIN fresh = 1 .. Len(fresh)
        /\ \A i \in DOMAIN fresh : fresh[i] \in Words
    BY FreshKeysTyped
  <2>2. \A k \in Words : Hinted(k) \in Plain
    BY <1>1, PlainTypes, EvPlain
  <2>3. EmitBatch(e) = [i \in DOMAIN fresh |-> Hinted(fresh[i])]
    BY <1>2 DEF EmitBatch
  <2> HIDE DEF fresh, Hinted
  <2> QED
    BY <2>1, <2>2, <2>3
<1>3. CASE e.pc \in {"event", "requested"}
  <2>1. [Ev("agent.event", e.attempt) EXCEPT !.data = e.kind] \in Plain
    BY <1>1, PlainTypes, EvPlain
  <2>2. [Ev("supervisor.action_requested", e.attempt) EXCEPT !.data = e.dir.action]
           \in Plain
    BY <1>1, PlainTypes, EvPlain
  <2>3. \/ EmitBatch(e) = <<[Ev("agent.event", e.attempt) EXCEPT !.data = e.kind]>>
        \/ EmitBatch(e) = <<[Ev("supervisor.action_requested", e.attempt)
                               EXCEPT !.data = e.dir.action]>>
    BY <1>3 DEF EmitBatch
  <2> QED
    BY <2>1, <2>2, <2>3, Batches12
<1>4. CASE e.pc \in {"reviewed", "acted", "unacted"}
  <2>1. /\ Ev("supervisor.reviewed", e.attempt) \in Plain
        /\ Ev("supervisor.action_completed", e.attempt) \in Plain
        /\ Ev("supervisor.action_failed", e.attempt) \in Plain
    BY <1>1, PlainTypes, EvPlain
  <2>2. \/ EmitBatch(e) = <<Ev("supervisor.reviewed", e.attempt)>>
        \/ EmitBatch(e) = <<Ev("supervisor.action_completed", e.attempt)>>
        \/ EmitBatch(e) = <<Ev("supervisor.action_failed", e.attempt)>>
    BY <1>4 DEF EmitBatch
  <2> QED
    BY <2>1, <2>2, Batches12
<1> QED
  BY <1>2, <1>3, <1>4 DEF EmitAppending

-----------------------------------------------------------------------------
(* The steps of tasks and graders.                                         *)

LEMMA TaskKeeps ==
    ASSUME IInv, NEW t \in Tasks, TaskNext(t)
    PROVE  IInv'
<1>1. /\ TasksTyped /\ RequestsTyped /\ CallsTyped /\ Args
      /\ task[t] \in TaskRec /\ failure \in BOOLEAN /\ log \in Seq(LogEvent)
  BY Typed, LogIsStream DEF IInv, TypeOK, TasksTyped
<1>3. "" \in Words /\ "steps" \in Words /\ task[t].arg \in Words
  BY <1>1 DEF Words, TaskRec
<1>4. ASSUME UNCHANGED log PROVE PlainLog
  BY <1>4 DEF PlainLog
<1>5. ASSUME UNCHANGED <<emits, grades>> PROVE CallsTyped'
  BY <1>1, <1>5 DEF CallsTyped
<1>6. CASE Load(t)
  <2>1. CASE Status(log) \in Runnable
    <3>1. task' = [task EXCEPT ![t].pc = "start", ![t].snap = Snapshot]
          /\ task[t].pc = "load"
      BY <1>6, <2>1 DEF Load
    <3>2. Snapshot \in Snap /\ Snapshot.attempt = Attempt(log)
      BY SnapshotTyped DEF IInv, Snapshot
    <3>3. TasksTyped' /\ task'[t].pc = "start" /\ task'[t].snap = Snapshot
          /\ \A u \in Tasks : u # t => task'[u] = task[u]
      BY <1>1, <3>1, <3>2 DEF TasksTyped, TaskRec, Pcs, Appending
    <3>4. \A u \in Tasks : TaskFrame(u)
      BY <3>1, <3>2, <3>3 DEF TaskFrame, Live, ArgOf
    <3> QED
      BY <1>1, <1>4, <1>5, <1>6, <3>3, <3>4, CalmStep DEF Load, manager
  <2>2. CASE Status(log) \notin Runnable
    BY <1>1, <1>3, <1>4, <1>5, <1>6, <2>2, GotoCalmStep
    DEF Load, Goto, Live, Pcs, manager
  <2> QED
    BY <2>1, <2>2
<1>7. CASE TaskReadsVersion(t)
  <2>1. task' = [task EXCEPT ![t].ver = Len(log)] /\ Len(log) \in Nat
    BY <1>1, <1>7 DEF TaskReadsVersion, ReadVersion
  <2>2. TasksTyped' /\ task'[t].pc = task[t].pc /\ task'[t].arg = task[t].arg
        /\ task'[t].snap = task[t].snap
        /\ \A u \in Tasks : u # t => task'[u] = task[u]
    BY <1>1, <2>1 DEF TasksTyped, TaskRec
  <2>3. \A u \in Tasks : TaskFrame(u)
    BY <2>2 DEF TaskFrame, Live, ArgOf, IInv, Args, FreshStart
  <2> QED
    BY <1>1, <1>4, <1>5, <1>7, <2>2, <2>3, CalmStep DEF TaskReadsVersion, manager
<1>8. CASE TaskAppends(t)
  <2> DEFINE pc == task[t].pc
  <2>1. /\ pc \in Appending /\ log' = log \o Batch(t)
        /\ GotoWith(t, After(t), task[t].arg)
        /\ UNCHANGED <<registered, startLock, request, bounds, emits>>
        /\ failure' \in BOOLEAN
    BY <1>1, <1>8 DEF TaskAppends, Continue, manager
  <2>2. CallsTyped'
    <3>1. NewGrades(t) \subseteq Grade
      <4>1. AttemptOf(t) \in Nat
        BY <1>1, AttemptTyped
      <4>2. [score |-> 0, retryable |-> FALSE] \in [score : Nat, retryable : BOOLEAN]
        OBVIOUS
      <4>3. ASSUME NEW g \in Graders
            PROVE  [owner |-> t, attempt |-> AttemptOf(t), grader |-> g,
                    pc |-> "grading", ver |-> 0,
                    res |-> [score |-> 0, retryable |-> FALSE]] \in Grade
        BY <4>1, <4>2 DEF Grade
      <4> QED
        BY <4>3 DEF NewGrades
    <3> QED
      BY <1>1, <1>8, <2>1, <3>1 DEF TaskAppends, CallsTyped
  <2>3. /\ After(t) \in Pcs \ {"start", "evaluated", "control"}
        /\ After(t) = "verdict" => pc = "evaluated"
        /\ pc = "start" => After(t) = "execute"
    BY <2>1 DEF After, Appending, Pcs
  <2>4. pc = "evaluated" => task[t].arg \in Verdicts
    BY <1>1 DEF Args, ArgOf
  <2>5. CASE pc # "start"
    <3>1. Batch(t) \in Seq(Plain)
      BY <1>1, <2>1, <2>5, TaskBatch
    <3>2. PlainLog
      BY <2>1, <3>1 DEF PlainLog
    <3> HIDE DEF pc
    <3>3. Live(t)
      BY <2>1 DEF Live, Appending, pc
    <3> QED
      BY <1>3, <2>1, <2>2, <2>3, <2>4, <3>2, <3>3, GotoCalmStep
  <2>6. CASE pc = "start"
    <3>1. log' = log \o <<Ev("run.started", AttemptOf(t))>>
      BY <1>1, <2>1, <2>6, TaskBatch
    <3>2. AttemptOf(t) \in Nat /\ AttemptOf(t) = Attempt(log) + 1
      BY <1>1, <2>6, AttemptTyped DEF AttemptOf, IInv, FreshStart
    <3>3. log' \in Seq(LogEvent) /\ AttemptsIncrease'
      BY <3>1, <3>2, StartAppend DEF IInv
    <3>4. "execute" \in Pcs /\ After(t) = "execute"
      BY <2>3, <2>6 DEF Pcs
    <3>5. TasksTyped' /\ task'[t].pc = "execute"
          /\ \A u \in Tasks : u # t => task'[u] = task[u]
      <4>1. TasksTyped /\ task[t].arg \in Words /\ After(t) \in Pcs
        BY <1>1, <1>3, <3>4
      <4>2. GotoWith(t, After(t), task[t].arg)
        BY <2>1
      <4> HIDE DEF pc
      <4>3. TasksTyped' /\ task'[t].pc = After(t)
            /\ \A u \in Tasks : u # t => task'[u] = task[u]
        BY <4>1, <4>2, GotoStep
      <4> QED
        BY <3>4, <4>3
    <3>6. \A u \in Tasks : u # t => task[u].pc = "done"
      BY <2>6 DEF IInv, Alone, Live
    <3>7. FreshStart'
      BY <3>5, <3>6 DEF FreshStart
    <3>8. Args'
      BY <1>1, <3>5 DEF Args, ArgOf
    <3>9. \A u \in Tasks : Live(u)' => Live(u)
      BY <2>6, <3>5 DEF Live
    <3>10. Alone'
      BY <2>1, <3>9 DEF IInv, Alone, IsActive, TypeOK
    <3>11. RequestsTyped' /\ Ops'
      BY <1>1, <2>1 DEF RequestsTyped, Ops, IInv
    <3>12. TypeOK'
      BY <2>1, <3>3, <3>5, <3>11, TypeParts DEF IInv, TypeOK, bounds
    <3> QED
      BY <2>2, <3>3, <3>7, <3>8, <3>10, <3>11, <3>12 DEF IInv
  <2> QED
    BY <2>5, <2>6
<1>9. CASE TaskConflicts(t)
  <2>1. CASE task[t].pc = "internal"
    BY <1>3, <1>4, <1>5, <1>9, <2>1, GotoCalmStep
    DEF TaskConflicts, Goto, Live, Pcs
  <2>2. CASE task[t].pc # "internal"
    <3>1. Live(t) /\ Goto(t, "crashed")
      BY <1>9, <2>2 DEF TaskConflicts, Live, Appending
    <3> QED
      BY <1>3, <1>4, <1>5, <1>9, <3>1, GotoCalmStep DEF TaskConflicts, Goto, Pcs
  <2> QED
    BY <2>1, <2>2
<1>10. CASE RecordInternalFailure(t)
  <2>1. CASE Status(log) \in Terminal
    BY <1>1, <1>3, <1>4, <1>5, <1>10, <2>1, GotoCalmStep
    DEF RecordInternalFailure, Goto, Live, Pcs, manager
  <2>2. CASE Status(log) \notin Terminal
    BY <1>1, <1>3, <1>4, <1>5, <1>10, <2>2, GotoCalmStep
    DEF RecordInternalFailure, Goto, Live, Pcs, Appending, manager
  <2> QED
    BY <2>1, <2>2
<1>11. CASE Gather(t)
  <2>1. Decide(OwnGrades(t), AttemptOf(t)) \in Verdicts
    BY DEF Decide, Verdicts
  <2>2. Decide(OwnGrades(t), AttemptOf(t)) \in Words
    BY <2>1 DEF Verdicts, Words, AllOperations
  <2>3. CallsTyped'
    BY <1>1, <1>11 DEF Gather, CallsTyped
  <2>4. "evaluated" \in Pcs \ {"start"}
    BY DEF Pcs, Appending
  <2> QED
    BY <1>1, <1>4, <1>11, <2>1, <2>2, <2>3, <2>4, GotoCalmStep
    DEF Gather, Live, manager
<1>12. CASE HarnessEmits(t)
  <2>1. PICK kind \in HarnessEvents :
           emits' = emits \cup {[owner |-> t, attempt |-> AttemptOf(t), pc |-> "event",
                                 ver |-> 0, kind |-> kind, known |-> task[t].snap.keys,
                                 dir |-> [action |-> "continue", keys |-> <<>>]]}
    BY <1>12 DEF HarnessEmits
  <2>2. /\ kind \in Words /\ AttemptOf(t) \in Nat /\ task[t].snap.keys \in SUBSET Words
        /\ [action |-> "continue", keys |-> <<>>] \in Directive
    <3>1. kind \in Words
      BY ParameterAssumption DEF Words
    <3>2. AttemptOf(t) \in Nat /\ task[t].snap.keys \in SUBSET Words
      BY <1>1, AttemptTyped DEF TaskRec, Snap
    <3>3. "continue" \in Actions /\ <<>> \in Seq(Keys)
      BY DEF Actions
    <3> QED
      BY <3>1, <3>2, <3>3 DEF Directive
  <2>3. CallsTyped'
    BY <1>1, <1>12, <2>1, <2>2 DEF HarnessEmits, CallsTyped, Emit, EmitAppending
  <2>4. TasksTyped' /\ \A u \in Tasks : TaskFrame(u)
    BY <1>1, <1>12 DEF HarnessEmits, TasksTyped, TaskFrame
  <2> QED
    BY <1>1, <1>4, <1>12, <2>3, <2>4, CalmStep DEF HarnessEmits, manager
<1>13. CASE HarnessReturns(t)
  <2>1. PICK n \in Usages : task' = [task EXCEPT ![t].pc = "completed", ![t].usage = n]
    BY <1>13 DEF HarnessReturns
  <2>2. n \in Amounts
    BY ParameterAssumption DEF Amounts
  <2>3. TasksTyped' /\ task'[t].pc = "completed"
        /\ \A u \in Tasks : u # t => task'[u] = task[u]
    BY <1>1, <2>1, <2>2 DEF TasksTyped, TaskRec, Pcs, Appending
  <2>4. \A u \in Tasks : TaskFrame(u)
    BY <1>13, <2>3 DEF HarnessReturns, TaskFrame, Live, ArgOf
  <2> QED
    BY <1>1, <1>4, <1>5, <1>13, <2>3, <2>4, CalmStep DEF HarnessReturns, manager
<1>14. CASE HarnessRaises(t)
  BY <1>1, <1>3, <1>4, <1>5, <1>14, GotoCalmStep
  DEF HarnessRaises, Goto, Live, Pcs, Appending, manager
<1>15. CASE AttemptTimesOut(t)
  <2>1. CallsTyped'
    BY <1>1, <1>15 DEF AttemptTimesOut, CallsTyped
  <2> QED
    BY <1>1, <1>3, <1>4, <1>15, <2>1, GotoCalmStep
    DEF AttemptTimesOut, Goto, Live, Pcs, Appending, manager
<1>16. CASE AggregateRaises(t)
  <2>1. CallsTyped'
    BY <1>1, <1>16 DEF AggregateRaises, CallsTyped
  <2> QED
    BY <1>1, <1>3, <1>4, <1>16, <2>1, GotoCalmStep
    DEF AggregateRaises, Goto, Live, Pcs
<1> QED
  BY <1>6, <1>7, <1>8, <1>9, <1>10, <1>11, <1>12, <1>13, <1>14, <1>15, <1>16 DEF TaskNext

LEMMA GradeKeeps ==
    ASSUME IInv, NEW g \in grades, GradeNext(g)
    PROVE  IInv'
<1>1. /\ TasksTyped /\ CallsTyped /\ Args /\ failure \in BOOLEAN
      /\ g \in Grade /\ log \in Seq(LogEvent)
  BY Typed, LogIsStream DEF IInv, TypeOK, CallsTyped
<1>2. ASSUME UNCHANGED log PROVE PlainLog
  BY <1>2 DEF PlainLog
<1>3. ASSUME UNCHANGED task PROVE TasksTyped' /\ \A u \in Tasks : TaskFrame(u)
  BY <1>1, <1>3 DEF TasksTyped, TaskFrame
<1>4. ASSUME NEW res \in [score : Nat, retryable : BOOLEAN], GradeDone(g, res)
      PROVE  grades' \subseteq Grade
  <2>1. [g EXCEPT !.pc = "done", !.ver = 0, !.res = res] \in Grade
    BY <1>1 DEF Grade
  <2> QED
    BY <1>1, <1>4, <2>1 DEF GradeDone, CallsTyped
<1>5. CASE GraderReturns(g)
  <2>1. PICK res \in Results : GradeDone(g, res)
    BY <1>5 DEF GraderReturns
  <2>2. res \in [score : Nat, retryable : BOOLEAN]
    BY ParameterAssumption
  <2>3. CallsTyped'
    BY <1>1, <1>4, <1>5, <2>1, <2>2 DEF GraderReturns, CallsTyped
  <2> QED
    BY <1>1, <1>2, <1>3, <1>5, <2>3, CalmStep DEF GraderReturns, manager
<1>6. CASE GraderRaises(g)
  <2>1. [g EXCEPT !.pc = "record"] \in Grade
    BY <1>1 DEF Grade
  <2>2. CallsTyped'
    BY <1>1, <1>6, <2>1 DEF GraderRaises, CallsTyped
  <2> QED
    BY <1>1, <1>2, <1>3, <1>6, <2>2, CalmStep DEF GraderRaises, manager
<1>7. CASE GraderReadsVersion(g)
  <2>1. ReadVersion(g) \in Grade
    BY <1>1, LenProperties DEF Grade, ReadVersion
  <2>2. CallsTyped'
    BY <1>1, <1>7, <2>1 DEF GraderReadsVersion, CallsTyped
  <2> QED
    BY <1>1, <1>2, <1>3, <1>7, <2>2, CalmStep DEF GraderReadsVersion, manager
<1>8. CASE GraderAppends(g)
  <2>1. [score |-> 0, retryable |-> FALSE] \in [score : Nat, retryable : BOOLEAN]
    OBVIOUS
  <2>2. CallsTyped'
    BY <1>1, <1>4, <1>8, <2>1 DEF GraderAppends, CallsTyped
  <2>3. Ev("grader.failed", g.attempt) \in Plain
    BY <1>1, PlainTypes, EvPlain DEF Grade
  <2>4. PlainLog
    BY <1>8, <2>3, Batches12 DEF GraderAppends, PlainLog
  <2> QED
    BY <1>1, <1>3, <1>8, <2>2, <2>4, CalmStep DEF GraderAppends, manager
<1>9. CASE GraderConflicts(g)
  <2>1. CallsTyped'
    BY <1>1, <1>9 DEF GraderConflicts, CallsTyped
  <2>2. CASE Gathered(g)
    <3>1. g.owner \in Tasks /\ Live(g.owner) /\ "" \in Words /\ "crashed" \in Pcs
      BY <1>1, <2>2 DEF Grade, Gathered, Live, Words, Pcs
    <3> QED
      BY <1>2, <1>9, <2>1, <2>2, <3>1, GotoCalmStep DEF GraderConflicts, Goto
  <2>3. CASE ~Gathered(g)
    BY <1>1, <1>2, <1>3, <1>9, <2>1, <2>3, CalmStep DEF GraderConflicts
  <2> QED
    BY <2>2, <2>3
<1> QED
  BY <1>5, <1>6, <1>7, <1>8, <1>9 DEF GradeNext

-----------------------------------------------------------------------------
(* The steps of emits.                                                     *)

LEMMA EmitRaisesKeeps ==
    ASSUME IInv, PlainLog, NEW e \in emits, NEW pc \in {"budget", "control", "failed"},
           NEW arg \in Words, pc = "control" => arg \in Signals,
           EmitRaises(e, pc, arg), UNCHANGED <<manager, grades, request, bounds>>
    PROVE  IInv'
<1>1. TasksTyped /\ CallsTyped /\ failure \in BOOLEAN /\ e.owner \in Tasks
  BY Typed DEF IInv, TypeOK, CallsTyped, Emit
<1>2. CallsTyped'
  BY <1>1 DEF EmitRaises, CallsTyped
<1>3. CASE Attended(e)
  <2>1. Live(e.owner) /\ pc \in Pcs \ {"start"} /\ pc \notin {"evaluated", "verdict"}
    BY <1>3 DEF Attended, Live, Pcs, Appending
  <2> QED
    BY <1>1, <1>2, <1>3, <2>1, GotoCalmStep DEF EmitRaises, manager
<1>4. CASE ~Attended(e)
  <2>1. TasksTyped' /\ \A u \in Tasks : TaskFrame(u)
    BY <1>1, <1>4 DEF EmitRaises, TasksTyped, TaskFrame
  <2> QED
    BY <1>1, <1>2, <2>1, CalmStep DEF manager
<1> QED
  BY <1>3, <1>4

\* The task is left alone, and the emit is replaced or gone.
LEMMA EmitMovesKeeps ==
    ASSUME IInv, PlainLog, UNCHANGED <<task, manager, grades, request, bounds>>,
           emits' \subseteq Emit
    PROVE  IInv'
<1>1. TasksTyped /\ CallsTyped /\ failure \in BOOLEAN
  BY Typed DEF IInv, TypeOK
<1>2. TasksTyped' /\ CallsTyped' /\ \A u \in Tasks : TaskFrame(u)
  BY <1>1 DEF TasksTyped, CallsTyped, TaskFrame
<1> QED
  BY <1>1, <1>2, CalmStep DEF manager

LEMMA MoveEmitTyped ==
    ASSUME CallsTyped, NEW e \in emits,
           NEW pc \in EmitAppending \cup {"review", "handle", "spawning"}, MoveEmit(e, pc)
    PROVE  emits' \subseteq Emit
<1>1. [e EXCEPT !.pc = pc, !.ver = 0] \in Emit
  BY DEF CallsTyped, Emit
<1> QED
  BY <1>1 DEF MoveEmit, CallsTyped

LEMMA EmitAppendsKeeps ==
    ASSUME IInv, NEW e \in emits, EmitAppends(e)
    PROVE  IInv'
<1>1. CallsTyped /\ e \in Emit /\ e.pc \in EmitAppending
  BY DEF IInv, CallsTyped, EmitAppends
<1>2. PlainLog
  BY <1>1, EmitBatchPlain DEF EmitAppends, PlainLog
<1>3. ASSUME EmitReturns(e) PROVE IInv'
  <2>1. emits' \subseteq Emit
    BY <1>1, <1>3 DEF EmitReturns, CallsTyped
  <2> QED
    BY <1>2, <1>3, <2>1, EmitMovesKeeps DEF EmitReturns, EmitAppends
<1>4. ASSUME NEW pc \in {"review", "hints", "requested", "handle"},
             MoveEmit(e, pc), UNCHANGED task
      PROVE  IInv'
  <2>1. pc \in EmitAppending \cup {"review", "handle", "spawning"}
    BY DEF EmitAppending
  <2>2. emits' \subseteq Emit
    BY <1>1, <1>4, <2>1, MoveEmitTyped
  <2> QED
    BY <1>2, <1>4, <2>2, EmitMovesKeeps DEF EmitAppends
<1>5. ASSUME NEW pc \in {"budget", "control"}, NEW arg \in Words,
             pc = "control" => arg \in Signals, EmitRaises(e, pc, arg)
      PROVE  IInv'
  BY <1>2, <1>5, EmitRaisesKeeps DEF EmitAppends
<1>6. CASE EventStored(e)
  <2>1. "steps" \in Words
    BY DEF Words
  <2> QED
    BY <1>3, <1>4, <1>5, <1>6, <2>1 DEF EventStored
<1>7. ASSUME NEW pc \in {"return", "hints", "requested"}, MoveOrReturn(e, pc)
      PROVE  IInv'
  BY <1>3, <1>4, <1>7 DEF MoveOrReturn
<1>8. CASE DirectiveStored(e)
  <2>1. CASE e.pc = "reviewed" /\ MoveOrReturn(e, AfterReviewed(e))
    <3>1. AfterReviewed(e) \in {"return", "hints", "requested"}
      BY DEF AfterReviewed, AfterHints
    <3> QED
      BY <1>7, <2>1, <3>1
  <2>2. CASE e.pc = "hints" /\ MoveOrReturn(e, AfterHints(e))
    <3>1. AfterHints(e) \in {"return", "hints", "requested"}
      BY DEF AfterHints
    <3> QED
      BY <1>7, <2>2, <3>1
  <2>3. CASE e.dir.action \in Signals /\ EmitRaises(e, "control", e.dir.action)
    <3>1. e.dir.action \in Words
      BY <1>1 DEF Emit, Directive, Words
    <3> QED
      BY <1>5, <2>3, <3>1
  <2>4. CASE MoveOrReturn(e, IF HasHandler THEN "handle" ELSE "return")
    BY <1>3, <1>4, <2>4 DEF MoveOrReturn
  <2>5. CASE e.pc = "acted" /\ EmitReturns(e)
    BY <1>3, <2>5
  <2>6. CASE e.pc = "unacted" /\ EmitRaises(e, "control", "request_human")
    <3>1. "request_human" \in Words /\ "request_human" \in Signals
      BY DEF Words, Actions, Signals
    <3> QED
      BY <1>5, <2>6, <3>1
  <2> QED
    BY <1>8, <2>1, <2>2, <2>3, <2>4, <2>5, <2>6 DEF DirectiveStored
<1> QED
  BY <1>6, <1>8 DEF EmitAppends

LEMMA EmitKeeps ==
    ASSUME IInv, NEW e \in emits, EmitNext(e)
    PROVE  IInv'
<1>1. CallsTyped /\ e \in Emit /\ log \in Seq(LogEvent) /\ "" \in Words
  BY LogIsStream DEF IInv, CallsTyped, Words
<1>2. ASSUME UNCHANGED log PROVE PlainLog
  BY <1>2 DEF PlainLog
<1>3. CASE EmitReadsVersion(e)
  <2>1. ReadVersion(e) \in Emit
    BY <1>1, LenProperties DEF Emit, ReadVersion
  <2>2. emits' \subseteq Emit
    BY <1>1, <1>3, <2>1 DEF EmitReadsVersion, CallsTyped
  <2> QED
    BY <1>2, <1>3, <2>2, EmitMovesKeeps DEF EmitReadsVersion
<1>4. CASE EmitAppends(e)
  BY <1>4, EmitAppendsKeeps
<1>5. CASE EmitConflicts(e)
  <2>1. CASE e.pc = "acted"
    <3>1. emits' \subseteq Emit
      BY <1>1, <1>5, <2>1, MoveEmitTyped DEF EmitConflicts, EmitAppending
    <3> QED
      BY <1>2, <1>5, <2>1, <3>1, EmitMovesKeeps DEF EmitConflicts
  <2>2. CASE e.pc # "acted"
    BY <1>1, <1>2, <1>5, <2>2, EmitRaisesKeeps DEF EmitConflicts
  <2> QED
    BY <2>1, <2>2
<1>6. CASE AdvisorAnswers(e)
  <2>1. PICK d \in Directives :
           emits' = (emits \ {e}) \cup {[e EXCEPT !.pc = "reviewed", !.dir = d]}
    BY <1>6 DEF AdvisorAnswers
  <2>2. d \in Directive
    BY ParameterAssumption DEF Directive
  <2>3. [e EXCEPT !.pc = "reviewed", !.dir = d] \in Emit
    BY <1>1, <2>2 DEF Emit, EmitAppending
  <2>4. emits' \subseteq Emit
    BY <1>1, <2>1, <2>3 DEF CallsTyped
  <2> QED
    BY <1>2, <1>6, <2>4, EmitMovesKeeps DEF AdvisorAnswers
<1>7. CASE AdvisorRaises(e)
  BY <1>1, <1>2, <1>7, EmitRaisesKeeps DEF AdvisorRaises
<1>8. CASE HandlerSpawns(e)
  <2>1. e.attempt \in Nat
    BY <1>1 DEF Emit
  <2>2. /\ Ev("team.created", e.attempt) \in Plain
        /\ Ev("team.member.spawn_requested", e.attempt) \in Plain
        /\ Ev("team.member.spawned", e.attempt) \in Plain
        /\ Ev("team.member.spawn_failed", e.attempt) \in Plain
    BY <2>1, PlainTypes, EvPlain
  <2>3. ASSUME NEW x \in Plain, log' = Append(log, x) PROVE PlainLog
    <3>1. log' = log \o <<x>>
      BY <1>1, <2>3, RecordSets, AppendIsConcat
    <3> QED
      BY <3>1, Batches12 DEF PlainLog
  <2>4. PlainLog
    BY <1>8, <2>2, <2>3 DEF HandlerSpawns, Team
  <2>5. emits' \subseteq Emit
    BY <1>1, <1>8, MoveEmitTyped DEF HandlerSpawns, EmitAppending, CallsTyped
  <2> QED
    BY <1>8, <2>4, <2>5, EmitMovesKeeps DEF HandlerSpawns
<1>9. CASE HandlerSucceeds(e) \/ HandlerRaises(e)
  <2>1. emits' \subseteq Emit
    BY <1>1, <1>9, MoveEmitTyped DEF HandlerSucceeds, HandlerRaises, EmitAppending
  <2> QED
    BY <1>2, <1>9, <2>1, EmitMovesKeeps DEF HandlerSucceeds, HandlerRaises
<1> QED
  BY <1>3, <1>4, <1>5, <1>6, <1>7, <1>8, <1>9 DEF EmitNext

-----------------------------------------------------------------------------
(* The steps of requests.                                                  *)

LEMMA NoRequestTyped == NoRequest \in Request /\ NoRequest.pc = "idle"
  BY DEF NoRequest, Request

\* A request that is answered, or moved to a place other than "create".
LEMMA RequestMoves ==
    ASSUME IInv, PlainLog, NEW r \in Requests, NEW rec \in Request,
           rec.pc # "create",
           rec.pc \in {"check", "append"} => rec.op \in AllOperations \ {"start"},
           request' = [request EXCEPT ![r] = rec],
           UNCHANGED <<task, registered, startLock, failure, emits, grades, crashes>>,
           requests' \in 0 .. MaxRequests
    PROVE  IInv'
<1>1. /\ TasksTyped /\ RequestsTyped /\ CallsTyped /\ Ops /\ failure \in BOOLEAN
  BY Typed DEF IInv, TypeOK
<1>2. /\ request' \in [Requests -> Request] /\ request'[r] = rec
      /\ \A q \in Requests : q # r => request'[q] = request[q]
  BY <1>1 DEF RequestsTyped
<1>3. RequestsTyped' /\ Ops'
  BY <1>1, <1>2 DEF RequestsTyped, Ops
<1>4. \A q \in Requests : request'[q].pc = "create" => request[q].pc = "create"
  BY <1>2
<1>5. TasksTyped' /\ CallsTyped' /\ \A u \in Tasks : TaskFrame(u)
  BY <1>1 DEF TasksTyped, CallsTyped, TaskFrame
<1> QED
  BY <1>1, <1>3, <1>4, <1>5, RequestStep

LEMMA RequestKeeps ==
    ASSUME IInv, NEW r \in Requests, RequestNext(r)
    PROVE  IInv'
<1>1. /\ TasksTyped /\ RequestsTyped /\ CallsTyped /\ Ops /\ Args
      /\ request[r] \in Request /\ requests \in 0 .. MaxRequests
      /\ log \in Seq(LogEvent) /\ failure \in BOOLEAN
      /\ registered \in Tasks \cup {None} /\ startLock \in Requests \cup {None}
      /\ None \notin Tasks /\ None \notin Requests
  BY Typed, LogIsStream, ParameterAssumption DEF IInv, TypeOK, RequestsTyped
<1>2. ASSUME UNCHANGED log PROVE PlainLog
  BY <1>2 DEF PlainLog
<1>3. ASSUME NEW op \in Operations, Arrives(r, op) PROVE IInv'
  <2> DEFINE call == [NoRequest EXCEPT !.op = op,
                        !.pc = IF op = "start" THEN "lock" ELSE "check"]
  <2>1. /\ call \in Request
        /\ call.pc # "create"
        /\ call.pc \in {"check", "append"} => call.op \in AllOperations \ {"start"}
    BY ParameterAssumption DEF Request, NoRequest
  <2>2. /\ request' = [request EXCEPT ![r] = call]
        /\ requests' = requests + 1 /\ requests < MaxRequests
        /\ UNCHANGED <<log, task, registered, startLock, failure, emits, grades, crashes>>
    BY <1>3 DEF Arrives, manager
  <2> HIDE DEF call
  <2>3. requests' \in 0 .. MaxRequests
    BY <1>1, <2>2, ParameterAssumption
  <2> QED
    BY <1>2, <2>1, <2>2, <2>3, RequestMoves
<1>4. CASE TakeStartLock(r)
  <2>1. CASE IsActive
    BY <1>1, <1>2, <1>4, <2>1, NoRequestTyped, RequestMoves
    DEF TakeStartLock, Answer, bounds
  <2>2. CASE ~IsActive
    <3>1. /\ request' = [request EXCEPT ![r].pc = "create", ![r].ver = 0]
          /\ startLock = None /\ startLock' = r /\ request[r].pc = "lock"
          /\ UNCHANGED <<log, task, registered, failure, emits, grades, bounds>>
      BY <1>4, <2>2 DEF TakeStartLock, Move
    <3>2. /\ RequestsTyped' /\ request'[r].pc = "create"
          /\ \A q \in Requests : q # r => request'[q] = request[q]
      BY <1>1, <3>1 DEF RequestsTyped, Request
    <3>3. Ops'
      BY <1>1, <3>2 DEF Ops
    <3>4. ~IsActive'
      BY <2>2, <3>1 DEF IsActive, Live
    <3>5. \A q \in Requests : request'[q].pc = "create" => q = r
      BY <1>1, <3>1, <3>2 DEF IInv, Alone
    <3>6. Alone'
      BY <3>1, <3>4, <3>5 DEF IInv, Alone, Live
    <3>7. TasksTyped' /\ CallsTyped' /\ Args' /\ FreshStart' /\ AttemptsIncrease'
      BY <1>1, <3>1
      DEF TasksTyped, CallsTyped, Args, FreshStart, IInv, AttemptsIncrease, Positions
    <3>8. TypeOK'
      BY <1>1, <3>1, <3>2, <3>7, TypeParts DEF IInv, TypeOK, bounds
    <3> QED
      BY <3>3, <3>6, <3>7, <3>8 DEF IInv
  <2> QED
    BY <2>1, <2>2
<1>5. CASE CreateTask(r)
  <2>1. /\ request[r].pc = "create" /\ startLock = r /\ ~IsActive /\ startLock' = None
        /\ request' = [request EXCEPT ![r] = NoRequest]
        /\ UNCHANGED <<log, emits, grades, bounds>>
    BY <1>5 DEF CreateTask, Answer, IInv, Alone
  <2>2. /\ RequestsTyped' /\ request'[r].pc = "idle"
        /\ \A q \in Requests : q # r => request'[q] = request[q]
    BY <1>1, <2>1, NoRequestTyped DEF RequestsTyped
  <2>3. Ops' /\ \A q \in Requests : request'[q].pc # "create"
    BY <1>1, <2>1, <2>2 DEF Ops, IInv, Alone
  <2>4. CallsTyped' /\ AttemptsIncrease'
    BY <1>1, <2>1 DEF CallsTyped, IInv, AttemptsIncrease, Positions
  <2>5. \A t \in Tasks : ~Live(t)
    BY <1>1, <2>1 DEF IInv, Alone, IsActive
  <2>6. TasksTyped' /\ Args' /\ FreshStart' /\ (\A t \in Tasks : Live(t)' => registered' = t)
        /\ registered' \in Tasks \cup {None} /\ failure' \in BOOLEAN
    <3>1. CASE Status(log) \in Refused
      <4>1. UNCHANGED <<task, registered, failure>>
        BY <1>5, <3>1 DEF CreateTask
      <4> QED
        BY <1>1, <2>1, <2>5, <4>1 DEF TasksTyped, Args, FreshStart, IInv, Live
    <3>2. CASE Status(log) \notin Refused
      <4>1. PICK t \in Tasks :
               /\ task' = [task EXCEPT ![t] = [NoTask EXCEPT !.pc = "load"]]
               /\ registered' = t
        BY <1>5, <3>2 DEF CreateTask
      <4>2. [NoTask EXCEPT !.pc = "load"] \in TaskRec
            /\ [NoTask EXCEPT !.pc = "load"].pc = "load"
        BY NoTaskTyped DEF TaskRec, Pcs
      <4>3. /\ TasksTyped' /\ task'[t].pc = "load"
            /\ \A u \in Tasks : u # t => task'[u] = task[u]
        BY <1>1, <4>1, <4>2 DEF TasksTyped
      <4>4. Args' /\ FreshStart'
        BY <1>1, <2>1, <4>3 DEF Args, ArgOf, FreshStart, IInv
      <4>5. \A u \in Tasks : Live(u)' => registered' = u
        BY <2>5, <4>1, <4>3 DEF Live
      <4>6. failure' \in BOOLEAN
        BY <1>5, <3>2 DEF CreateTask
      <4> QED
        BY <4>1, <4>3, <4>4, <4>5, <4>6
    <3> QED
      BY <3>1, <3>2
  <2>7. Alone'
    BY <2>3, <2>6 DEF Alone
  <2>8. TypeOK'
    BY <1>1, <2>1, <2>2, <2>6, TypeParts DEF IInv, TypeOK, bounds
  <2> QED
    BY <2>3, <2>4, <2>6, <2>7, <2>8 DEF IInv
<1>6. CASE CheckStatus(r)
  <2>1. CASE Permitted(request[r].op, Status(log))
    <3> DEFINE rec == [request[r] EXCEPT !.pc = "append", !.from = Attempt(log)]
    <3>1. request' = [request EXCEPT ![r] = rec]
      BY <1>1, <1>6, <2>1 DEF CheckStatus, RequestsTyped
    <3>2. Attempt(log) \in Nat
      BY SnapshotTyped DEF IInv
    <3>3. rec \in Request /\ rec.pc = "append" /\ rec.op = request[r].op
      BY <1>1, <3>2 DEF Request
    <3>4. request[r].op \in AllOperations \ {"start"}
      BY <1>1, <1>6 DEF CheckStatus, Ops
    <3> HIDE DEF rec
    <3> QED
      BY <1>1, <1>2, <1>6, <3>1, <3>3, <3>4, RequestMoves DEF CheckStatus, manager, bounds
  <2>2. CASE ~Permitted(request[r].op, Status(log))
    BY <1>1, <1>2, <1>6, <2>2, NoRequestTyped, RequestMoves
    DEF CheckStatus, Answer, manager, bounds
  <2> QED
    BY <2>1, <2>2
<1>7. CASE RequestReadsVersion(r)
  <2> DEFINE rec == ReadVersion(request[r])
  <2>1. rec \in Request /\ rec.pc = "append" /\ rec.op = request[r].op
    BY <1>1, <1>7, LenProperties DEF Request, ReadVersion, RequestReadsVersion
  <2>2. request[r].op \in AllOperations \ {"start"}
    BY <1>1, <1>7 DEF RequestReadsVersion, Ops
  <2>3. request' = [request EXCEPT ![r] = rec]
    BY <1>7 DEF RequestReadsVersion
  <2> HIDE DEF rec
  <2> QED
    BY <1>1, <1>2, <1>7, <2>1, <2>2, <2>3, RequestMoves
    DEF RequestReadsVersion, manager, bounds
<1>8. CASE RequestAppends(r)
  <2>1. PlainLog
    BY <1>1, <1>8, RequestBatchPlain DEF RequestAppends, PlainLog
  <2> QED
    BY <1>1, <1>8, <2>1, NoRequestTyped, RequestMoves
    DEF RequestAppends, Answer, manager, bounds
<1>9. CASE RequestConflicts(r)
  BY <1>1, <1>2, <1>9, NoRequestTyped, RequestMoves
  DEF RequestConflicts, Answer, manager, bounds
<1> QED
  BY <1>3, <1>4, <1>5, <1>6, <1>7, <1>8, <1>9 DEF RequestNext

-----------------------------------------------------------------------------
(* The run is created, and the process stops.                              *)

LEMMA CreateRunKeeps ==
    ASSUME IInv, CreateRun
    PROVE  IInv'
<1>1. Ev("run.created", 0) \in Plain
  BY PlainTypes, EvPlain
<1>2. log' = log \o <<Ev("run.created", 0)>>
  BY DEF CreateRun
<1>3. PlainLog
  BY <1>1, <1>2, Batches12 DEF PlainLog
<1>4. TasksTyped /\ CallsTyped /\ failure \in BOOLEAN
  BY Typed DEF IInv, TypeOK
<1>5. TasksTyped' /\ CallsTyped' /\ \A u \in Tasks : TaskFrame(u)
  BY <1>4 DEF CreateRun, TasksTyped, CallsTyped, TaskFrame
<1> QED
  BY <1>3, <1>4, <1>5, CalmStep DEF CreateRun, manager

LEMMA ForgottenState ==
    ASSUME task = [t \in Tasks |-> NoTask], request = [r \in Requests |-> NoRequest],
           emits = {}, grades = {}
    PROVE  TasksTyped /\ RequestsTyped /\ CallsTyped /\ Args /\ Ops /\ Alone /\ FreshStart
<1>1. \A t \in Tasks : task[t] = NoTask
  OBVIOUS
<1>2. \A r \in Requests : request[r] = NoRequest
  OBVIOUS
<1> QED
  BY <1>1, <1>2, NoTaskTyped, NoRequestTyped
  DEF TasksTyped, RequestsTyped, CallsTyped, Args, ArgOf, Ops, Alone, Live, FreshStart

LEMMA StopKeeps ==
    ASSUME IInv, Stop
    PROVE  IInv'
<1>1. /\ TasksTyped' /\ RequestsTyped' /\ CallsTyped' /\ Args' /\ Ops' /\ Alone'
      /\ FreshStart'
  <2>1. /\ \A t \in Tasks : task'[t] = NoTask
        /\ \A r \in Requests : request'[r] = NoRequest
    BY DEF Stop
  <2> QED
    BY <2>1, NoTaskTyped, NoRequestTyped
    DEF Stop, TasksTyped, RequestsTyped, CallsTyped, Args, ArgOf, Ops, Alone, Live,
        FreshStart
<1>2. log \in Seq(LogEvent) /\ UNCHANGED <<log, requests>> /\ requests \in 0 .. MaxRequests
      /\ crashes' \in 0 .. MaxCrashes /\ registered' = None /\ startLock' = None
      /\ failure' = FALSE
  BY LogIsStream, ParameterAssumption DEF IInv, TypeOK, Stop
<1>3. TypeOK'
  BY <1>1, <1>2, TypeParts DEF IInv
<1>4. AttemptsIncrease'
  BY <1>2 DEF IInv, AttemptsIncrease, Positions
<1> QED
  BY <1>1, <1>3, <1>4 DEF IInv

LEMMA InitEstablishesIInv ==
    ASSUME Init
    PROVE  IInv
<1>1. /\ TasksTyped /\ RequestsTyped /\ CallsTyped /\ Args /\ Ops /\ Alone /\ FreshStart
  BY ForgottenState DEF Init
<1>2. TypeOK
  <2>1. log \in Seq(LogEvent)
    BY DEF Init
  <2>2. /\ registered = None /\ startLock = None /\ failure = FALSE
        /\ requests \in 0 .. MaxRequests /\ crashes \in 0 .. MaxCrashes
    BY ParameterAssumption DEF Init
  <2> QED
    BY <1>1, <2>1, <2>2
    DEF TypeOK, LogEvent, EventSet, Amounts, TasksTyped, RequestsTyped, TaskRec, Snap, Pcs,
        Request
<1>3. AttemptsIncrease
  BY DEF Init, AttemptsIncrease, Positions
<1> QED
  BY <1>1, <1>2, <1>3 DEF IInv

LEMMA StutterKeeps ==
    ASSUME IInv, UNCHANGED vars
    PROVE  IInv'
<1>1. TasksTyped /\ CallsTyped /\ failure \in BOOLEAN
  BY Typed DEF IInv, TypeOK
<1>2. TasksTyped' /\ CallsTyped' /\ PlainLog /\ \A u \in Tasks : TaskFrame(u)
  BY <1>1 DEF vars, TasksTyped, CallsTyped, TaskFrame, PlainLog
<1> QED
  BY <1>1, <1>2, CalmStep DEF vars, bounds

THEOREM EngineInvariance == Spec => []IInv
<1>1. Init => IInv
  BY InitEstablishesIInv
<1>2. IInv /\ [Next]_vars => IInv'
  BY CreateRunKeeps, TaskKeeps, EmitKeeps, GradeKeeps, RequestKeeps, StopKeeps,
     StutterKeeps DEF Next
<1> QED
  BY <1>1, <1>2, PTL DEF Spec

-----------------------------------------------------------------------------
(* The results.                                                            *)

(* The stream, the tasks and the requests of a run stay well formed: every *)
(* event is of a known type with a number for an attempt.                  *)
THEOREM EngineTypeCorrect == Spec => []TypeOK
  BY EngineInvariance, PTL DEF IInv

(* RunTaskManager: no two tasks execute one run at the same time.          *)
THEOREM OneTaskAtATime == Spec => []OneLiveTask
<1>1. IInv => OneLiveTask
  BY DEF IInv, Alone, OneLiveTask
<1> QED
  BY <1>1, EngineInvariance, PTL

(* The attempt numbers of a run grow strictly, so an execution id is never *)
(* used twice.                                                             *)
THEOREM AttemptNumbersIncrease == Spec => []AttemptsIncrease
  BY EngineInvariance, PTL DEF IInv
=============================================================================
