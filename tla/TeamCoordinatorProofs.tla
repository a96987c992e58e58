------------------------ MODULE TeamCoordinatorProofs ------------------------
(***************************************************************************)
(* Proofs about TeamCoordinator: however many calls of spawn race, conflict *)
(* or are cut off, teams stay bounded, a run has one team, children are    *)
(* announced, members are runs, and no run has two tasks.                  *)
(*                                                                         *)
(* The versions that append_control_event compares play no part in the     *)
(* proof: the lock of the parent alone keeps two calls from appending to   *)
(* the same team at once.                                                  *)
(***************************************************************************)
EXTENDS TeamCoordinator, FiniteSetTheorems, SequenceTheorems, TLAPS

Ids  == Runs \cup {None}
Pcs  == Entered \cup {"idle", "lock"}
EventSet == [type : EventTypes, run : Ids, team : Ids, depth : Nat]
CallSet  == [pc : Pcs, parent : Ids, child : Ids, team : Ids, count : Nat, ver : Nat]

-----------------------------------------------------------------------------
(* The inductive invariant.                                                *)

\* The lock of a run holds its active calls, each once.
Locks ==
    /\ \A r \in Runs : \A i \in DOMAIN lock[r] :
          call[lock[r][i]].pc # "idle" /\ call[lock[r][i]].parent = r
    /\ \A r \in Runs : \A i, j \in DOMAIN lock[r] : lock[r][i] = lock[r][j] => i = j
    /\ \A c \in Callers : call[c].pc # "idle" =>
          \E i \in DOMAIN lock[call[c].parent] : lock[call[c].parent][i] = c

\* A call that has entered holds it.
Holding(c) == call[c].pc \in Entered =>
                lock[call[c].parent] # <<>> /\ lock[call[c].parent][1] = c

Announced(p, r) == \E i \in Of(p, "team.member.spawn_requested") : stream[p][i].run = r
Failed(p, r)    == \E i \in Of(p, "team.member.spawn_failed") : stream[p][i].run = r

\* What the i-th event of the stream of r, a team.member.spawned, says.
MemberFor(r, i) ==
    /\ stream[r][i].run \in Children /\ Definition(stream[r][i].run).run = r
    /\ \E j \in Of(r, "team.member.spawn_requested") :
          j < i /\ stream[r][j].run = stream[r][i].run
    /\ \A j \in Of(r, "team.member.spawned") : stream[r][j].run = stream[r][i].run => j = i
    /\ ~Failed(r, stream[r][i].run)

\* What a team is, whatever the calls do.
TeamInv(r) ==
    /\ \A i, j \in Of(r, "team.created") : i = j
    /\ IsFiniteSet(Members(r)) /\ Cardinality(Members(r)) =< MaxSubagents
    /\ ~HasTeam(r) => Members(r) = {}
    /\ \A i \in Of(r, "team.member.spawned") : MemberFor(r, i)

\* What a child run r that exists says of its parent p.
ChildOf(r, p) ==
    /\ Definition(r).run = p
    /\ HasTeam(p) /\ Definition(r).team = TeamOf(p)
    /\ Announced(p, r)
    /\ Definition(r).depth =< MaxDepth

ChildInv(r) == Created(r) => \E p \in Runs : ChildOf(r, p)

\* What an active call for child k of run p relies on after each of its awaits.
CallFor(c, p, k) ==
    /\ call[c].parent = p /\ call[c].child = k
    /\ Created(p)
    /\ call[c].pc \notin {"spawned", "start"} => ~Created(k)
    /\ call[c].pc \in {"spawned", "start"} => Created(k) /\ Definition(k).run = p
    /\ call[c].pc \in {"lock", "read", "create_team"} => call[c].count = 0
    /\ call[c].pc = "create_team" => ~HasTeam(p)
    /\ call[c].pc \in {"request", "create", "failed", "spawned", "start"} =>
          HasTeam(p) /\ call[c].team = TeamOf(p)
    /\ call[c].pc \in {"request", "create", "spawned"} =>
          Cardinality(Members(p)) < MaxSubagents /\ Definition(p).depth < MaxDepth
    /\ call[c].pc \in {"create", "failed", "spawned", "start"} => Announced(p, k)
    /\ call[c].pc # "start" => k \notin Members(p) /\ ~Failed(p, k)

CallInv(c) == call[c].pc # "idle" =>
                \E p \in Runs, k \in Runs \ {Leader} : CallFor(c, p, k)

\* uuid4 gives no two calls the same child.
Distinct ==
    \A c, d \in Callers : c # d /\ call[c].pc # "idle" => call[c].child # call[d].child

\* A run that has a task exists; one that waits for a slot does so once.
Queued ==
    /\ \A i \in DOMAIN queue : job[queue[i]] = "queued"
    /\ \A i, j \in DOMAIN queue : queue[i] = queue[j] => i = j
    /\ \A r \in Runs : job[r] = "queued" => \E i \in DOMAIN queue : queue[i] = r

Jobs ==
    /\ \A r \in Runs : job[r] # "none" => Created(r)
    /\ Queued

IInv ==
    /\ TypeOK
    /\ Created(Leader)
    /\ Locks
    /\ \A c \in Callers : Holding(c) /\ CallInv(c)
    /\ Distinct
    /\ \A r \in Runs : TeamInv(r)
    /\ \A r \in Runs \ {Leader} : ChildInv(r)
    /\ Jobs

-----------------------------------------------------------------------------
(* A stream that grows.                                                    *)

\* An event appended to the stream of p changes no other stream and moves no event.
LEMMA StreamGrows ==
  ASSUME TypeOK, NEW p \in Runs, NEW e \in EventSet,
         stream' = [stream EXCEPT ![p] = Append(@, e)]
  PROVE  /\ stream' \in [Runs -> Seq(EventSet)]
         /\ \A r \in Runs : r # p => stream'[r] = stream[r]
         /\ DOMAIN stream[p] = 1 .. Len(stream[p]) /\ Len(stream[p]) \in Nat
         /\ DOMAIN stream'[p] = 1 .. (Len(stream[p]) + 1)
         /\ \A i \in DOMAIN stream[p] : stream'[p][i] = stream[p][i]
         /\ stream'[p][Len(stream[p]) + 1] = e
<1>1. stream \in [Runs -> Seq(EventSet)] /\ stream[p] \in Seq(EventSet)
  BY DEF TypeOK, EventSet, Ids
<1>2. stream'[p] = Append(stream[p], e) /\ \A r \in Runs : r # p => stream'[r] = stream[r]
  BY <1>1
<1>3. /\ Append(stream[p], e) \in Seq(EventSet)
      /\ Len(Append(stream[p], e)) = Len(stream[p]) + 1
      /\ \A i \in 1 .. Len(stream[p]) : Append(stream[p], e)[i] = stream[p][i]
      /\ Append(stream[p], e)[Len(stream[p]) + 1] = e
  BY <1>1, AppendProperties
<1>4. /\ Len(stream[p]) \in Nat /\ DOMAIN stream[p] = 1 .. Len(stream[p])
      /\ DOMAIN Append(stream[p], e) = 1 .. Len(Append(stream[p], e))
  BY <1>1, <1>3, LenProperties
<1>5. stream' \in [Runs -> Seq(EventSet)]
  BY <1>1, <1>3
<1> QED BY <1>2, <1>3, <1>4, <1>5

\* The events of a type: those there were, and the new one.
LEMMA OfGrows ==
  ASSUME TypeOK, NEW p \in Runs, NEW e \in EventSet,
         stream' = [stream EXCEPT ![p] = Append(@, e)]
  PROVE  \A r \in Runs, t \in EventTypes :
           Of(r, t)' = IF r = p /\ t = e.type THEN Of(r, t) \cup {Len(stream[p]) + 1}
                       ELSE Of(r, t)
<1>1. /\ \A r \in Runs : r # p => stream'[r] = stream[r]
      /\ DOMAIN stream[p] = 1 .. Len(stream[p]) /\ Len(stream[p]) \in Nat
      /\ DOMAIN stream'[p] = 1 .. (Len(stream[p]) + 1)
      /\ \A i \in DOMAIN stream[p] : stream'[p][i] = stream[p][i]
      /\ stream'[p][Len(stream[p]) + 1] = e
  BY StreamGrows
<1> TAKE r \in Runs, t \in EventTypes
<1>2. CASE r # p
  BY <1>1, <1>2 DEF Of
<1>3. CASE r = p
  <2>1. Of(p, t)' = {i \in 1 .. (Len(stream[p]) + 1) : stream'[p][i].type = t}
    BY <1>1 DEF Of
  <2>2. Of(p, t) = {i \in 1 .. Len(stream[p]) : stream[p][i].type = t}
    BY <1>1 DEF Of
  <2>3. 1 .. (Len(stream[p]) + 1) = (1 .. Len(stream[p])) \cup {Len(stream[p]) + 1}
    BY <1>1
  <2> QED BY <1>1, <1>3, <2>1, <2>2, <2>3
<1> QED BY <1>2, <1>3

\* What the stream of r says survives.
LEMMA RunKept ==
  ASSUME TypeOK, NEW p \in Runs, NEW e \in EventSet,
         stream' = [stream EXCEPT ![p] = Append(@, e)], NEW r \in Runs
  PROVE  /\ Created(r)' <=> Created(r) \/ r = p
         /\ Created(r) => Definition(r)' = Definition(r)
         /\ HasTeam(r)' <=> HasTeam(r) \/ (r = p /\ e.type = "team.created")
         /\ Members(r)' = IF r = p /\ e.type = "team.member.spawned"
                          THEN Members(r) \cup {e.run} ELSE Members(r)
         /\ \A k : Announced(r, k) => Announced(r, k)'
         /\ \A k : Failed(r, k)' <=>
                  Failed(r, k) \/ (r = p /\ e.type = "team.member.spawn_failed" /\ e.run = k)
<1>1. /\ \A s \in Runs : s # p => stream'[s] = stream[s]
      /\ DOMAIN stream[p] = 1 .. Len(stream[p]) /\ Len(stream[p]) \in Nat
      /\ DOMAIN stream'[p] = 1 .. (Len(stream[p]) + 1)
      /\ \A i \in DOMAIN stream[p] : stream'[p][i] = stream[p][i]
      /\ stream'[p][Len(stream[p]) + 1] = e
  BY StreamGrows
<1>2. \A t \in EventTypes :
           Of(r, t)' = IF r = p /\ t = e.type THEN Of(r, t) \cup {Len(stream[p]) + 1}
                       ELSE Of(r, t)
  BY OfGrows
<1>3. stream[r] \in Seq(EventSet) /\ stream'[r] \in Seq(EventSet)
  BY StreamGrows DEF TypeOK, EventSet, Ids
<1>4. /\ stream[r] # <<>> <=> Len(stream[r]) > 0
      /\ stream[r] # <<>> => 1 \in DOMAIN stream[r]
      /\ DOMAIN stream[r] = 1 .. Len(stream[r]) /\ Len(stream[r]) \in Nat
      /\ stream'[r] # <<>> <=> Len(stream'[r]) > 0
      /\ DOMAIN stream'[r] = 1 .. Len(stream'[r]) /\ Len(stream'[r]) \in Nat
  BY <1>3, LenProperties, EmptySeq
<1>5. Created(r)' <=> Created(r) \/ r = p
  <2>1. r = p => Len(stream'[r]) > 0
    BY <1>1, <1>4
  <2> QED BY <1>1, <1>4, <2>1 DEF Created
<1>6. Created(r) => Definition(r)' = Definition(r)
  BY <1>1, <1>4 DEF Created, Definition
<1>7. HasTeam(r)' <=> HasTeam(r) \/ (r = p /\ e.type = "team.created")
  BY <1>2 DEF HasTeam, EventTypes
<1>8. Members(r)' = IF r = p /\ e.type = "team.member.spawned"
                    THEN Members(r) \cup {e.run} ELSE Members(r)
  <2>1. Of(r, "team.member.spawned")' =
          IF r = p /\ e.type = "team.member.spawned"
          THEN Of(r, "team.member.spawned") \cup {Len(stream[p]) + 1}
          ELSE Of(r, "team.member.spawned")
    BY <1>2 DEF EventTypes
  <2>2. \A i \in Of(r, "team.member.spawned") : stream'[r][i] = stream[r][i]
    BY <1>1 DEF Of
  <2>3. Members(r)' = {stream'[r][i].run : i \in Of(r, "team.member.spawned")'}
    BY DEF Members
  <2>4. CASE r = p /\ e.type = "team.member.spawned"
    <3>1. stream'[r][Len(stream[p]) + 1].run = e.run
      BY <1>1, <2>4
    <3>2. Members(r)' = {stream'[r][i].run : i \in Of(r, "team.member.spawned")}
                          \cup {stream'[r][Len(stream[p]) + 1].run}
      BY <2>1, <2>3, <2>4
    <3>3. {stream'[r][i].run : i \in Of(r, "team.member.spawned")} = Members(r)
      BY <2>2 DEF Members
    <3> QED BY <3>1, <3>2, <3>3, <2>4
  <2>5. CASE ~(r = p /\ e.type = "team.member.spawned")
    <3>1. Members(r)' = {stream'[r][i].run : i \in Of(r, "team.member.spawned")}
      BY <2>1, <2>3, <2>5
    <3> QED BY <3>1, <2>2, <2>5 DEF Members
  <2> QED BY <2>4, <2>5
<1>9. \A k : Announced(r, k) => Announced(r, k)'
  <2>1. Of(r, "team.member.spawn_requested") \subseteq Of(r, "team.member.spawn_requested")'
    BY <1>2 DEF EventTypes
  <2>2. \A i \in Of(r, "team.member.spawn_requested") : stream'[r][i] = stream[r][i]
    BY <1>1 DEF Of
  <2> QED BY <2>1, <2>2 DEF Announced
<1>10. \A k : Failed(r, k)' <=>
            Failed(r, k) \/ (r = p /\ e.type = "team.member.spawn_failed" /\ e.run = k)
  <2>1. Of(r, "team.member.spawn_failed")' =
          IF r = p /\ e.type = "team.member.spawn_failed"
          THEN Of(r, "team.member.spawn_failed") \cup {Len(stream[p]) + 1}
          ELSE Of(r, "team.member.spawn_failed")
    BY <1>2 DEF EventTypes
  <2>2. \A i \in Of(r, "team.member.spawn_failed") : stream'[r][i] = stream[r][i]
    BY <1>1 DEF Of
  <2>3. \A k : Failed(r, k) <=>
               \E i \in Of(r, "team.member.spawn_failed") : stream'[r][i].run = k
    BY <2>2 DEF Failed
  <2>4. \A k : Failed(r, k)' <=>
               \E i \in Of(r, "team.member.spawn_failed")' : stream'[r][i].run = k
    BY DEF Failed
  <2>5. CASE r = p /\ e.type = "team.member.spawn_failed"
    <3>1. \A k : Failed(r, k)' <=>
            \E i \in Of(r, "team.member.spawn_failed") \cup {Len(stream[p]) + 1} :
               stream'[r][i].run = k
      BY <2>1, <2>4, <2>5
    <3>2. stream'[r][Len(stream[p]) + 1].run = e.run
      BY <1>1, <2>5
    <3> QED BY <2>3, <2>5, <3>1, <3>2
  <2>6. CASE ~(r = p /\ e.type = "team.member.spawn_failed")
    <3>1. \A k : Failed(r, k)' <=>
            \E i \in Of(r, "team.member.spawn_failed") : stream'[r][i].run = k
      BY <2>1, <2>4, <2>6
    <3> QED BY <2>3, <2>6, <3>1
  <2> QED BY <2>5, <2>6
<1> QED BY <1>5, <1>6, <1>7, <1>8, <1>9, <1>10

\* The team of a run is that of its one team.created.
LEMMA TeamIs ==
  ASSUME NEW r \in Runs, NEW i \in Of(r, "team.created"),
         \A j, k \in Of(r, "team.created") : j = k, i \in Nat
  PROVE  TeamOf(r) = stream[r][i].team
<1>1. Of(r, "team.created") = {i}
  OBVIOUS
<1>2. (CHOOSE j \in {i} : \A k \in {i} : j =< k) = i
  OBVIOUS
<1> QED BY <1>1, <1>2 DEF TeamOf

\* It stays its team, and a run that had none has the new event's.
LEMMA TeamKept ==
  ASSUME TypeOK, NEW p \in Runs, NEW e \in EventSet,
         stream' = [stream EXCEPT ![p] = Append(@, e)], NEW r \in Runs,
         \A i, j \in Of(r, "team.created") : i = j,
         r = p /\ e.type = "team.created" => ~HasTeam(p)
  PROVE  /\ \A i, j \in Of(r, "team.created")' : i = j
         /\ HasTeam(r) => TeamOf(r)' = TeamOf(r)
         /\ r = p /\ e.type = "team.created" => TeamOf(r)' = e.team
<1>1. /\ \A s \in Runs : s # p => stream'[s] = stream[s]
      /\ DOMAIN stream[p] = 1 .. Len(stream[p]) /\ Len(stream[p]) \in Nat
      /\ \A i \in DOMAIN stream[p] : stream'[p][i] = stream[p][i]
      /\ stream'[p][Len(stream[p]) + 1] = e
  BY StreamGrows
<1>2. Of(r, "team.created")' = IF r = p /\ "team.created" = e.type
                               THEN Of(r, "team.created") \cup {Len(stream[p]) + 1}
                               ELSE Of(r, "team.created")
  BY OfGrows DEF EventTypes
<1>3. \A i, j \in Of(r, "team.created")' : i = j
  BY <1>2 DEF HasTeam
<1>4. HasTeam(r) => TeamOf(r)' = TeamOf(r)
  <2> SUFFICES ASSUME HasTeam(r) PROVE TeamOf(r)' = TeamOf(r)
    OBVIOUS
  <2>1. PICK i \in Of(r, "team.created") : TRUE
    BY DEF HasTeam
  <2>2. Of(r, "team.created")' = Of(r, "team.created")
    BY <1>2
  <2>3. i \in DOMAIN stream[r] /\ stream'[r][i] = stream[r][i]
    BY <1>1 DEF Of
  <2>s. stream[r] \in Seq(EventSet)
    BY DEF TypeOK, EventSet, Ids
  <2>4. i \in Nat
    BY <2>s, <2>3, LenProperties
  <2>5. TeamOf(r) = stream[r][i].team
    BY <2>4, TeamIs
  <2>a. Of(r, "team.created")' = {i}
    BY <2>2
  <2>b. (CHOOSE j \in {i} : \A k \in {i} : j =< k) = i
    BY <2>4
  <2>6. TeamOf(r)' = stream'[r][i].team
    BY <2>a, <2>b DEF TeamOf
  <2> QED BY <2>3, <2>5, <2>6
<1>5. r = p /\ e.type = "team.created" => TeamOf(r)' = e.team
  <2> SUFFICES ASSUME r = p, e.type = "team.created" PROVE TeamOf(r)' = e.team
    OBVIOUS
  <2>1. Of(r, "team.created")' = {Len(stream[p]) + 1}
    BY <1>2 DEF HasTeam
  <2>2. TeamOf(r)' = stream'[r][CHOOSE j \in {Len(stream[p]) + 1} :
                                  \A k \in {Len(stream[p]) + 1} : j =< k].team
    BY <2>1 DEF TeamOf
  <2>3. (CHOOSE j \in {Len(stream[p]) + 1} : \A k \in {Len(stream[p]) + 1} : j =< k)
          = Len(stream[p]) + 1
    BY <1>1
  <2> QED BY <1>1, <2>2, <2>3
<1> QED BY <1>3, <1>4, <1>5

-----------------------------------------------------------------------------
(* The locks.                                                              *)

\* The queue of a lock without one of its calls.
LEMMA Removed ==
  ASSUME NEW S, NEW s \in Seq(S), NEW n \in DOMAIN s,
         \A i, j \in DOMAIN s : s[i] = s[j] => i = j
  PROVE  /\ RemoveFirst(s, s[n]) \in Seq(S)
         /\ Len(s) \in Nat /\ n \in 1 .. Len(s)
         /\ DOMAIN RemoveFirst(s, s[n]) = 1 .. (Len(s) - 1)
         /\ \A i \in 1 .. (Len(s) - 1) :
              RemoveFirst(s, s[n])[i] = IF i < n THEN s[i] ELSE s[i + 1]
<1>1. Len(s) \in Nat /\ DOMAIN s = 1 .. Len(s) /\ n \in 1 .. Len(s) /\ n \in Nat /\ n \in Int
      /\ Len(s) \in Int
  BY LenProperties
<1>2. \A i \in 1 .. Len(s) : s[i] \in S
  BY ElementOfSeq
<1>3. RemoveFirst(s, s[n]) = RemoveAt(s, n)
  <2>1. {i \in 1 .. Len(s) : s[i] = s[n]} = {n}
    BY <1>1
  <2>2. SelectInSeq(s, LAMBDA v : v = s[n]) = n
    BY <2>1, <1>1 DEF SelectInSeq, Min
  <2> QED BY <2>2, <1>1 DEF RemoveFirst
<1> DEFINE a == SubSeq(s, 1, n - 1)
           b == SubSeq(s, n + 1, Len(s))
<1>4. /\ a \in Seq(S) /\ Len(a) = n - 1
      /\ \A i \in 1 .. (n - 1) : a[i] = s[i]
  <2>1. n - 1 \in Int /\ \A i \in 1 .. n - 1 : s[i] \in S
    BY <1>1, <1>2
  <2>2. /\ a \in Seq(S)
        /\ Len(a) = IF 1 <= n - 1 THEN n - 1 - 1 + 1 ELSE 0
        /\ \A i \in 1 .. (n - 1 - 1 + 1) : a[i] = s[1 + i - 1]
    BY <2>1, SubSeqProperties
  <2> QED BY <2>2, <1>1
<1>5. /\ b \in Seq(S) /\ Len(b) = Len(s) - n
      /\ \A i \in 1 .. (Len(s) - n) : b[i] = s[n + i]
  <2>1. n + 1 \in Int /\ \A i \in n + 1 .. Len(s) : s[i] \in S
    BY <1>1, <1>2
  <2>2. /\ b \in Seq(S)
        /\ Len(b) = IF n + 1 <= Len(s) THEN Len(s) - (n + 1) + 1 ELSE 0
        /\ \A i \in 1 .. (Len(s) - (n + 1) + 1) : b[i] = s[n + 1 + i - 1]
    BY <2>1, <1>1, SubSeqProperties
  <2> QED BY <2>2, <1>1
<1>6. RemoveAt(s, n) = a \o b
  BY DEF RemoveAt
<1> HIDE DEF a, b
<1>7. /\ a \o b \in Seq(S)
      /\ Len(a \o b) = Len(a) + Len(b)
      /\ \A i \in 1 .. Len(a) + Len(b) :
           (a \o b)[i] = IF i <= Len(a) THEN a[i] ELSE b[i - Len(a)]
  <2>1. a \in Seq(S) /\ b \in Seq(S)
    BY <1>4, <1>5
  <2> QED
    BY <2>1, ConcatProperties
<1> DEFINE z == a \o b
<1>8. DOMAIN (a \o b) = 1 .. Len(a \o b)
  <2>1. z \in Seq(S)
    BY <1>7
  <2> HIDE DEF z
  <2>2. DOMAIN z = 1 .. Len(z)
    BY <2>1, LenProperties
  <2> QED
    BY <2>2 DEF z
<1>9. Len(a) + Len(b) = Len(s) - 1
  BY <1>1, <1>4, <1>5
<1>10. \A i \in 1 .. (Len(s) - 1) : (a \o b)[i] = IF i < n THEN s[i] ELSE s[i + 1]
  <2> TAKE i \in 1 .. (Len(s) - 1)
  <2>1. (a \o b)[i] = IF i <= Len(a) THEN a[i] ELSE b[i - Len(a)]
    BY <1>7, <1>9
  <2>2. CASE i < n
    <3>1. i <= Len(a) /\ i \in 1 .. (n - 1)
      BY <1>1, <1>4, <2>2
    <3> QED BY <1>4, <2>1, <2>2, <3>1
  <2>3. CASE ~(i < n)
    <3>1. ~(i <= Len(a)) /\ i - Len(a) \in 1 .. (Len(s) - n) /\ n + (i - Len(a)) = i + 1
      BY <1>1, <1>4, <2>3
    <3>2. b[i - Len(a)] = s[n + (i - Len(a))]
      BY <1>5, <3>1
    <3> QED BY <2>1, <2>3, <3>1, <3>2
  <2> QED BY <2>2, <2>3
<1> QED BY <1>1, <1>3, <1>6, <1>7, <1>8, <1>9, <1>10

\* A call that stays active leaves the locks as they are.
LEMMA StaysActive ==
  ASSUME TypeOK, Locks, Distinct, \A d \in Callers : Holding(d), NEW c \in Callers,
         call[c].pc # "idle", call'[c].pc # "idle",
         call'[c].parent = call[c].parent, call'[c].child = call[c].child,
         \A d \in Callers : d # c => call'[d] = call[d],
         call'[c].pc \in Entered =>
           lock[call[c].parent] # <<>> /\ lock[call[c].parent][1] = c,
         lock' = lock
  PROVE  Locks' /\ Distinct' /\ \A d \in Callers : Holding(d)'
<1>1. \A d \in Callers : /\ call'[d].pc # "idle" <=> call[d].pc # "idle"
                         /\ call'[d].parent = call[d].parent
                         /\ call'[d].child = call[d].child
  OBVIOUS
<1>2. \A r \in Runs : \A i \in DOMAIN lock[r] : lock[r][i] \in Callers
  <2> TAKE r \in Runs
  <2>1. lock[r] \in Seq(Callers)
    BY DEF TypeOK
  <2> QED BY <2>1, LenProperties, ElementOfSeq
<1>3. Locks'
  <2>1. \A r \in Runs : \A i \in DOMAIN lock'[r] :
          call'[lock'[r][i]].pc # "idle" /\ call'[lock'[r][i]].parent = r
    BY <1>1, <1>2 DEF Locks
  <2>2. \A r \in Runs : \A i, j \in DOMAIN lock'[r] : lock'[r][i] = lock'[r][j] => i = j
    BY DEF Locks
  <2>3. \A d \in Callers : call'[d].pc # "idle" =>
          \E i \in DOMAIN lock'[call'[d].parent] : lock'[call'[d].parent][i] = d
    <3> SUFFICES ASSUME NEW d \in Callers, call'[d].pc # "idle"
                 PROVE  \E i \in DOMAIN lock[call[d].parent] : lock[call[d].parent][i] = d
      BY <1>1
    <3> QED BY <1>1 DEF Locks
  <2> QED BY <2>1, <2>2, <2>3 DEF Locks
<1>4. Distinct'
  BY <1>1 DEF Distinct
<1>5. \A d \in Callers : Holding(d)'
  <2> TAKE d \in Callers
  <2>1. CASE d = c
    BY <1>1, <2>1 DEF Holding
  <2>2. CASE d # c
    BY <1>1, <2>2 DEF Holding
  <2> QED BY <2>1, <2>2
<1> QED BY <1>3, <1>4, <1>5

\* A call that leaves is taken out of the lock of its parent.
LEMMA Leaves ==
  ASSUME TypeOK, Locks, Distinct, \A d \in Callers : Holding(d),
         \A d \in Callers : call[d].pc # "idle" =>
           call[d].parent \in Runs /\ call[d].child \in Runs,
         NEW c \in Callers, call[c].pc # "idle", Leave(c)
  PROVE  /\ lock' \in [Runs -> Seq(Callers)]
         /\ call'[c] = Idle /\ \A d \in Callers : d # c => call'[d] = call[d]
         /\ Locks' /\ Distinct' /\ \A d \in Callers : Holding(d)'
<1>1. call'[c] = Idle /\ \A d \in Callers : d # c => call'[d] = call[d]
  BY DEF Leave, TypeOK
<1>2. PICK p \in Runs : p = call[c].parent
  OBVIOUS
<1>3. lock' = [lock EXCEPT ![p] = RemoveFirst(@, c)]
  BY <1>2 DEF Leave
<1>4. lock \in [Runs -> Seq(Callers)] /\ lock[p] \in Seq(Callers)
  BY DEF TypeOK
<1>5. lock'[p] = RemoveFirst(lock[p], c) /\ \A r \in Runs : r # p => lock'[r] = lock[r]
  BY <1>3, <1>4
<1>6. PICK n \in DOMAIN lock[p] : lock[p][n] = c
  BY <1>2 DEF Locks
<1>7. \A i, j \in DOMAIN lock[p] : lock[p][i] = lock[p][j] => i = j
  BY DEF Locks
<1>8. /\ lock'[p] \in Seq(Callers)
      /\ Len(lock[p]) \in Nat /\ n \in 1 .. Len(lock[p]) /\ n \in Nat
      /\ DOMAIN lock[p] = 1 .. Len(lock[p])
      /\ DOMAIN lock'[p] = 1 .. (Len(lock[p]) - 1)
      /\ \A i \in 1 .. (Len(lock[p]) - 1) :
           lock'[p][i] = IF i < n THEN lock[p][i] ELSE lock[p][i + 1]
  <2>1. DOMAIN lock[p] = 1 .. Len(lock[p])
    BY <1>4, LenProperties
  <2>2. RemoveFirst(lock[p], c) = RemoveFirst(lock[p], lock[p][n])
    BY <1>6
  <2>3. /\ RemoveFirst(lock[p], lock[p][n]) \in Seq(Callers)
        /\ Len(lock[p]) \in Nat /\ n \in 1 .. Len(lock[p])
        /\ DOMAIN RemoveFirst(lock[p], lock[p][n]) = 1 .. (Len(lock[p]) - 1)
        /\ \A i \in 1 .. (Len(lock[p]) - 1) :
             RemoveFirst(lock[p], lock[p][n])[i] = IF i < n THEN lock[p][i] ELSE lock[p][i + 1]
    BY <1>4, <1>7, Removed
  <2> QED BY <1>5, <2>1, <2>2, <2>3
<1>9. lock' \in [Runs -> Seq(Callers)]
  BY <1>3, <1>4, <1>5, <1>8
\* Where the other calls of p are afterwards, and where they were.
<1>10. \A i \in DOMAIN lock'[p] :
         \E j \in DOMAIN lock[p] : lock'[p][i] = lock[p][j] /\ j # n /\ j = IF i < n THEN i ELSE i + 1
  <2> TAKE i \in DOMAIN lock'[p]
  <2>1. i \in 1 .. (Len(lock[p]) - 1) /\ i \in Nat
    BY <1>8
  <2>2. CASE i < n
    <3>1. i \in DOMAIN lock[p] /\ i # n /\ lock'[p][i] = lock[p][i]
      BY <1>8, <2>1, <2>2
    <3> QED BY <2>2, <3>1
  <2>3. CASE ~(i < n)
    <3>1. i + 1 \in DOMAIN lock[p] /\ i + 1 # n /\ lock'[p][i] = lock[p][i + 1]
      BY <1>8, <2>1, <2>3
    <3> QED BY <2>3, <3>1
  <2> QED BY <2>2, <2>3
<1>11. \A j \in DOMAIN lock[p] : j # n => \E i \in DOMAIN lock'[p] : lock'[p][i] = lock[p][j]
  <2> SUFFICES ASSUME NEW j \in DOMAIN lock[p], j # n
               PROVE  \E i \in DOMAIN lock'[p] : lock'[p][i] = lock[p][j]
    OBVIOUS
  <2>1. j \in 1 .. Len(lock[p]) /\ j \in Nat
    BY <1>8
  <2>2. CASE j < n
    <3>1. j \in 1 .. (Len(lock[p]) - 1)
      BY <1>8, <2>1, <2>2
    <3> QED BY <1>8, <2>2, <3>1
  <2>3. CASE n < j
    <3>1. j - 1 \in 1 .. (Len(lock[p]) - 1) /\ ~(j - 1 < n) /\ (j - 1) + 1 = j
      BY <1>8, <2>1, <2>3
    <3> QED BY <1>8, <3>1
  <2> QED BY <1>8, <2>1, <2>2, <2>3
<1>12. \A r \in Runs : \A i \in DOMAIN lock[r] : lock[r][i] \in Callers
  <2> TAKE r \in Runs
  <2>1. lock[r] \in Seq(Callers)
    BY DEF TypeOK
  <2> QED BY <2>1, LenProperties, ElementOfSeq
<1>13. Locks'
  <2>1. \A r \in Runs : \A i \in DOMAIN lock'[r] :
          call'[lock'[r][i]].pc # "idle" /\ call'[lock'[r][i]].parent = r
    <3> SUFFICES ASSUME NEW r \in Runs, NEW i \in DOMAIN lock'[r]
                 PROVE  call'[lock'[r][i]].pc # "idle" /\ call'[lock'[r][i]].parent = r
      OBVIOUS
    <3>1. PICK j \in DOMAIN lock[r] : lock'[r][i] = lock[r][j] /\ lock[r][j] # c
      <4>1. CASE r = p
        BY <1>6, <1>7, <1>10, <4>1
      <4>2. CASE r # p
        BY <1>2, <1>5, <4>2 DEF Locks
      <4> QED BY <4>1, <4>2
    <3>2. lock[r][j] \in Callers /\ call'[lock[r][j]] = call[lock[r][j]]
      BY <1>1, <1>12, <3>1
    <3> QED BY <3>1, <3>2 DEF Locks
  <2>2. \A r \in Runs : \A i, j \in DOMAIN lock'[r] : lock'[r][i] = lock'[r][j] => i = j
    <3> SUFFICES ASSUME NEW r \in Runs, NEW i \in DOMAIN lock'[r], NEW j \in DOMAIN lock'[r],
                        lock'[r][i] = lock'[r][j]
                 PROVE  i = j
      OBVIOUS
    <3>1. CASE r # p
      BY <1>5, <3>1 DEF Locks
    <3>2. CASE r = p
      <4>1. PICK a \in DOMAIN lock[p] :
              lock'[p][i] = lock[p][a] /\ a = IF i < n THEN i ELSE i + 1
        BY <1>10, <3>2
      <4>2. PICK b \in DOMAIN lock[p] :
              lock'[p][j] = lock[p][b] /\ b = IF j < n THEN j ELSE j + 1
        BY <1>10, <3>2
      <4>3. a = b
        BY <1>7, <3>2, <4>1, <4>2
      <4>4. i \in Nat /\ j \in Nat
        BY <1>8, <3>2
      <4> QED BY <1>8, <4>1, <4>2, <4>3, <4>4
    <3> QED BY <3>1, <3>2
  <2>3. \A d \in Callers : call'[d].pc # "idle" =>
          \E i \in DOMAIN lock'[call'[d].parent] : lock'[call'[d].parent][i] = d
    <3> SUFFICES ASSUME NEW d \in Callers, call'[d].pc # "idle"
                 PROVE  \E i \in DOMAIN lock'[call'[d].parent] : lock'[call'[d].parent][i] = d
      OBVIOUS
    <3>1. d # c /\ call'[d] = call[d]
      BY <1>1 DEF Idle
    <3>2. PICK j \in DOMAIN lock[call[d].parent] : lock[call[d].parent][j] = d
      BY <3>1 DEF Locks
    <3>3. PICK r \in Runs : r = call[d].parent
      BY <3>1
    <3>4. \E i \in DOMAIN lock'[r] : lock'[r][i] = d
      <4>1. CASE r = p
        BY <1>6, <1>11, <3>1, <3>2, <3>3, <4>1
      <4>2. CASE r # p
        BY <1>5, <3>2, <3>3, <4>2
      <4> QED BY <4>1, <4>2
    <3> QED BY <3>1, <3>3, <3>4
  <2> QED BY <2>1, <2>2, <2>3 DEF Locks
<1>14. Distinct'
  <2> SUFFICES ASSUME NEW d \in Callers, NEW e \in Callers, d # e, call'[d].pc # "idle"
               PROVE  call'[d].child # call'[e].child
    BY DEF Distinct
  <2>1. d # c /\ call'[d] = call[d]
    BY <1>1 DEF Idle
  <2>2. CASE e # c
    BY <1>1, <2>1, <2>2 DEF Distinct
  <2>3. CASE e = c
    <3>1. call'[e].child = None
      BY <1>1, <2>3 DEF Idle
    <3>2. call'[d].child \in Runs
      BY <2>1
    <3> QED BY <3>1, <3>2, TeamAssumption DEF TeamAssumption
  <2> QED BY <2>2, <2>3
<1>15. \A d \in Callers : Holding(d)'
  <2> SUFFICES ASSUME NEW d \in Callers, call'[d].pc \in Entered
               PROVE  lock'[call'[d].parent] # <<>> /\ lock'[call'[d].parent][1] = d
    BY DEF Holding
  <2>1. d # c /\ call'[d] = call[d] /\ call[d].pc # "idle"
    BY <1>1 DEF Idle, Entered, Appending
  <2>2. PICK r \in Runs : r = call[d].parent
    BY <2>1
  <2>3. lock[r] # <<>> /\ lock[r][1] = d
    BY <2>1, <2>2 DEF Holding
  <2>4. CASE r # p
    BY <1>5, <2>1, <2>2, <2>3, <2>4
  <2>5. CASE r = p
    <3>1. n # 1
      BY <1>6, <2>1, <2>3, <2>5
    <3>2. 1 < n /\ 1 \in 1 .. (Len(lock[p]) - 1)
      BY <1>8, <3>1
    <3>3. lock'[p][1] = lock[p][1] /\ 1 \in DOMAIN lock'[p]
      BY <1>8, <3>2
    <3>4. lock'[p] # <<>>
      BY <3>3
    <3> QED BY <2>1, <2>2, <2>3, <2>5, <3>3, <3>4
  <2> QED BY <2>4, <2>5
<1> QED BY <1>1, <1>9, <1>13, <1>14, <1>15

-----------------------------------------------------------------------------
(* What an append to a stream leaves true.                                 *)

\* An event that keeps to the rules of its type keeps those of every team.
LEMMA TeamsKept ==
  ASSUME TypeOK, \A r \in Runs : TeamInv(r), NEW p \in Runs, NEW e \in EventSet,
         stream' = [stream EXCEPT ![p] = Append(@, e)],
         e.type = "team.created" => ~HasTeam(p),
         e.type = "team.member.spawned" =>
           /\ HasTeam(p) /\ Cardinality(Members(p)) < MaxSubagents
           /\ e.run \in Children /\ Definition(e.run).run = p /\ Announced(p, e.run)
           /\ e.run \notin Members(p) /\ ~Failed(p, e.run),
         e.type = "team.member.spawn_failed" => e.run \notin Members(p)
  PROVE  \A r \in Runs : TeamInv(r)'
<1> TAKE r \in Runs
<1>1. TeamInv(r)
  OBVIOUS
<1>2. \A i, j \in Of(r, "team.created")' : i = j
  BY <1>1, TeamKept DEF TeamInv
<1>3. /\ HasTeam(r)' <=> HasTeam(r) \/ (r = p /\ e.type = "team.created")
      /\ Members(r)' = IF r = p /\ e.type = "team.member.spawned"
                       THEN Members(r) \cup {e.run} ELSE Members(r)
  BY RunKept
<1>4. ~HasTeam(r)' => Members(r)' = {}
  BY <1>1, <1>3 DEF TeamInv
<1>5. IsFiniteSet(Members(r)') /\ Cardinality(Members(r)') =< MaxSubagents
  <2>1. CASE r = p /\ e.type = "team.member.spawned"
    <3>1. /\ IsFiniteSet(Members(r) \cup {e.run})
          /\ Cardinality(Members(r) \cup {e.run}) =
               IF e.run \in Members(r) THEN Cardinality(Members(r))
               ELSE Cardinality(Members(r)) + 1
      BY <1>1, FS_AddElement DEF TeamInv
    <3>2. Cardinality(Members(r)) \in Nat /\ MaxSubagents \in Nat
      BY <1>1, FS_CardinalityType, TeamAssumption DEF TeamInv, TeamAssumption
    <3> QED BY <1>3, <2>1, <3>1, <3>2
  <2>2. CASE ~(r = p /\ e.type = "team.member.spawned")
    BY <1>1, <1>3, <2>2 DEF TeamInv
  <2> QED BY <2>1, <2>2
<1>6. IsFiniteSet(Members(r))' /\ (Cardinality(Members(r)) =< MaxSubagents)'
  BY <1>5
<1>7. /\ \A t \in EventTypes :
           Of(r, t)' = IF r = p /\ t = e.type THEN Of(r, t) \cup {Len(stream[p]) + 1}
                       ELSE Of(r, t)
      /\ \A t : \A i \in Of(r, t) : stream'[r][i] = stream[r][i]
      /\ \A t : \A i \in Of(r, t) : i \in Nat /\ i =< Len(stream[r])
      /\ stream'[p][Len(stream[p]) + 1] = e /\ Len(stream[p]) \in Nat
  <2>0. stream[r] \in Seq(EventSet)
    BY DEF TypeOK, EventSet, Ids
  <2>1. DOMAIN stream[r] = 1 .. Len(stream[r]) /\ Len(stream[r]) \in Nat
    BY <2>0, LenProperties
  <2>2. \A i \in DOMAIN stream[r] : stream'[r][i] = stream[r][i]
    BY StreamGrows
  <2>3. Len(stream[p]) \in Nat /\ stream'[p][Len(stream[p]) + 1] = e
    BY StreamGrows
  <2>4. \A t : \A i \in Of(r, t) : i \in DOMAIN stream[r]
    BY DEF Of
  <2>5. \A t : \A i \in Of(r, t) : stream'[r][i] = stream[r][i]
    BY <2>2, <2>4
  <2>6. \A t : \A i \in Of(r, t) : i \in Nat /\ i =< Len(stream[r])
    BY <2>1, <2>4
  <2>7. \A t \in EventTypes :
           Of(r, t)' = IF r = p /\ t = e.type THEN Of(r, t) \cup {Len(stream[p]) + 1}
                       ELSE Of(r, t)
    BY OfGrows
  <2> QED BY <2>3, <2>5, <2>6, <2>7
<1>8. /\ {"team.member.spawned", "team.member.spawn_requested"} \subseteq EventTypes
      /\ Of(r, "team.member.spawn_requested") \subseteq Of(r, "team.member.spawn_requested")'
  BY <1>7 DEF EventTypes
<1>9. \A m \in Children : m \in Children' /\ Definition(m)' = Definition(m)
  BY RunKept DEF Children
\* A member that was recorded stays one; the event may record another.
<1>10. ASSUME NEW i \in Of(r, "team.member.spawned"), MemberFor(r, i)
       PROVE  MemberFor(r, i)'
  <2>1. PICK m \in Children : m = stream[r][i].run
    BY <1>10 DEF MemberFor
  <2>2. stream'[r][i].run = m /\ m \in Members(r)
    BY <1>7, <2>1 DEF Members
  <2>3. m \in Children' /\ (Definition(m).run)' = r
    BY <1>9, <1>10, <2>1 DEF MemberFor
  <2>4. \E j \in Of(r, "team.member.spawn_requested")' : j < i /\ stream'[r][j].run = m
    <3>1. PICK j \in Of(r, "team.member.spawn_requested") : j < i /\ stream[r][j].run = m
      BY <1>10, <2>1 DEF MemberFor
    <3>2. j \in Of(r, "team.member.spawn_requested")' /\ stream'[r][j] = stream[r][j]
      BY <1>7, <1>8, <3>1
    <3> QED BY <3>1, <3>2
  <2>5. \A j \in Of(r, "team.member.spawned")' : stream'[r][j].run = m => j = i
    <3>1. e.type = "team.member.spawned" /\ r = p => e.run # m
      BY <2>2
    <3>2. \A j \in Of(r, "team.member.spawned") : stream'[r][j].run = m => j = i
      BY <1>7, <1>10, <2>1 DEF MemberFor
    <3> QED BY <1>7, <1>8, <3>1, <3>2
  <2>6. ~Failed(r, m)'
    <3>1. ~Failed(r, m)
      BY <1>10, <2>1 DEF MemberFor
    <3>2. e.type = "team.member.spawn_failed" /\ r = p => e.run # m
      BY <2>2
    <3> QED BY <3>1, <3>2, RunKept
  <2> QED BY <2>2, <2>3, <2>4, <2>5, <2>6 DEF MemberFor
<1>11. ASSUME r = p, e.type = "team.member.spawned"
       PROVE  \A n \in Nat : n = Len(stream[p]) + 1 => MemberFor(r, n)'
  <2>0. PICK n \in Nat, m \in Children : n = Len(stream[p]) + 1 /\ m = e.run
    BY <1>7, <1>11
  <2>1. stream'[r][n].run = m
    BY <1>7, <1>11, <2>0
  <2>2. m \in Children' /\ (Definition(m).run)' = r
    BY <1>9, <1>11, <2>0
  <2>3. \E j \in Of(r, "team.member.spawn_requested")' : j < n /\ stream'[r][j].run = m
    <3>1. PICK j \in Of(r, "team.member.spawn_requested") : stream[r][j].run = m
      BY <1>11, <2>0 DEF Announced
    <3>2. j \in Of(r, "team.member.spawn_requested")'
      BY <1>8, <3>1
    <3>3. stream'[r][j] = stream[r][j] /\ j \in Nat /\ j =< Len(stream[r])
      BY <1>7, <3>1
    <3>4. j < n
      BY <1>7, <1>11, <2>0, <3>3
    <3> QED BY <3>1, <3>2, <3>3, <3>4
  <2>4. \A j \in Of(r, "team.member.spawned")' : stream'[r][j].run = m => j = n
    <3>1. m \notin Members(r)
      BY <1>11, <2>0
    <3>2. \A j \in Of(r, "team.member.spawned") : stream[r][j].run # m
      BY <3>1 DEF Members
    <3>3. \A j \in Of(r, "team.member.spawned") : stream'[r][j].run # m
      BY <1>7, <3>2
    <3>4. Of(r, "team.member.spawned")' = Of(r, "team.member.spawned") \cup {n}
      BY <1>7, <1>8, <1>11, <2>0
    <3> QED BY <3>3, <3>4
  <2>5. ~Failed(r, m)'
    BY <1>11, <2>0, RunKept
  <2>6. MemberFor(r, n)'
    BY <2>1, <2>2, <2>3, <2>4, <2>5 DEF MemberFor
  <2> QED BY <2>0, <2>6
<1>12. \A i \in Of(r, "team.member.spawned")' : MemberFor(r, i)'
  <2> SUFFICES ASSUME NEW i \in Of(r, "team.member.spawned")' PROVE MemberFor(r, i)'
    OBVIOUS
  <2>1. CASE i \in Of(r, "team.member.spawned")
    BY <1>1, <1>10, <2>1 DEF TeamInv
  <2>2. CASE i \notin Of(r, "team.member.spawned")
    <3>1. r = p /\ e.type = "team.member.spawned" /\ i = Len(stream[p]) + 1 /\ i \in Nat
      BY <1>7, <1>8, <2>2
    <3> QED BY <1>11, <3>1
  <2> QED BY <2>1, <2>2
<1> QED BY <1>2, <1>4, <1>6, <1>12 DEF TeamInv

\* The children keep their parents, and one that is created has one.
LEMMA ChildrenKept ==
  ASSUME TypeOK, \A r \in Runs : TeamInv(r), NEW p \in Runs, NEW e \in EventSet,
         stream' = [stream EXCEPT ![p] = Append(@, e)],
         e.type = "team.created" => ~HasTeam(p),
         \A r \in Runs \ {Leader} : ChildInv(r),
         ~Created(p) => /\ e.run \in Runs /\ HasTeam(e.run) /\ e.team = TeamOf(e.run)
                        /\ Announced(e.run, p) /\ e.depth =< MaxDepth
                        /\ e.type = "run.created"
  PROVE  \A r \in Runs \ {Leader} : ChildInv(r)'
<1> TAKE r \in Runs \ {Leader}
<1>1. Created(r)' <=> Created(r) \/ r = p
  BY RunKept
<1>2. \A q \in Runs : /\ HasTeam(q) => HasTeam(q)' /\ TeamOf(q)' = TeamOf(q)
                      /\ Announced(q, r) => Announced(q, r)'
  <2> TAKE q \in Runs
  <2>1. HasTeam(q) => TeamOf(q)' = TeamOf(q)
    BY TeamKept DEF TeamInv
  <2> QED BY <2>1, RunKept
<1>3. CASE Created(r)
  <2>1. Definition(r)' = Definition(r)
    BY <1>3, RunKept
  <2>2. PICK q \in Runs : ChildOf(r, q)
    BY <1>3 DEF ChildInv
  <2>3. ChildOf(r, q)'
    BY <1>2, <2>1, <2>2 DEF ChildOf
  <2> QED BY <2>3 DEF ChildInv
<1>4. CASE r = p /\ ~Created(p)
  <2>1. Definition(r)' = e
    <3>1. stream[p] = <<>>
      BY <1>4 DEF Created
    <3>2. Len(stream[p]) + 1 = 1
      BY <3>1
    <3>3. stream'[p][Len(stream[p]) + 1] = e
      BY StreamGrows
    <3> QED BY <1>4, <3>2, <3>3 DEF Definition
  <2>2. ChildOf(r, e.run)'
    <3>1. PICK q \in Runs : q = e.run
      BY <1>4
    <3>2. HasTeam(q)' /\ e.team = TeamOf(q)' /\ Announced(q, r)'
      BY <1>2, <1>4, <3>1
    <3>3. ChildOf(r, q)'
      BY <1>4, <2>1, <3>1, <3>2 DEF ChildOf
    <3> QED BY <3>1, <3>3
  <2> QED BY <1>4, <2>2 DEF ChildInv
<1>5. CASE ~Created(r) /\ r # p
  BY <1>1, <1>5 DEF ChildInv
<1> QED BY <1>3, <1>4, <1>5

\* The tasks stay tasks of runs that exist.
LEMMA JobsKept ==
  ASSUME TypeOK, NEW p \in Runs, NEW e \in EventSet,
         stream' = [stream EXCEPT ![p] = Append(@, e)], Jobs, job' = job, queue' = queue
  PROVE  Jobs'
<1>1. \A r \in Runs : Created(r) => Created(r)'
  BY RunKept
<1>2. Queued'
  BY DEF Jobs, Queued
<1> QED BY <1>1, <1>2 DEF Jobs

\* Nor is a call disturbed that is at no event of that team's.
LEMMA CallKept ==
  ASSUME TypeOK, \A r \in Runs : TeamInv(r), NEW p \in Runs, NEW e \in EventSet,
         stream' = [stream EXCEPT ![p] = Append(@, e)],
         NEW d \in Callers, CallInv(d), call'[d] = call[d],
         call[d].pc \in Entered => call[d].parent # p \/ e.type = "other",
         call[d].pc # "idle" => Created(p) \/ call[d].child # p,
         call[d].pc # "idle" =>
           /\ e.type = "team.member.spawned" => e.run # call[d].child
           /\ e.type = "team.member.spawn_failed" => e.run # call[d].child
  PROVE  CallInv(d)'
<1>1. SUFFICES ASSUME call[d].pc # "idle" PROVE CallInv(d)'
  BY DEF CallInv
<1>2. PICK r \in Runs, k \in Runs \ {Leader} : CallFor(d, r, k)
  BY <1>1 DEF CallInv
<1>3. call[d].parent = r /\ call[d].child = k
  BY <1>2 DEF CallFor
<1>4. call[d].pc \in Pcs
  BY DEF TypeOK, Pcs
<1>5. /\ Created(r) /\ Created(r)' /\ Definition(r)' = Definition(r)
      /\ \A q : Announced(r, q) => Announced(r, q)'
  BY <1>2, RunKept DEF CallFor
<1>6. /\ Created(k)' <=> Created(k)
      /\ Created(k) => Definition(k)' = Definition(k)
  BY <1>1, <1>3, RunKept
<1>7. call[d].pc \in Entered => /\ HasTeam(r)' <=> HasTeam(r)
                                /\ Members(r)' = Members(r)
                                /\ HasTeam(r) => TeamOf(r)' = TeamOf(r)
  <2> SUFFICES ASSUME r # p \/ e.type = "other"
               PROVE  /\ HasTeam(r)' <=> HasTeam(r)
                      /\ Members(r)' = Members(r)
                      /\ HasTeam(r) => TeamOf(r)' = TeamOf(r)
    BY <1>3
  <2>1. \A i, j \in Of(r, "team.created") : i = j
    BY DEF TeamInv
  <2>2. HasTeam(r) => TeamOf(r)' = TeamOf(r)
    BY <2>1, TeamKept
  <2> QED BY <2>2, RunKept
<1>8. call[d].pc # "start" => k \notin Members(r)' /\ ~Failed(r, k)'
  BY <1>1, <1>2, <1>3, RunKept DEF CallFor
<1>9. CallFor(d, r, k)'
  BY <1>2, <1>4, <1>5, <1>6, <1>7, <1>8 DEF CallFor, Entered, Appending
<1> QED BY <1>9 DEF CallInv

-----------------------------------------------------------------------------
(* The steps.                                                              *)

LEMMA TeamInit == Init => IInv
<1> SUFFICES ASSUME Init PROVE IInv
  OBVIOUS
<1> DEFINE first == Event("run.created", None, None, 0)
<1>1. Leader \in Runs /\ None \notin Runs /\ MaxSubagents \in Nat /\ MaxCrashes \in Nat
  BY TeamAssumption DEF TeamAssumption
<1>2. first \in EventSet
  BY DEF Event, EventSet, EventTypes, Ids
<1>3. <<first>> \in Seq(EventSet) /\ <<>> \in Seq(EventSet)
  BY <1>2
<1>4. stream \in [Runs -> Seq(EventSet)]
  BY <1>3 DEF Init
<1>5. Idle \in CallSet
  BY DEF Idle, CallSet, Pcs, Ids
<1>6. TypeOK
  <2>1. call \in [Callers -> CallSet]
    BY <1>5 DEF Init
  <2>2. lock \in [Runs -> Seq(Callers)] /\ queue \in Seq(Runs)
    BY DEF Init
  <2>3. job \in [Runs -> {"none", "queued", "executing"}] /\ crashes \in 0 .. MaxCrashes
    BY <1>1 DEF Init
  <2> QED BY <1>4, <2>1, <2>2, <2>3 DEF TypeOK, EventSet, CallSet, Ids, Pcs
<1>7. Created(Leader)
  BY <1>1 DEF Init, Created
<1>8. \A r \in Runs : \A i \in DOMAIN stream[r] : r = Leader /\ i = 1 /\ stream[r][i] = first
  BY <1>1 DEF Init
<1>9. \A r \in Runs : Of(r, "team.created") = {} /\ Of(r, "team.member.spawned") = {}
  BY <1>8 DEF Of, Event
<1>10. \A r \in Runs : TeamInv(r)
  BY <1>1, <1>9, FS_EmptySet DEF TeamInv, Members, HasTeam
<1>11. \A r \in Runs \ {Leader} : ChildInv(r)
  BY DEF ChildInv, Created, Init
<1>12. \A c \in Callers : call[c].pc = "idle"
  BY DEF Init, Idle
<1>13. \A r \in Runs : lock[r] = <<>>
  BY DEF Init
<1>14. Locks /\ Distinct /\ \A c \in Callers : Holding(c) /\ CallInv(c)
  BY <1>12, <1>13 DEF Locks, Distinct, Holding, CallInv, Entered, Appending
<1>15. Jobs
  BY DEF Jobs, Queued, Init
<1> QED BY <1>6, <1>7, <1>10, <1>11, <1>14, <1>15 DEF IInv

\* What a step that touches no stream leaves true.
LEMMA SameRuns ==
  ASSUME stream' = stream, NEW r \in Runs
  PROVE  /\ Created(r)' <=> Created(r)
         /\ HasTeam(r)' <=> HasTeam(r)
         /\ Definition(r)' = Definition(r)
         /\ TeamOf(r)' = TeamOf(r) /\ Members(r)' = Members(r)
         /\ \A k : Announced(r, k)' <=> Announced(r, k)
         /\ \A k : Failed(r, k)' <=> Failed(r, k)
BY DEF Created, Definition, HasTeam, TeamOf, Members, Announced, Failed, Of

LEMMA SameStream ==
  ASSUME stream' = stream
  PROVE  /\ Created(Leader)' <=> Created(Leader)
         /\ \A r \in Runs : TeamInv(r) => TeamInv(r)'
         /\ \A r \in Runs : ChildInv(r) => ChildInv(r)'
         /\ \A r \in Runs : Created(r)' <=> Created(r)
         /\ \A d \in Callers : CallInv(d) /\ call'[d] = call[d] => CallInv(d)'
<1>1. Created(Leader)' <=> Created(Leader)
  BY DEF Created
<1>2. \A r \in Runs : TeamInv(r) => TeamInv(r)'
  BY DEF TeamInv, Of, HasTeam, Members, MemberFor, Failed, Children, Created, Definition
<1>3. \A r \in Runs : /\ Created(r)' <=> Created(r)
                      /\ HasTeam(r)' <=> HasTeam(r)
                      /\ Definition(r)' = Definition(r)
                      /\ TeamOf(r)' = TeamOf(r) /\ Members(r)' = Members(r)
                      /\ \A k : Announced(r, k)' <=> Announced(r, k)
                      /\ \A k : Failed(r, k)' <=> Failed(r, k)
  BY SameRuns
<1>4. \A r \in Runs : ChildInv(r) => ChildInv(r)'
  BY <1>3 DEF ChildInv, ChildOf
<1>5. \A r \in Runs : Created(r)' <=> Created(r)
  BY DEF Created
<1>6. \A d \in Callers : CallInv(d) /\ call'[d] = call[d] => CallInv(d)'
  <2> SUFFICES ASSUME NEW d \in Callers, CallInv(d), call'[d] = call[d] PROVE CallInv(d)'
    OBVIOUS
  <2>1. CASE call[d].pc = "idle"
    BY <2>1 DEF CallInv
  <2>2. CASE call[d].pc # "idle"
    <3>1. PICK p \in Runs, k \in Runs \ {Leader} : CallFor(d, p, k)
      BY <2>2 DEF CallInv
    <3>2. CallFor(d, p, k)'
      BY <1>3, <3>1 DEF CallFor
    <3> QED BY <3>2 DEF CallInv
  <2> QED BY <2>1, <2>2
<1> QED BY <1>1, <1>2, <1>4, <1>5, <1>6

\* A task is created for a run that exists and has none.
LEMMA TaskStarts ==
  ASSUME TypeOK, Jobs, NEW r \in Runs, Created(r), job[r] = "none",
         stream' = stream, StartTask(r)
  PROVE  /\ Jobs' /\ queue' \in Seq(Runs)
         /\ job' \in [Runs -> {"none", "queued", "executing"}]
<1>1. \A s \in Runs : Created(s) => Created(s)'
  BY SameStream
<1>2. job \in [Runs -> {"none", "queued", "executing"}] /\ queue \in Seq(Runs)
  BY DEF TypeOK
<1>3. /\ queue' \in Seq(Runs) /\ Len(queue') = Len(queue) + 1
      /\ \A i \in 1 .. Len(queue) : queue'[i] = queue[i]
      /\ queue'[Len(queue) + 1] = r
  BY <1>2, AppendProperties DEF StartTask
<1>4. /\ DOMAIN queue = 1 .. Len(queue) /\ DOMAIN queue' = 1 .. (Len(queue) + 1)
      /\ Len(queue) \in Nat /\ \A i \in DOMAIN queue : queue[i] \in Runs
  BY <1>2, <1>3, LenProperties, ElementOfSeq
<1>5. \A s \in Runs : job'[s] = IF s = r THEN "queued" ELSE job[s]
  BY <1>2 DEF StartTask
<1>6. \A i \in DOMAIN queue : queue[i] # r /\ job[queue[i]] = "queued"
  BY DEF Jobs, Queued
<1>7. Queued'
  <2>1. \A i \in DOMAIN queue' : job'[queue'[i]] = "queued"
    BY <1>3, <1>4, <1>5, <1>6
  <2>2. \A i, j \in DOMAIN queue' : queue'[i] = queue'[j] => i = j
    BY <1>3, <1>4, <1>6 DEF Jobs, Queued
  <2>3. \A s \in Runs : job'[s] = "queued" => \E i \in DOMAIN queue' : queue'[i] = s
    <3> SUFFICES ASSUME NEW s \in Runs, job'[s] = "queued"
                 PROVE  \E i \in DOMAIN queue' : queue'[i] = s
      OBVIOUS
    <3>1. CASE s = r
      BY <1>3, <1>4, <3>1
    <3>2. CASE s # r
      <4>1. PICK i \in DOMAIN queue : queue[i] = s
        BY <1>5, <3>2 DEF Jobs, Queued
      <4> QED BY <1>3, <1>4, <4>1
    <3> QED BY <3>1, <3>2
  <2> QED BY <2>1, <2>2, <2>3 DEF Queued
<1>8. \A s \in Runs : job'[s] # "none" => Created(s)'
  BY <1>1, <1>5 DEF Jobs
<1> QED BY <1>2, <1>3, <1>7, <1>8 DEF Jobs, StartTask

\* The tasks of a step that touches neither them nor a stream.
LEMMA SameJobs ==
  ASSUME TypeOK, Jobs, stream' = stream, job' = job, queue' = queue
  PROVE  /\ Jobs' /\ queue' \in Seq(Runs)
         /\ job' \in [Runs -> {"none", "queued", "executing"}]
<1>1. queue \in Seq(Runs) /\ job \in [Runs -> {"none", "queued", "executing"}]
  BY DEF TypeOK
<1>2. \A r \in Runs : Created(r) => Created(r)'
  BY SameStream
<1>3. Queued'
  BY DEF Jobs, Queued
<1> QED BY <1>1, <1>2, <1>3 DEF Jobs

\* The task manager's own steps.
LEMMA TaskSteps ==
  ASSUME IInv, Execute \/ \E r \in Runs : OperatorStarts(r) \/ End(r)
  PROVE  IInv'
<1> USE DEF IInv
<1>1. stream' = stream /\ lock' = lock /\ call' = call /\ crashes' = crashes
  BY DEF OperatorStarts, Execute, End
<1>2. /\ Created(Leader)' /\ \A r \in Runs : TeamInv(r)'
      /\ \A r \in Runs \ {Leader} : ChildInv(r)'
      /\ \A r \in Runs : Created(r) => Created(r)'
      /\ \A d \in Callers : CallInv(d)'
  BY <1>1, SameStream
<1>3. Locks' /\ Distinct' /\ \A d \in Callers : Holding(d)'
  BY <1>1 DEF Locks, Distinct, Holding
<1>4. /\ Jobs' /\ queue' \in Seq(Runs)
      /\ job' \in [Runs -> {"none", "queued", "executing"}]
  <2>0. job \in [Runs -> {"none", "queued", "executing"}] /\ queue \in Seq(Runs)
    BY DEF TypeOK
  <2>1. ASSUME NEW r \in Runs, OperatorStarts(r)
        PROVE  /\ Jobs' /\ queue' \in Seq(Runs)
               /\ job' \in [Runs -> {"none", "queued", "executing"}]
    BY <1>1, <2>1, TaskStarts DEF OperatorStarts
  <2>2. CASE Execute
    <3>1. /\ Head(queue) = queue[1] /\ queue' \in Seq(Runs) /\ Len(queue') = Len(queue) - 1
          /\ \A i \in 1 .. Len(queue') : queue'[i] = queue[i + 1]
      BY <2>0, <2>2, HeadTailProperties DEF Execute
    <3>2. /\ DOMAIN queue = 1 .. Len(queue) /\ DOMAIN queue' = 1 .. (Len(queue) - 1)
          /\ Len(queue) \in Nat /\ Len(queue) # 0
          /\ \A i \in DOMAIN queue : queue[i] \in Runs
      BY <2>0, <2>2, <3>1, LenProperties, ElementOfSeq, EmptySeq DEF Execute
    <3>3. 1 \in DOMAIN queue /\ queue[1] \in Runs /\ job[queue[1]] = "queued"
      BY <3>2 DEF Jobs, Queued
    <3>4. \A r \in Runs : job'[r] = IF r = queue[1] THEN "executing" ELSE job[r]
      BY <2>0, <2>2, <3>1 DEF Execute
    <3>5. \A r \in Runs : job'[r] # "none" => Created(r)'
      BY <1>2, <3>3, <3>4 DEF Jobs
    <3>6. \A i \in DOMAIN queue' : i + 1 \in DOMAIN queue /\ i + 1 # 1
                                 /\ queue'[i] = queue[i + 1] /\ queue[i + 1] # queue[1]
      <4> TAKE i \in DOMAIN queue'
      <4>1. i + 1 \in DOMAIN queue /\ i + 1 # 1 /\ queue'[i] = queue[i + 1]
        BY <3>1, <3>2
      <4> QED BY <3>3, <4>1 DEF Jobs, Queued
    <3>7. \A i \in DOMAIN queue' : job'[queue'[i]] = "queued"
      BY <3>2, <3>4, <3>6 DEF Jobs, Queued
    <3>8. \A i, j \in DOMAIN queue' : queue'[i] = queue'[j] => i = j
      <4> TAKE i, j \in DOMAIN queue'
      <4> HAVE queue'[i] = queue'[j]
      <4>1. i + 1 = j + 1 /\ i \in Nat /\ j \in Nat
        BY <3>2, <3>6 DEF Jobs, Queued
      <4> QED BY <4>1
    <3>9. \A r \in Runs : job'[r] = "queued" => \E i \in DOMAIN queue' : queue'[i] = r
      <4> SUFFICES ASSUME NEW r \in Runs, job'[r] = "queued"
                   PROVE  \E i \in DOMAIN queue' : queue'[i] = r
        OBVIOUS
      <4>1. r # queue[1] /\ job[r] = "queued"
        BY <3>4
      <4>2. PICK j \in DOMAIN queue : queue[j] = r
        BY <4>1 DEF Jobs, Queued
      <4>3. j - 1 \in DOMAIN queue' /\ (j - 1) + 1 = j
        BY <3>2, <4>1, <4>2
      <4> QED BY <3>6, <4>2, <4>3
    <3>10. Jobs'
      BY <3>5, <3>7, <3>8, <3>9 DEF Jobs, Queued
    <3> QED BY <2>0, <2>2, <3>1, <3>10 DEF Execute
  <2>3. ASSUME NEW r \in Runs, End(r)
        PROVE  /\ Jobs' /\ queue' \in Seq(Runs)
               /\ job' \in [Runs -> {"none", "queued", "executing"}]
    <3>1. queue' = queue /\ \A s \in Runs : job'[s] # "none" => job'[s] = job[s]
      BY <2>0, <2>3 DEF End
    <3>2. \A s \in Runs : job[s] = "queued" => job'[s] = "queued"
      BY <2>0, <2>3 DEF End
    <3>3. \A i \in DOMAIN queue : queue[i] \in Runs
      BY <2>0, LenProperties, ElementOfSeq
    <3>4. Queued'
      BY <3>1, <3>2, <3>3 DEF Jobs, Queued
    <3>5. Jobs'
      BY <1>2, <3>1, <3>4 DEF Jobs
    <3> QED BY <2>0, <2>3, <3>5 DEF End
  <2> QED BY <2>1, <2>2, <2>3
<1>5. TypeOK'
  BY <1>1, <1>4 DEF TypeOK
<1> QED BY <1>2, <1>3, <1>4, <1>5

LEMMA CrashStep ==
  ASSUME IInv, Crash
  PROVE  IInv'
<1> USE DEF IInv
<1>1. stream' = stream
  BY DEF Crash
<1>2. /\ Created(Leader)' /\ \A r \in Runs : TeamInv(r)'
      /\ \A r \in Runs \ {Leader} : ChildInv(r)'
  BY <1>1, SameStream
<1>3. \A c \in Callers : call'[c] = Idle /\ call'[c].pc = "idle"
  BY DEF Crash, Idle
<1>4. Locks' /\ Distinct' /\ \A c \in Callers : Holding(c)' /\ CallInv(c)'
  BY <1>3 DEF Locks, Distinct, Holding, CallInv, Entered, Appending, Crash
<1>5. Jobs'
  BY DEF Jobs, Queued, Crash
<1>6. TypeOK'
  <2>1. Idle \in CallSet
    BY DEF Idle, CallSet, Pcs, Ids
  <2>2. call' \in [Callers -> CallSet]
    BY <2>1 DEF Crash
  <2>3. lock' \in [Runs -> Seq(Callers)] /\ queue' \in Seq(Runs)
    BY DEF Crash
  <2>4. job' \in [Runs -> {"none", "queued", "executing"}] /\ crashes' \in 0 .. MaxCrashes
    BY TeamAssumption DEF Crash, TypeOK, TeamAssumption
  <2> QED BY <1>1, <2>2, <2>3, <2>4 DEF TypeOK, CallSet, Ids, Pcs
<1> QED BY <1>2, <1>4, <1>5, <1>6

LEMMA OtherStep ==
  ASSUME IInv, NEW p \in Runs, OtherAppends(p)
  PROVE  IInv'
<1> USE DEF IInv
<1>1. PICK e \in EventSet : e = Event("other", None, None, 0)
  BY DEF Event, EventSet, EventTypes, Ids
<1>2. e.type = "other" /\ stream' = [stream EXCEPT ![p] = Append(@, e)]
  BY <1>1 DEF OtherAppends, Event
<1>3. Created(p) /\ job' = job /\ queue' = queue /\ lock' = lock /\ call' = call
      /\ crashes' = crashes
  BY DEF OtherAppends
<1>4. stream' \in [Runs -> Seq(EventSet)]
  BY <1>2, StreamGrows
<1>5. TypeOK'
  BY <1>3, <1>4 DEF TypeOK, EventSet, Ids
<1>6. \A r \in Runs : TeamInv(r)'
  BY <1>2, TeamsKept
<1>7. \A r \in Runs \ {Leader} : ChildInv(r)'
  BY <1>2, <1>3, ChildrenKept
<1>8. Jobs'
  BY <1>2, <1>3, JobsKept
<1>9. \A d \in Callers : CallInv(d)'
  <2> TAKE d \in Callers
  <2> QED BY <1>2, <1>3, CallKept
<1>10. Created(Leader)'
  BY <1>2, RunKept, TeamAssumption DEF TeamAssumption
<1>11. Locks' /\ Distinct' /\ \A d \in Callers : Holding(d)'
  BY <1>3 DEF Locks, Distinct, Holding
<1> QED BY <1>5, <1>6, <1>7, <1>8, <1>9, <1>10, <1>11

\* An active call that goes on without an append.
LEMMA CallGoesOn ==
  ASSUME IInv, NEW c \in Callers, call[c].pc # "idle",
         stream' = stream, job' = job, queue' = queue, lock' = lock, crashes' = crashes,
         call' \in [Callers -> CallSet], call'[c].pc # "idle",
         call'[c].parent = call[c].parent, call'[c].child = call[c].child,
         \A d \in Callers : d # c => call'[d] = call[d],
         call'[c].pc \in Entered =>
           lock[call[c].parent] # <<>> /\ lock[call[c].parent][1] = c,
         CallInv(c)'
  PROVE  IInv'
<1> USE DEF IInv
<1>1. /\ Created(Leader)' /\ \A r \in Runs : TeamInv(r)'
      /\ \A r \in Runs \ {Leader} : ChildInv(r)'
      /\ \A d \in Callers : CallInv(d)'
  BY SameStream
<1>2. Locks' /\ Distinct' /\ \A d \in Callers : Holding(d)'
  BY StaysActive
<1>3. Jobs'
  BY SameJobs
<1>4. TypeOK'
  BY DEF TypeOK, CallSet, Ids, Pcs
<1> QED BY <1>1, <1>2, <1>3, <1>4

\* An active call that leaves without an append.
LEMMA CallLeaves ==
  ASSUME IInv, NEW c \in Callers, call[c].pc # "idle", Leave(c),
         stream' = stream, crashes' = crashes, Jobs', queue' \in Seq(Runs),
         job' \in [Runs -> {"none", "queued", "executing"}]
  PROVE  IInv'
<1> USE DEF IInv
<1>1. \A d \in Callers : call[d].pc # "idle" => call[d].parent \in Runs /\ call[d].child \in Runs
  BY DEF CallInv, CallFor
<1>2. /\ lock' \in [Runs -> Seq(Callers)]
      /\ call'[c] = Idle /\ \A d \in Callers : d # c => call'[d] = call[d]
      /\ Locks' /\ Distinct' /\ \A d \in Callers : Holding(d)'
  BY <1>1, Leaves
<1>3. /\ Created(Leader)' /\ \A r \in Runs : TeamInv(r)'
      /\ \A r \in Runs \ {Leader} : ChildInv(r)'
      /\ \A d \in Callers : call'[d] = call[d] => CallInv(d)'
  BY SameStream
<1>4. \A d \in Callers : CallInv(d)'
  BY <1>2, <1>3 DEF CallInv, Idle
<1>5. TypeOK'
  <2>1. Idle \in CallSet
    BY DEF Idle, CallSet, Pcs, Ids
  <2>2. call \in [Callers -> CallSet]
    BY DEF TypeOK, CallSet, Ids, Pcs
  <2>3. call' \in [Callers -> CallSet]
    BY <2>1, <2>2 DEF Leave
  <2> QED BY <1>2, <2>3 DEF TypeOK, CallSet, Ids, Pcs
<1> QED BY <1>2, <1>3, <1>4, <1>5

\* A call begins: it waits for the lock of a run that has a task.
LEMMA SpawnStep ==
  ASSUME IInv, NEW c \in Callers, Spawn(c)
  PROVE  IInv'
<1> USE DEF IInv
<1>1. PICK p \in Runs, k \in Fresh :
        /\ job[p] = "executing"
        /\ call' = [call EXCEPT ![c] =
                      [Idle EXCEPT !.pc = "lock", !.parent = p, !.child = k]]
        /\ lock' = [lock EXCEPT ![p] = Append(@, c)]
  BY DEF Spawn
<1>2. /\ stream' = stream /\ job' = job /\ queue' = queue /\ crashes' = crashes
      /\ call[c].pc = "idle"
  BY DEF Spawn
<1>3. k \in Runs \ {Leader} /\ \A d \in Callers : call[d].child # k
  BY DEF Fresh
<1>4. ~Created(k)
  <2> SUFFICES ASSUME Created(k) PROVE FALSE
    OBVIOUS
  <2>1. PICK q \in Runs : ChildOf(k, q)
    BY <1>3 DEF ChildInv
  <2>2. \E i \in DOMAIN stream[q] : stream[q][i].run = k
    BY <2>1 DEF ChildOf, Announced, Of
  <2> QED BY <2>2 DEF Fresh
<1>5. Created(p)
  BY <1>1 DEF Jobs
<1>6. /\ call'[c] = [pc |-> "lock", parent |-> p, child |-> k, team |-> None,
                     count |-> 0, ver |-> 0]
      /\ \A d \in Callers : d # c => call'[d] = call[d]
  BY <1>1 DEF TypeOK, Idle
<1>7. call' \in [Callers -> CallSet]
  <2>1. [Idle EXCEPT !.pc = "lock", !.parent = p, !.child = k] \in CallSet
    BY <1>3 DEF Idle, CallSet, Ids, Pcs
  <2>2. call \in [Callers -> CallSet]
    BY DEF TypeOK, CallSet, Ids, Pcs
  <2> QED BY <1>1, <2>1, <2>2
<1>8. lock \in [Runs -> Seq(Callers)] /\ lock[p] \in Seq(Callers)
  BY DEF TypeOK
<1>9. /\ lock'[p] = Append(lock[p], c) /\ \A r \in Runs : r # p => lock'[r] = lock[r]
      /\ lock' \in [Runs -> Seq(Callers)]
  <2>1. Append(lock[p], c) \in Seq(Callers)
    BY <1>8, AppendProperties
  <2> QED BY <1>1, <1>8, <2>1
<1>10. /\ Len(lock[p]) \in Nat /\ DOMAIN lock[p] = 1 .. Len(lock[p])
       /\ DOMAIN lock'[p] = 1 .. (Len(lock[p]) + 1)
       /\ \A i \in 1 .. Len(lock[p]) : lock'[p][i] = lock[p][i]
       /\ lock'[p][Len(lock[p]) + 1] = c
  <2>1. /\ Append(lock[p], c) \in Seq(Callers) /\ Len(Append(lock[p], c)) = Len(lock[p]) + 1
        /\ \A i \in 1 .. Len(lock[p]) : Append(lock[p], c)[i] = lock[p][i]
        /\ Append(lock[p], c)[Len(lock[p]) + 1] = c
    BY <1>8, AppendProperties
  <2> QED BY <1>8, <1>9, <2>1, LenProperties
<1>11. \A r \in Runs : \A i \in DOMAIN lock[r] : lock[r][i] \in Callers /\ lock[r][i] # c
  <2> TAKE r \in Runs
  <2>1. lock[r] \in Seq(Callers)
    BY <1>8
  <2> QED BY <1>2, <2>1, LenProperties, ElementOfSeq DEF Locks
<1>12. Locks'
  <2>1. \A r \in Runs : \A i \in DOMAIN lock'[r] :
          call'[lock'[r][i]].pc # "idle" /\ call'[lock'[r][i]].parent = r
    <3> TAKE r \in Runs
    <3> TAKE i \in DOMAIN lock'[r]
    <3>1. CASE i \in DOMAIN lock[r] /\ lock'[r][i] = lock[r][i]
      BY <1>6, <1>11, <3>1 DEF Locks
    <3>2. CASE r = p /\ lock'[r][i] = c
      BY <1>6, <3>2
    <3> QED BY <1>9, <1>10, <3>1, <3>2
  <2>2. \A r \in Runs : \A i, j \in DOMAIN lock'[r] : lock'[r][i] = lock'[r][j] => i = j
    <3> TAKE r \in Runs
    <3>1. CASE r # p
      BY <1>9, <3>1 DEF Locks
    <3>2. CASE r = p
      <4> TAKE i, j \in DOMAIN lock'[r]
      <4>1. CASE i \in DOMAIN lock[p] /\ j \in DOMAIN lock[p]
        BY <1>10, <3>2, <4>1 DEF Locks
      <4>2. CASE i \notin DOMAIN lock[p] /\ j \in DOMAIN lock[p]
        BY <1>10, <1>11, <3>2, <4>2
      <4>3. CASE i \in DOMAIN lock[p] /\ j \notin DOMAIN lock[p]
        BY <1>10, <1>11, <3>2, <4>3
      <4>4. CASE i \notin DOMAIN lock[p] /\ j \notin DOMAIN lock[p]
        BY <1>10, <3>2, <4>4
      <4> QED BY <4>1, <4>2, <4>3, <4>4
    <3> QED BY <3>1, <3>2
  <2>3. \A d \in Callers : call'[d].pc # "idle" =>
          \E i \in DOMAIN lock'[call'[d].parent] : lock'[call'[d].parent][i] = d
    <3> SUFFICES ASSUME NEW d \in Callers, call'[d].pc # "idle"
                 PROVE  \E i \in DOMAIN lock'[call'[d].parent] : lock'[call'[d].parent][i] = d
      OBVIOUS
    <3>1. CASE d = c
      <4>1. Len(lock[p]) + 1 \in DOMAIN lock'[p]
        BY <1>10
      <4> QED BY <1>6, <1>10, <3>1, <4>1
    <3>2. CASE d # c
      <4>1. PICK r \in Runs : r = call[d].parent
        BY <1>6, <3>2 DEF CallInv, CallFor
      <4>2. PICK i \in DOMAIN lock[r] : lock[r][i] = d
        BY <1>6, <3>2, <4>1 DEF Locks
      <4>3. i \in DOMAIN lock'[r] /\ lock'[r][i] = d
        BY <1>9, <1>10, <4>2
      <4> QED BY <1>6, <3>2, <4>1, <4>3
    <3> QED BY <3>1, <3>2
  <2> QED BY <2>1, <2>2, <2>3 DEF Locks
<1>13. Distinct'
  BY <1>3, <1>6 DEF Distinct
<1>14. \A d \in Callers : Holding(d)'
  <2> SUFFICES ASSUME NEW d \in Callers, call'[d].pc \in Entered
               PROVE  lock'[call'[d].parent] # <<>> /\ lock'[call'[d].parent][1] = d
    BY DEF Holding
  <2>1. d # c /\ call'[d] = call[d] /\ call[d].pc # "idle"
    BY <1>6 DEF Entered, Appending
  <2>2. PICK r \in Runs : r = call[d].parent
    BY <2>1 DEF CallInv, CallFor
  <2>3. lock[r] # <<>> /\ lock[r][1] = d
    BY <2>1, <2>2 DEF Holding
  <2>4. 1 \in DOMAIN lock[r]
    <3>1. lock[r] \in Seq(Callers)
      BY <1>8
    <3> QED BY <2>3, <3>1, LenProperties, EmptySeq
  <2>5. 1 \in DOMAIN lock'[r] /\ lock'[r][1] = lock[r][1]
    BY <1>9, <1>10, <2>4
  <2>6. lock'[r] # <<>>
    BY <2>5
  <2> QED BY <2>1, <2>2, <2>3, <2>5, <2>6
<1>15. /\ Created(Leader)' /\ \A r \in Runs : TeamInv(r)'
       /\ \A r \in Runs \ {Leader} : ChildInv(r)'
       /\ \A d \in Callers : d # c => CallInv(d)'
  BY <1>2, <1>6, SameStream
<1>16. CallInv(c)'
  <2>1. Created(p)' /\ ~Created(k)'
    BY <1>2, <1>4, <1>5 DEF Created
  <2>3. k \notin Members(p) /\ ~Failed(p, k)
    BY DEF Fresh, Members, Failed, Of
  <2>4. k \notin Members(p)' /\ ~Failed(p, k)'
    BY <1>2, <2>3, SameRuns
  <2>2. CallFor(c, p, k)'
    BY <1>6, <2>1, <2>4 DEF CallFor
  <2> QED BY <1>3, <2>2 DEF CallInv
<1>17. Jobs'
  BY <1>2, SameJobs
<1>18. TypeOK'
  BY <1>2, <1>7, <1>9 DEF TypeOK, CallSet, Ids, Pcs
<1> QED BY <1>12, <1>13, <1>14, <1>15, <1>16, <1>17, <1>18

\* Where a call that goes to pc is.
LEMMA Goes ==
  ASSUME TypeOK, NEW c \in Callers, NEW pc \in Pcs, Goto(c, pc)
  PROVE  /\ call' \in [Callers -> CallSet]
         /\ call'[c].pc = pc /\ call'[c].parent = call[c].parent
         /\ call'[c].child = call[c].child /\ call'[c].team = call[c].team
         /\ call'[c].count = call[c].count
         /\ \A d \in Callers : d # c => call'[d] = call[d]
<1>1. call \in [Callers -> CallSet]
  BY DEF TypeOK, CallSet, Ids, Pcs
<1>2. call' = [call EXCEPT ![c] = [call[c] EXCEPT !.pc = pc, !.ver = 0]]
  BY <1>1 DEF Goto, CallSet
<1>3. [call[c] EXCEPT !.pc = pc, !.ver = 0] \in CallSet
  BY <1>1 DEF CallSet
<1> QED BY <1>1, <1>2, <1>3 DEF CallSet

LEMMA EnterStep ==
  ASSUME IInv, NEW c \in Callers, Enter(c)
  PROVE  IInv'
<1> USE DEF IInv
<1>1. call[c].pc = "lock" /\ Goto(c, "read") /\ Head(lock[call[c].parent]) = c
      /\ stream' = stream /\ job' = job /\ queue' = queue /\ lock' = lock /\ crashes' = crashes
  BY DEF Enter
<1>2. PICK p \in Runs, k \in Runs \ {Leader} : CallFor(c, p, k)
  BY <1>1 DEF CallInv
<1>3. /\ call' \in [Callers -> CallSet]
      /\ call'[c].pc = "read" /\ call'[c].parent = call[c].parent
      /\ call'[c].child = call[c].child /\ call'[c].count = call[c].count
      /\ \A d \in Callers : d # c => call'[d] = call[d]
  BY <1>1, Goes DEF Pcs, Entered
<1>4. lock[p] # <<>> /\ lock[p][1] = c
  <2>1. call[c].parent = p
    BY <1>2 DEF CallFor
  <2>2. lock[p] \in Seq(Callers)
    BY DEF TypeOK
  <2>3. lock[p] # <<>>
    BY <1>1, <2>1, <2>2, LenProperties, EmptySeq DEF Locks
  <2> QED BY <1>1, <2>1, <2>2, <2>3
<1>5. CallInv(c)'
  <2>1. /\ Created(p)' /\ (Created(k)' <=> Created(k))
        /\ Members(p)' = Members(p) /\ (Failed(p, k)' <=> Failed(p, k))
    BY <1>1, <1>2, SameRuns DEF CallFor
  <2>2. CallFor(c, p, k)'
    BY <1>1, <1>2, <1>3, <2>1 DEF CallFor
  <2> QED BY <2>2 DEF CallInv
<1>6. call[c].parent = p
  BY <1>2 DEF CallFor
<1> QED BY <1>1, <1>3, <1>4, <1>5, <1>6, CallGoesOn

LEMMA ReadStep ==
  ASSUME IInv, NEW c \in Callers, Read(c)
  PROVE  IInv'
<1> USE DEF IInv
<1>1. call[c].pc = "read" /\ call[c].pc \in Entered
      /\ stream' = stream /\ job' = job /\ queue' = queue /\ crashes' = crashes
  BY DEF Read, Entered
<1>2. PICK p \in Runs, k \in Runs \ {Leader} : CallFor(c, p, k)
  BY <1>1 DEF CallInv
<1>3. call[c].parent = p /\ call[c].child = k /\ Created(p) /\ ~Created(k) /\ call[c].count = 0
      /\ k \notin Members(p) /\ ~Failed(p, k)
  BY <1>1, <1>2 DEF CallFor
<1>4. lock[p] # <<>> /\ lock[p][1] = c
  BY <1>1, <1>3 DEF Holding
<1>5. call \in [Callers -> CallSet]
  BY DEF TypeOK, CallSet, Ids, Pcs
<1>6. /\ Created(p)' <=> Created(p)
      /\ HasTeam(p)' <=> HasTeam(p)
      /\ Definition(p)' = Definition(p)
      /\ TeamOf(p)' = TeamOf(p) /\ Members(p)' = Members(p)
      /\ Created(k)' <=> Created(k)
      /\ Failed(p, k)' <=> Failed(p, k)
  BY <1>1, SameRuns
<1> DEFINE n == Cardinality(Members(p))
<1>7. CASE /\ ~HasTeam(p) /\ lock' = lock
           /\ call' = [call EXCEPT ![c].pc = "create_team", ![c].team = call[c].child]
  <2>1. call' = [call EXCEPT ![c] = [call[c] EXCEPT !.pc = "create_team", !.team = k]]
    BY <1>3, <1>5, <1>7 DEF CallSet
  <2>2. [call[c] EXCEPT !.pc = "create_team", !.team = k] \in CallSet
    BY <1>5 DEF CallSet, Ids, Pcs, Entered, Appending
  <2>3. call' \in [Callers -> CallSet] /\ \A d \in Callers : d # c => call'[d] = call[d]
    BY <1>5, <2>1, <2>2
  <2>4. call'[c].pc = "create_team" /\ call'[c].parent = p /\ call'[c].child = k
        /\ call'[c].count = 0
    BY <1>3, <1>5, <2>1 DEF CallSet
  <2>5. CallFor(c, p, k)'
    BY <1>3, <1>6, <1>7, <2>4 DEF CallFor
  <2>6. CallInv(c)'
    BY <2>5 DEF CallInv
  <2> QED BY <1>1, <1>3, <1>4, <1>7, <2>3, <2>4, <2>6, CallGoesOn
<1>8. CASE /\ HasTeam(p) /\ WithinLimits(n, p) /\ lock' = lock
           /\ call' = [call EXCEPT ![c].pc = "request", ![c].team = TeamOf(p), ![c].count = n]
  <2>0. TeamOf(p) \in Ids /\ n \in Nat
    <3>1. PICK i \in Of(p, "team.created") : TRUE
      BY <1>8 DEF HasTeam
    <3>2. stream[p] \in Seq(EventSet)
      BY DEF TypeOK, EventSet, Ids
    <3>3. i \in DOMAIN stream[p]
      BY DEF Of
    <3>4. i \in Nat /\ stream[p][i] \in EventSet
      BY <3>2, <3>3, LenProperties, ElementOfSeq
    <3>5. TeamOf(p) = stream[p][i].team
      BY <3>4, TeamIs DEF TeamInv
    <3> QED BY <3>4, <3>5, FS_CardinalityType DEF TeamInv, EventSet
  <2>1. call' = [call EXCEPT ![c] = [call[c] EXCEPT !.pc = "request", !.team = TeamOf(p),
                                                    !.count = n]]
    BY <1>5, <1>8 DEF CallSet
  <2>2. [call[c] EXCEPT !.pc = "request", !.team = TeamOf(p), !.count = n] \in CallSet
    BY <1>5, <2>0 DEF CallSet, Pcs, Entered, Appending
  <2>3. call' \in [Callers -> CallSet] /\ \A d \in Callers : d # c => call'[d] = call[d]
    BY <1>5, <2>1, <2>2
  <2>4. call'[c].pc = "request" /\ call'[c].parent = p /\ call'[c].child = k
        /\ call'[c].team = TeamOf(p)
    BY <1>3, <1>5, <2>1 DEF CallSet
  <2>5. n < MaxSubagents /\ Definition(p).depth < MaxDepth
    BY <1>8 DEF WithinLimits
  <2>6. CallFor(c, p, k)'
    BY <1>3, <1>6, <1>8, <2>4, <2>5 DEF CallFor
  <2>7. CallInv(c)'
    BY <2>6 DEF CallInv
  <2> QED BY <1>1, <1>3, <1>4, <1>8, <2>3, <2>4, <2>7, CallGoesOn
<1>9. CASE Leave(c)
  BY <1>1, <1>9, SameJobs, CallLeaves
<1> QED BY <1>3, <1>7, <1>8, <1>9 DEF Read

LEMMA ReadsVersionStep ==
  ASSUME IInv, NEW c \in Callers, ReadsVersion(c)
  PROVE  IInv'
<1> USE DEF IInv
<1>1. call[c].pc \in Entered /\ call[c].pc # "idle"
      /\ stream' = stream /\ job' = job /\ queue' = queue /\ lock' = lock /\ crashes' = crashes
  BY DEF ReadsVersion, Entered, Appending
<1>2. PICK p \in Runs, k \in Runs \ {Leader} : CallFor(c, p, k)
  BY <1>1 DEF CallInv
<1>3. call[c].parent = p
  BY <1>2 DEF CallFor
<1>4. call \in [Callers -> CallSet]
  BY DEF TypeOK, CallSet, Ids, Pcs
<1>5. Len(stream[p]) \in Nat
  <2>1. stream[p] \in Seq(EventSet)
    BY DEF TypeOK, EventSet, Ids
  <2> QED BY <2>1, LenProperties
<1>6. call' = [call EXCEPT ![c] = [call[c] EXCEPT !.ver = Len(stream[p])]]
  BY <1>3, <1>4 DEF ReadsVersion, CallSet
<1>7. [call[c] EXCEPT !.ver = Len(stream[p])] \in CallSet
  BY <1>4, <1>5 DEF CallSet
<1>8. call' \in [Callers -> CallSet] /\ \A d \in Callers : d # c => call'[d] = call[d]
  BY <1>4, <1>6, <1>7
<1>9. /\ call'[c].pc = call[c].pc /\ call'[c].parent = call[c].parent
      /\ call'[c].child = call[c].child /\ call'[c].team = call[c].team
      /\ call'[c].count = call[c].count
  BY <1>4, <1>6 DEF CallSet
<1>10. CallInv(c)'
  <2>1. /\ Created(p)' <=> Created(p)
        /\ HasTeam(p)' <=> HasTeam(p)
        /\ Definition(p)' = Definition(p)
        /\ TeamOf(p)' = TeamOf(p) /\ Members(p)' = Members(p)
        /\ Announced(p, k)' <=> Announced(p, k)
        /\ Failed(p, k)' <=> Failed(p, k)
    BY <1>1, SameRuns
  <2>2. /\ Created(k)' <=> Created(k)
        /\ Definition(k)' = Definition(k)
    BY <1>1, SameRuns
  <2>3. CallFor(c, p, k)'
    BY <1>2, <1>9, <2>1, <2>2 DEF CallFor
  <2> QED BY <2>3 DEF CallInv
<1>11. lock[call[c].parent] # <<>> /\ lock[call[c].parent][1] = c
  BY <1>1 DEF Holding
<1> QED BY <1>1, <1>8, <1>9, <1>10, <1>11, CallGoesOn

LEMMA CreateFailsStep ==
  ASSUME IInv, NEW c \in Callers, CreateFails(c)
  PROVE  IInv'
<1> USE DEF IInv
<1>1. call[c].pc = "create" /\ call[c].pc \in Entered /\ Goto(c, "failed")
      /\ stream' = stream /\ job' = job /\ queue' = queue /\ lock' = lock /\ crashes' = crashes
  BY DEF CreateFails, Entered
<1>2. PICK p \in Runs, k \in Runs \ {Leader} : CallFor(c, p, k)
  BY <1>1 DEF CallInv
<1>3. /\ call' \in [Callers -> CallSet]
      /\ call'[c].pc = "failed" /\ call'[c].parent = call[c].parent
      /\ call'[c].child = call[c].child /\ call'[c].team = call[c].team
      /\ \A d \in Callers : d # c => call'[d] = call[d]
  BY <1>1, Goes DEF Pcs, Entered, Appending
<1>4. CallInv(c)'
  <2>1. /\ Created(p)' <=> Created(p)
        /\ HasTeam(p)' <=> HasTeam(p)
        /\ TeamOf(p)' = TeamOf(p) /\ Members(p)' = Members(p)
        /\ Announced(p, k)' <=> Announced(p, k)
        /\ Failed(p, k)' <=> Failed(p, k)
        /\ Created(k)' <=> Created(k)
    BY <1>1, SameRuns
  <2>2. CallFor(c, p, k)'
    BY <1>1, <1>2, <1>3, <2>1 DEF CallFor
  <2> QED BY <2>2 DEF CallInv
<1>5. lock[call[c].parent] # <<>> /\ lock[call[c].parent][1] = c
  BY <1>1 DEF Holding
<1> QED BY <1>1, <1>3, <1>4, <1>5, CallGoesOn

LEMMA StartChildStep ==
  ASSUME IInv, NEW c \in Callers, StartChild(c)
  PROVE  IInv'
<1> USE DEF IInv
<1>1. call[c].pc = "start" /\ Leave(c) /\ stream' = stream /\ crashes' = crashes
      /\ \/ job[call[c].child] = "none" /\ StartTask(call[c].child)
         \/ job' = job /\ queue' = queue
  BY DEF StartChild
<1>2. PICK p \in Runs, k \in Runs \ {Leader} : CallFor(c, p, k)
  BY <1>1 DEF CallInv
<1>3. call[c].child = k /\ Created(k)
  BY <1>1, <1>2 DEF CallFor
<1>4. /\ Jobs' /\ queue' \in Seq(Runs)
      /\ job' \in [Runs -> {"none", "queued", "executing"}]
  BY <1>1, <1>3, SameJobs, TaskStarts
<1> QED BY <1>1, <1>4, CallLeaves

LEMMA CutOffStep ==
  ASSUME IInv, NEW c \in Callers, Conflicts(c) \/ Cancel(c)
  PROVE  IInv'
<1> USE DEF IInv
<1>1. call[c].pc # "idle" /\ Leave(c)
      /\ stream' = stream /\ job' = job /\ queue' = queue /\ crashes' = crashes
  BY DEF Conflicts, Cancel, Appending
<1> QED BY <1>1, SameJobs, CallLeaves

\* What the append of a call to the stream of q, its parent or its child,
\* leaves true for everyone else.
LEMMA CallAppends ==
  ASSUME IInv, NEW c \in Callers, NEW p \in Runs, NEW k \in Runs \ {Leader},
         call[c].pc \in Entered, CallFor(c, p, k),
         NEW q \in Runs, NEW e \in EventSet,
         stream' = [stream EXCEPT ![q] = Append(@, e)],
         q = p \/ (q = k /\ ~Created(k)),
         e.type = "team.created" => ~HasTeam(q),
         e.type = "team.member.spawned" =>
           /\ HasTeam(q) /\ Cardinality(Members(q)) < MaxSubagents
           /\ e.run = k /\ k \in Children /\ Definition(k).run = q /\ Announced(q, k)
           /\ k \notin Members(q) /\ ~Failed(q, k),
         e.type = "team.member.spawn_failed" => e.run = k /\ k \notin Members(q),
         ~Created(q) => /\ e.run \in Runs /\ HasTeam(e.run) /\ e.team = TeamOf(e.run)
                        /\ Announced(e.run, q) /\ e.depth =< MaxDepth
                        /\ e.type = "run.created",
         job' = job, queue' = queue, crashes' = crashes,
         \A d \in Callers : d # c => call'[d] = call[d]
  PROVE  /\ stream' \in [Runs -> Seq(EventSet)]
         /\ Created(Leader)' /\ \A r \in Runs : TeamInv(r)'
         /\ \A r \in Runs \ {Leader} : ChildInv(r)'
         /\ \A d \in Callers : d # c => CallInv(d)'
         /\ Jobs'
<1> USE DEF IInv
<1>1. stream' \in [Runs -> Seq(EventSet)]
  BY StreamGrows
<1>2. Created(Leader)'
  BY RunKept, TeamAssumption DEF TeamAssumption
<1>3. \A r \in Runs : TeamInv(r)'
  BY TeamsKept
<1>4. \A r \in Runs \ {Leader} : ChildInv(r)'
  BY ChildrenKept
<1>5. Jobs'
  BY JobsKept
<1>6. \A d \in Callers : d # c => CallInv(d)'
  <2> SUFFICES ASSUME NEW d \in Callers, d # c PROVE CallInv(d)'
    OBVIOUS
  <2>1. CASE call[d].pc = "idle"
    BY <2>1 DEF CallInv
  <2>2. CASE call[d].pc # "idle"
    <3>1. PICK r \in Runs, l \in Runs \ {Leader} : CallFor(d, r, l)
      BY <2>2 DEF CallInv
    <3>2. call[c].parent = p /\ call[c].child = k /\ call[d].parent = r /\ call[d].child = l
          /\ Created(p) /\ Created(r)
      BY <3>1 DEF CallFor
    <3>3. l # k
      BY <2>2, <3>2 DEF Distinct
    <3>4. call[d].pc \in Entered => r # p
      BY <3>2 DEF Holding
    <3>5. r # p => r # q
      BY <3>2
    <3>6. Created(q) \/ l # q
      BY <3>2, <3>3
    <3>7. /\ e.type = "team.member.spawned" => e.run # call[d].child
          /\ e.type = "team.member.spawn_failed" => e.run # call[d].child
      BY <3>2, <3>3
    <3> QED BY <3>2, <3>4, <3>5, <3>6, <3>7, CallKept
  <2> QED BY <2>1, <2>2
<1> QED BY <1>1, <1>2, <1>3, <1>4, <1>5, <1>6

\* The calls after it, whether the call goes on or leaves.
LEMMA AppendEnds ==
  ASSUME IInv, NEW c \in Callers, NEW pc \in Entered, call[c].pc \in Entered,
         stream' \in [Runs -> Seq(EventSet)],
         Created(Leader)', \A r \in Runs : TeamInv(r)',
         \A r \in Runs \ {Leader} : ChildInv(r)',
         \A d \in Callers : d # c => CallInv(d)', Jobs',
         job' = job, queue' = queue, crashes' = crashes,
         \/ Leave(c)
         \/ Goto(c, pc) /\ lock' = lock /\ CallInv(c)'
  PROVE  IInv'
<1> USE DEF IInv
<1>0. call[c].pc # "idle"
  BY DEF Entered, Appending
<1>1. CASE Leave(c)
  <2>1. \A d \in Callers : call[d].pc # "idle" =>
          call[d].parent \in Runs /\ call[d].child \in Runs
    BY DEF CallInv, CallFor
  <2>2. /\ lock' \in [Runs -> Seq(Callers)]
        /\ call'[c] = Idle /\ \A d \in Callers : d # c => call'[d] = call[d]
        /\ Locks' /\ Distinct' /\ \A d \in Callers : Holding(d)'
    BY <1>0, <1>1, <2>1, Leaves
  <2>3. \A d \in Callers : CallInv(d)'
    <3>1. CallInv(c)'
      BY <2>2 DEF CallInv, Idle
    <3> QED BY <3>1
  <2>4. call' \in [Callers -> CallSet]
    <3>1. Idle \in CallSet
      BY DEF Idle, CallSet, Pcs, Ids
    <3>2. call \in [Callers -> CallSet]
      BY DEF TypeOK, CallSet, Ids, Pcs
    <3> QED BY <1>1, <3>1, <3>2 DEF Leave
  <2>5. TypeOK'
    BY <2>2, <2>4 DEF TypeOK, CallSet, Ids, Pcs, EventSet
  <2> QED BY <2>2, <2>3, <2>5
<1>2. CASE Goto(c, pc) /\ lock' = lock /\ CallInv(c)'
  <2>1. /\ call' \in [Callers -> CallSet]
        /\ call'[c].pc = pc /\ call'[c].parent = call[c].parent
        /\ call'[c].child = call[c].child
        /\ \A d \in Callers : d # c => call'[d] = call[d]
    BY <1>2, Goes DEF Pcs
  <2>2. call'[c].pc # "idle" /\ lock[call[c].parent] # <<>> /\ lock[call[c].parent][1] = c
    BY <2>1 DEF Entered, Appending, Holding
  <2>3. Locks' /\ Distinct' /\ \A d \in Callers : Holding(d)'
    BY <1>0, <1>2, <2>1, <2>2, StaysActive
  <2>4. TypeOK'
    BY <1>2, <2>1 DEF TypeOK, CallSet, Ids, Pcs, EventSet
  <2>5. \A d \in Callers : CallInv(d)'
    BY <1>2
  <2> QED BY <2>3, <2>4, <2>5
<1> QED BY <1>1, <1>2

LEMMA AppendsStep ==
  ASSUME IInv, NEW c \in Callers, Appends(c)
  PROVE  IInv'
<1> USE DEF IInv
<1>1. call[c].pc \in Appending /\ call[c].pc \in Entered /\ call[c].pc # "idle"
      /\ job' = job /\ queue' = queue /\ crashes' = crashes
  BY DEF Appends, Entered, Appending
<1>2. PICK p \in Runs, k \in Runs \ {Leader} : CallFor(c, p, k)
  BY <1>1 DEF CallInv
<1>3. call[c].parent = p /\ call[c].child = k /\ Created(p)
  BY <1>2 DEF CallFor
<1>4. call \in [Callers -> CallSet]
  BY DEF TypeOK, CallSet, Ids, Pcs
<1>5. PICK e \in EventSet : e = Event(TypeAt(call[c].pc), k, call[c].team, 0)
  <2>1. TypeAt(call[c].pc) \in EventTypes
    BY <1>1 DEF TypeAt, Appending, EventTypes
  <2>2. call[c].team \in Ids
    BY <1>4 DEF CallSet
  <2> QED BY <2>1, <2>2 DEF Event, EventSet, Ids
<1>6. stream' = [stream EXCEPT ![p] = Append(@, e)]
  BY <1>3, <1>5 DEF Appends
<1>7. e.type = TypeAt(call[c].pc) /\ e.run = k /\ e.team = call[c].team
  BY <1>5 DEF Event
<1>8. \/ Leave(c)
      \/ /\ call[c].pc \in {"create_team", "request", "spawned"}
         /\ call[c].pc = "create_team" => WithinLimits(call[c].count, p)
         /\ Goto(c, After(call[c].pc)) /\ lock' = lock
  BY <1>1, <1>3 DEF Appends, Appending
<1>9. call[c].pc \in {"create_team", "request", "spawned"} => After(call[c].pc) \in Entered
  BY DEF After, Entered, Appending
<1>10. \A d \in Callers : d # c => call'[d] = call[d]
  BY <1>4, <1>8 DEF Leave, Goto
<1>11. /\ e.type = "team.created" <=> call[c].pc = "create_team"
       /\ e.type = "team.member.spawn_requested" <=> call[c].pc = "request"
       /\ e.type = "team.member.spawned" <=> call[c].pc = "spawned"
  BY <1>1, <1>7 DEF TypeAt, Appending
<1>12. /\ e.type = "team.created" => ~HasTeam(p)
       /\ e.type = "team.member.spawned" =>
            /\ HasTeam(p) /\ Cardinality(Members(p)) < MaxSubagents
            /\ e.run = k /\ k \in Children /\ Definition(k).run = p /\ Announced(p, k)
            /\ k \notin Members(p) /\ ~Failed(p, k)
       /\ e.type = "team.member.spawn_failed" => e.run = k /\ k \notin Members(p)
  BY <1>1, <1>2, <1>7, <1>11 DEF CallFor, Children, TypeAt, Appending
<1>13. /\ stream' \in [Runs -> Seq(EventSet)]
       /\ Created(Leader)' /\ \A r \in Runs : TeamInv(r)'
       /\ \A r \in Runs \ {Leader} : ChildInv(r)'
       /\ \A d \in Callers : d # c => CallInv(d)'
       /\ Jobs'
  BY <1>1, <1>2, <1>3, <1>6, <1>10, <1>12, CallAppends
<1>14. /\ Created(p)' /\ Definition(p)' = Definition(p)
       /\ HasTeam(p)' <=> HasTeam(p) \/ e.type = "team.created"
       /\ Members(p)' = IF e.type = "team.member.spawned"
                        THEN Members(p) \cup {e.run} ELSE Members(p)
       /\ \A q : Announced(p, q) => Announced(p, q)'
       /\ Failed(p, k)' => Failed(p, k) \/ e.type = "team.member.spawn_failed"
  <2>1. /\ Created(p)' /\ Definition(p)' = Definition(p)
        /\ HasTeam(p)' <=> HasTeam(p) \/ e.type = "team.created"
        /\ Members(p)' = IF e.type = "team.member.spawned"
                         THEN Members(p) \cup {e.run} ELSE Members(p)
        /\ \A q : Announced(p, q) => Announced(p, q)'
    BY <1>3, <1>6, RunKept
  <2>2. Failed(p, k)' => Failed(p, k) \/ e.type = "team.member.spawn_failed"
    BY <1>6, RunKept
  <2> QED BY <2>1, <2>2
<1>15. /\ Created(k)' <=> Created(k) \/ k = p
       /\ Created(k) => Definition(k)' = Definition(k)
  BY <1>6, RunKept
<1>16. /\ HasTeam(p) => TeamOf(p)' = TeamOf(p)
       /\ e.type = "team.created" => TeamOf(p)' = e.team
  BY <1>6, <1>12, TeamKept DEF TeamInv
<1>17. ASSUME call[c].pc \in {"create_team", "request", "spawned"},
              call[c].pc = "create_team" => WithinLimits(call[c].count, p),
              Goto(c, After(call[c].pc))
       PROVE  CallInv(c)'
  <2>1. /\ call'[c].pc = After(call[c].pc) /\ call'[c].parent = p /\ call'[c].child = k
        /\ call'[c].team = call[c].team
    BY <1>3, <1>4, <1>17 DEF Goto, CallSet
  <2>5. call[c].pc # "spawned" => k \notin Members(p)' /\ ~Failed(p, k)'
    BY <1>2, <1>7, <1>11, <1>14, <1>17 DEF CallFor, TypeAt
  <2>2. CASE call[c].pc = "create_team"
    <3>1. call'[c].pc = "request" /\ HasTeam(p)' /\ call'[c].team = TeamOf(p)' /\ ~Created(k)'
      BY <1>2, <1>3, <1>7, <1>11, <1>14, <1>15, <1>16, <2>1, <2>2 DEF After, CallFor
    <3>2. Cardinality(Members(p)') < MaxSubagents /\ Definition(p)'.depth < MaxDepth
      <4>1. Members(p)' = {} /\ call[c].count = 0
        BY <1>2, <1>11, <1>14, <2>2 DEF CallFor, TeamInv
      <4> QED BY <1>14, <1>17, <2>2, <4>1, FS_EmptySet DEF WithinLimits
    <3>3. CallFor(c, p, k)'
      BY <1>14, <2>1, <2>2, <2>5, <3>1, <3>2 DEF CallFor
    <3> QED BY <3>3 DEF CallInv
  <2>3. CASE call[c].pc = "request"
    <3>1. call'[c].pc = "create" /\ HasTeam(p)' /\ call'[c].team = TeamOf(p)' /\ ~Created(k)'
      BY <1>2, <1>3, <1>14, <1>15, <1>16, <2>1, <2>3 DEF After, CallFor
    <3>2. Cardinality(Members(p)') < MaxSubagents /\ Definition(p)'.depth < MaxDepth
      BY <1>2, <1>11, <1>14, <2>3 DEF CallFor
    <3>3. Announced(p, k)'
      <4>1. Of(p, "team.member.spawn_requested")' =
              Of(p, "team.member.spawn_requested") \cup {Len(stream[p]) + 1}
        <5>1. "team.member.spawn_requested" \in EventTypes
          BY DEF EventTypes
        <5> QED BY <1>6, <1>11, <2>3, <5>1, OfGrows
      <4>2. stream'[p][Len(stream[p]) + 1] = e
        BY <1>6, StreamGrows
      <4> QED BY <1>7, <4>1, <4>2 DEF Announced
    <3>4. CallFor(c, p, k)'
      BY <1>14, <2>1, <2>3, <2>5, <3>1, <3>2, <3>3 DEF CallFor
    <3> QED BY <3>4 DEF CallInv
  <2>4. CASE call[c].pc = "spawned"
    <3>1. call'[c].pc = "start" /\ HasTeam(p)' /\ call'[c].team = TeamOf(p)'
      BY <1>2, <1>14, <1>16, <2>1, <2>4 DEF After, CallFor
    <3>2. Created(k)' /\ Definition(k)'.run = p /\ Announced(p, k)' /\ k \in Members(p)'
      BY <1>2, <1>7, <1>11, <1>14, <1>15, <2>4 DEF CallFor
    <3>3. CallFor(c, p, k)'
      BY <1>14, <2>1, <3>1, <3>2 DEF CallFor
    <3> QED BY <3>3 DEF CallInv
  <2> QED BY <1>17, <2>2, <2>3, <2>4
<1>18. CASE Leave(c)
  <2>1. "read" \in Entered
    BY DEF Entered
  <2> QED BY <1>1, <1>13, <1>18, <2>1, AppendEnds
<1>19. CASE /\ call[c].pc \in {"create_team", "request", "spawned"}
            /\ call[c].pc = "create_team" => WithinLimits(call[c].count, p)
            /\ Goto(c, After(call[c].pc)) /\ lock' = lock
  <2>1. PICK pc \in Entered : pc = After(call[c].pc)
    BY <1>9, <1>19
  <2>2. CallInv(c)'
    BY <1>17, <1>19
  <2> QED BY <1>1, <1>13, <1>19, <2>1, <2>2, AppendEnds
<1> QED BY <1>8, <1>18, <1>19

LEMMA CreateChildStep ==
  ASSUME IInv, NEW c \in Callers, CreateChild(c)
  PROVE  IInv'
<1> USE DEF IInv
<1>1. call[c].pc = "create" /\ call[c].pc \in Entered /\ Goto(c, "spawned") /\ lock' = lock
      /\ job' = job /\ queue' = queue /\ crashes' = crashes
  BY DEF CreateChild, Entered
<1>2. PICK p \in Runs, k \in Runs \ {Leader} : CallFor(c, p, k)
  BY <1>1 DEF CallInv
<1>3. /\ call[c].parent = p /\ call[c].child = k /\ Created(p) /\ ~Created(k)
      /\ HasTeam(p) /\ call[c].team = TeamOf(p) /\ Definition(p).depth < MaxDepth
      /\ Announced(p, k) /\ Cardinality(Members(p)) < MaxSubagents
      /\ k \notin Members(p) /\ ~Failed(p, k)
  BY <1>1, <1>2 DEF CallFor
<1>4. call[c].team \in Ids
  BY DEF TypeOK, Ids
<1>5. Definition(p).depth \in Nat /\ Definition(p).depth + 1 =< MaxDepth
  <2>1. stream[p] \in Seq(EventSet)
    BY DEF TypeOK, EventSet, Ids
  <2>2. 1 \in DOMAIN stream[p]
    BY <1>3, <2>1, LenProperties, EmptySeq DEF Created
  <2>3. stream[p][1] \in EventSet
    BY <2>1, <2>2, LenProperties, ElementOfSeq
  <2>4. Definition(p).depth \in Nat
    BY <2>3 DEF Definition, EventSet
  <2> QED BY <1>3, <2>4, TeamAssumption DEF TeamAssumption
<1>6. PICK e \in EventSet :
        e = Event("run.created", p, call[c].team, Definition(p).depth + 1)
  <2>1. PICK n \in Nat : n = Definition(p).depth + 1
    BY <1>5
  <2>2. Event("run.created", p, call[c].team, n) \in EventSet
    BY <1>4 DEF Event, EventSet, EventTypes, Ids
  <2> QED BY <2>1, <2>2
<1>7. e.type = "run.created" /\ e.run = p /\ e.team = TeamOf(p) /\ e.depth =< MaxDepth
  BY <1>3, <1>5, <1>6 DEF Event
<1>8. stream' = [stream EXCEPT ![k] = Append(@, e)]
  <2>1. stream[k] = <<>>
    BY <1>3 DEF Created
  <2>2. Append(stream[k], e) = <<e>>
    BY <2>1
  <2> QED BY <1>3, <1>6, <2>2 DEF CreateChild, TypeOK
<1>9. /\ call'[c].pc = "spawned" /\ call'[c].parent = p
      /\ call'[c].child = k /\ call'[c].team = call[c].team
      /\ \A d \in Callers : d # c => call'[d] = call[d]
  BY <1>1, <1>3, Goes DEF Pcs, Entered, Appending
<1>10. /\ stream' \in [Runs -> Seq(EventSet)]
       /\ Created(Leader)' /\ \A r \in Runs : TeamInv(r)'
       /\ \A r \in Runs \ {Leader} : ChildInv(r)'
       /\ \A d \in Callers : d # c => CallInv(d)'
       /\ Jobs'
  BY <1>1, <1>2, <1>3, <1>7, <1>8, <1>9, CallAppends
<1>11. CallInv(c)'
  <2>1. /\ Created(p)' /\ Definition(p)' = Definition(p) /\ HasTeam(p)'
        /\ Members(p)' = Members(p) /\ Announced(p, k)'
    BY <1>3, <1>7, <1>8, RunKept
  <2>5. ~Failed(p, k)'
    <3>1. Failed(p, k)' <=>
            Failed(p, k) \/ (p = k /\ e.type = "team.member.spawn_failed" /\ e.run = k)
      BY <1>8, RunKept
    <3>2. e.type # "team.member.spawn_failed"
      BY <1>7
    <3> QED BY <1>3, <3>1, <3>2
  <2>2. TeamOf(p)' = TeamOf(p)
    BY <1>3, <1>7, <1>8, TeamKept DEF TeamInv
  <2>3. Created(k)' /\ Definition(k)'.run = p
    <3>1. Created(k)'
      BY <1>8, RunKept
    <3>2. stream'[k] = <<e>>
      BY <1>3, <1>8 DEF Created, TypeOK
    <3> QED BY <1>7, <3>1, <3>2 DEF Definition
  <2>4. CallFor(c, p, k)'
    BY <1>3, <1>9, <2>1, <2>2, <2>3, <2>5 DEF CallFor
  <2> QED BY <2>4 DEF CallInv
<1>12. "spawned" \in Entered
  BY DEF Entered, Appending
<1> QED BY <1>1, <1>10, <1>11, <1>12, AppendEnds

LEMMA TeamNext ==
  ASSUME IInv, [Next]_vars
  PROVE  IInv'
<1>1. CASE Execute \/ \E r \in Runs : OperatorStarts(r) \/ End(r)
  BY <1>1, TaskSteps
<1>2. CASE Crash
  BY <1>2, CrashStep
<1>3. CASE \E r \in Runs : OtherAppends(r)
  BY <1>3, OtherStep
<1>4. ASSUME NEW c \in Callers, Spawn(c) \/ SpawnNext(c) \/ Cancel(c)
      PROVE  IInv'
  BY <1>4, SpawnStep, EnterStep, ReadStep, ReadsVersionStep, AppendsStep, CutOffStep,
     CreateChildStep, CreateFailsStep, StartChildStep DEF SpawnNext
<1>5. CASE UNCHANGED vars
  <2>1. /\ stream' = stream /\ job' = job /\ queue' = queue /\ lock' = lock
        /\ call' = call /\ crashes' = crashes
    BY <1>5 DEF vars
  <2>2. /\ Created(Leader)' /\ \A r \in Runs : TeamInv(r)'
        /\ \A r \in Runs \ {Leader} : ChildInv(r)'
        /\ \A d \in Callers : CallInv(d)'
    BY <2>1, SameStream DEF IInv
  <2>3. Jobs'
    BY <2>1, SameJobs DEF IInv
  <2>4. Locks' /\ Distinct' /\ \A d \in Callers : Holding(d)'
    BY <2>1 DEF IInv, Locks, Distinct, Holding
  <2>5. TypeOK'
    BY <2>1 DEF IInv, TypeOK
  <2> QED BY <2>2, <2>3, <2>4, <2>5 DEF IInv
<1> QED BY <1>1, <1>2, <1>3, <1>4, <1>5 DEF Next

-----------------------------------------------------------------------------
(* The theorems.                                                           *)

\* The inductive invariant: a call that has entered holds the lock of its parent
\* and what it read of the team is still so.
THEOREM TeamInvariance == Spec => []IInv
<1>1. IInv /\ [Next]_vars => IInv'
  BY TeamNext
<1> QED BY TeamInit, <1>1, PTL DEF Spec

\* The types of the coordinator's state.
THEOREM TeamTypes == Spec => []TypeOK
<1>1. IInv => TypeOK
  BY DEF IInv
<1> QED BY TeamInvariance, <1>1, PTL

\* However many calls of spawn race, conflict or are cut off, no team exceeds
\* max_subagents and no run max_subagent_depth.
THEOREM TeamsStayBounded == Spec => []TeamsAreBounded
<1>1. IInv => TeamsAreBounded
  BY DEF IInv, TeamsAreBounded, TeamInv, ChildInv, ChildOf, Children
<1> QED BY TeamInvariance, <1>1, PTL

\* A run has one team, whose id its children carry.
THEOREM TeamIsUnique == Spec => []OneTeam
<1>1. IInv => OneTeam
  <2> SUFFICES ASSUME IInv PROVE OneTeam
    OBVIOUS
  <2>1. ASSUME NEW r \in Runs PROVE Cardinality(Of(r, "team.created")) =< 1
    <3>1. \A i, j \in Of(r, "team.created") : i = j
      BY DEF IInv, TeamInv
    <3>2. Of(r, "team.created") = {} \/ \E i : Of(r, "team.created") = {i}
      BY <3>1
    <3> QED BY <3>2, FS_EmptySet, FS_Singleton
  <2>2. \A r \in Children :
          HasTeam(Definition(r).run) /\ Definition(r).team = TeamOf(Definition(r).run)
    BY DEF IInv, ChildInv, ChildOf, Children
  <2> QED BY <2>1, <2>2 DEF OneTeam
<1> QED BY TeamInvariance, <1>1, PTL

\* A child that exists was announced, whatever cut off the call that created it.
THEOREM ChildrenStayAnnounced == Spec => []ChildrenAreAnnounced
<1>1. IInv => ChildrenAreAnnounced
  BY DEF IInv, ChildrenAreAnnounced, ChildInv, ChildOf, Children, Announced
<1> QED BY TeamInvariance, <1>1, PTL

\* A member on record is a child run of that leader, announced before it was
\* recorded, recorded once, and not on record as failed.
THEOREM MembersAreRuns == Spec => []MembersExist
<1>1. IInv => MembersExist
  BY DEF IInv, MembersExist, TeamInv, MemberFor, Failed
<1> QED BY TeamInvariance, <1>1, PTL

\* Whoever starts a run, and however often, it waits for a slot at most once and
\* not while it executes.
THEOREM StartsAreUnique == Spec => []RunsQueueOnce
<1>1. IInv => RunsQueueOnce
  <2> SUFFICES ASSUME IInv PROVE RunsQueueOnce
    OBVIOUS
  <2>1. queue \in Seq(Runs) /\ \A i \in DOMAIN queue : queue[i] \in Runs
    BY LenProperties, ElementOfSeq DEF IInv, TypeOK
  <2>2. IsInjective(queue)
    BY DEF IInv, Jobs, Queued, IsInjective
  <2>3. Range(queue) = {r \in Runs : job[r] = "queued"}
    BY <2>1 DEF IInv, Jobs, Queued, Range
  <2> QED BY <2>2, <2>3 DEF RunsQueueOnce
<1> QED BY TeamInvariance, <1>1, PTL
=============================================================================
