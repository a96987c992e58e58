------------------------- MODULE VersionStoreProofs --------------------------
(***************************************************************************)
(* Whatever calls of the API race, the activation history of an agent      *)
(* explains its versions, a version is promoted at most once, and every    *)
(* promotion has evidence against the version it replaced.                 *)
(*                                                                         *)
(* The inductive invariant is IInv.  What the properties rest on is        *)
(* ReadIsCurrent: the lock keeps what a call has read and checked true     *)
(* until the call commits.                                                 *)
(***************************************************************************)
EXTENDS VersionStore, SequenceTheorems, TLAPS

Ops == {"none", "activate", "draft", "candidate", "promote", "rollback"}
View == [stored  : SUBSET Bundles,
         status  : UNION {[S -> Statuses] : S \in SUBSET Bundles},
         pointer : Bundles \cup {None}]
CallRow == [op : Ops, pc : {"idle", "lock", "read", "commit"},
            target : Bundles \cup {None}, base : Bundles \cup {None},
            shown : SUBSET Benchmarks, seen : View]

\* What a call was asked for, from its request to its answer.
CallsOK ==
    /\ call \in [Calls -> CallRow]
    /\ \A c \in Calls : call[c].pc # "idle" =>
          /\ call[c].op # "none"
          /\ call[c].target \in Bundles
          /\ call[c].op \in {"promote", "rollback"} =>
                call[c].target \in Stored /\ call[c].base \in Stored
          /\ call[c].op = "promote" => \E shown \in call[c].shown : Passes(shown)

Exclusive == \A c \in Calls : call[c].pc \in {"read", "commit"} => lock = c

\* The lock keeps what was read and checked true until the commit.
ReadIsCurrent ==
    \A c \in Calls : call[c].pc = "commit" =>
        /\ call[c].seen = Snapshot
        /\ Admissible(call[c].op, call[c].target, call[c].base, Snapshot)

HistoryStored == \A i \in DOMAIN history : history[i].to \in Stored

StoreOK == TypeOK /\ HistoryStored /\ HistoryExplains /\ PromotedOnce /\ PromotedOnEvidence
IInv    == StoreOK /\ CallsOK /\ Exclusive /\ ReadIsCurrent

store == <<versions, pointer, history>>

-----------------------------------------------------------------------------
(* The idle call and a view of the store are what CallRow says.            *)
LEMMA IdleIsRow == Idle \in CallRow
<1>1. Nothing \in View
  <2>1. Nothing.status \in [{} -> Statuses]
    BY DEF Nothing
  <2> QED
    BY <2>1 DEF Nothing, View
<1> QED
  BY <1>1 DEF Idle, CallRow, Ops

LEMMA SnapshotIsView ==
    ASSUME TypeOK
    PROVE  Snapshot \in View
<1>1. Stored \in SUBSET Bundles /\ pointer \in Bundles \cup {None}
  BY DEF TypeOK
<1>2. [v \in Stored |-> versions[v].status] \in [Stored -> Statuses]
  BY DEF TypeOK, Row
<1> QED
  BY <1>1, <1>2 DEF Snapshot, View

(* What an unchanged store keeps.                                          *)
LEMMA StoreUnchanged ==
    ASSUME StoreOK, UNCHANGED store, lock' \in Calls \cup {None}, calls' \in 0 .. MaxCalls
    PROVE  StoreOK'
  BY DEF StoreOK, store, TypeOK, HistoryStored, HistoryExplains, PromotedOnce,
         PromotedOnEvidence, Activations, Stored

(* Appending an entry to the history.                                      *)
LEMMA Appended ==
    ASSUME TypeOK, NEW e \in [action : {"initial_activation", "promote", "rollback"},
                              from   : Bundles \cup {None},
                              to     : Bundles],
           history' = Append(history, e)
    PROVE  /\ Len(history) \in Nat
           /\ DOMAIN history = 1 .. Len(history)
           /\ DOMAIN history' = 1 .. (Len(history) + 1)
           /\ Len(history') = Len(history) + 1
           /\ history' # <<>>
           /\ history'[Len(history) + 1] = e
           /\ \A i \in DOMAIN history : i \in DOMAIN history' /\ history'[i] = history[i]
           /\ history' \in Seq([action : {"initial_activation", "promote", "rollback"},
                                from   : Bundles \cup {None},
                                to     : Bundles])
  BY DEF TypeOK

-----------------------------------------------------------------------------
LEMMA InitOK == Init => IInv
<1> SUFFICES ASSUME Init PROVE IInv
  OBVIOUS
<1>1. Stored = {} /\ DOMAIN history = {}
  BY DEF Init, Stored
<1>2. StoreOK
  BY <1>1, VersionAssumption DEF Init, StoreOK, TypeOK, HistoryStored, HistoryExplains, PromotedOnce,
     PromotedOnEvidence
<1>3. \A c \in Calls : call[c] = Idle
  BY DEF Init
<1>4. CallsOK
  BY <1>3, IdleIsRow DEF Init, CallsOK, Idle
<1> QED
  BY <1>2, <1>3, <1>4 DEF IInv, Exclusive, ReadIsCurrent, Idle

(* A request takes a call from idle to the lock.                           *)
LEMMA AskOK ==
    ASSUME IInv, NEW c \in Calls, NEW op \in Ops \ {"none"}, NEW target \in Bundles,
           NEW base \in Bundles \cup {None}, NEW shown \in SUBSET Benchmarks,
           op \in {"promote", "rollback"} => target \in Stored /\ base \in Stored,
           op = "promote" => \E s \in shown : Passes(s),
           Ask(c, op, target, base, shown)
    PROVE  IInv'
<1> DEFINE new == [Idle EXCEPT !.op = op, !.pc = "lock",
                   !.target = target, !.base = base, !.shown = shown]
<1>1. /\ new \in CallRow /\ new.op = op /\ new.pc = "lock" /\ new.target = target
      /\ new.base = base /\ new.shown = shown
  BY IdleIsRow DEF CallRow, Idle
<1> HIDE DEF new
<1>2. call \in [Calls -> CallRow] /\ call' = [call EXCEPT ![c] = new]
  BY DEF IInv, CallsOK, Ask, new
<1>3. /\ call' \in [Calls -> CallRow] /\ call'[c] = new
      /\ \A d \in Calls \ {c} : call'[d] = call[d]
  BY <1>1, <1>2
<1>4. Stored' = Stored /\ Snapshot' = Snapshot /\ lock' = lock /\ UNCHANGED store
  BY DEF Ask, Stored, Snapshot, store
<1>5. StoreOK'
  <2>1. lock' \in Calls \cup {None} /\ calls' \in 0 .. MaxCalls
    BY VersionAssumption DEF IInv, StoreOK, TypeOK, Ask
  <2> QED
    BY <1>4, <2>1, StoreUnchanged DEF IInv
<1>6. CallsOK'
  <2>1. \A d \in Calls \ {c} : call[d].pc # "idle" =>
            /\ call[d].op # "none" /\ call[d].target \in Bundles
            /\ call[d].op \in {"promote", "rollback"} =>
                  call[d].target \in Stored /\ call[d].base \in Stored
            /\ call[d].op = "promote" => \E s \in call[d].shown : Passes(s)
    BY DEF IInv, CallsOK
  <2>2. \A d \in Calls : call'[d].pc # "idle" =>
            /\ call'[d].op # "none" /\ call'[d].target \in Bundles
            /\ call'[d].op \in {"promote", "rollback"} =>
                  call'[d].target \in Stored /\ call'[d].base \in Stored
            /\ call'[d].op = "promote" => \E s \in call'[d].shown : Passes(s)
    BY <1>1, <1>3, <2>1
  <2> QED
    BY <1>3, <1>4, <2>2 DEF CallsOK, Passes
<1>7. Exclusive'
  BY <1>1, <1>3, <1>4 DEF IInv, Exclusive
<1>8. ReadIsCurrent'
  <2> SUFFICES ASSUME NEW d \in Calls, call'[d].pc = "commit"
               PROVE  /\ call'[d].seen = Snapshot'
                      /\ Admissible(call'[d].op, call'[d].target, call'[d].base, Snapshot')
    BY DEF ReadIsCurrent
  <2>1. call'[d] = call[d]
    BY <1>1, <1>3
  <2>2. /\ call[d].seen = Snapshot
        /\ Admissible(call[d].op, call[d].target, call[d].base, Snapshot)
    BY <2>1 DEF IInv, ReadIsCurrent
  <2> QED
    BY <1>4, <2>1, <2>2
<1> QED
  BY <1>5, <1>6, <1>7, <1>8 DEF IInv

(* A call that ends while it holds the lock, with the store in order.      *)
LEMMA LeaveOK ==
    ASSUME IInv, NEW c \in Calls, call[c].pc \in {"read", "commit"}, Leave(c),
           StoreOK', Stored \subseteq Stored'
    PROVE  IInv'
<1>1. call \in [Calls -> CallRow]
  BY DEF IInv, CallsOK
<1>2. /\ call' \in [Calls -> CallRow] /\ call'[c] = Idle
      /\ \A d \in Calls \ {c} : call'[d] = call[d]
  BY <1>1, IdleIsRow DEF Leave
<1>3. \A d \in Calls : call'[d].pc \notin {"read", "commit"}
  BY <1>2 DEF IInv, Exclusive, Idle
<1>4. CallsOK'
  BY <1>2 DEF IInv, CallsOK, Passes, Idle
<1> QED
  BY <1>3, <1>4 DEF IInv, Exclusive, ReadIsCurrent

LEMMA AcquireOK ==
    ASSUME IInv, NEW c \in Calls, Acquire(c)
    PROVE  IInv'
<1>1. call \in [Calls -> CallRow]
  BY DEF IInv, CallsOK
<1>2. /\ call' \in [Calls -> CallRow]
      /\ \A d \in Calls \ {c} : call'[d] = call[d]
      /\ call'[c].pc = "read" /\ call'[c].op = call[c].op
      /\ call'[c].target = call[c].target /\ call'[c].base = call[c].base
      /\ call'[c].shown = call[c].shown
  BY <1>1 DEF Acquire, CallRow
<1>3. UNCHANGED store /\ Stored' = Stored /\ lock = None /\ lock' = c /\ calls' = calls
      /\ call[c].pc = "lock"
  BY DEF Acquire, store, Stored
<1>4. \A d \in Calls : call[d].pc \notin {"read", "commit"}
  BY <1>3, VersionAssumption DEF IInv, Exclusive
<1>5. StoreOK'
  <2>1. calls' \in 0 .. MaxCalls
    BY <1>3 DEF IInv, StoreOK, TypeOK
  <2> QED
    BY <1>3, <2>1, StoreUnchanged DEF IInv
<1>6. CallsOK'
  BY <1>2, <1>3 DEF IInv, CallsOK, Passes
<1> QED
  BY <1>2, <1>3, <1>4, <1>5, <1>6 DEF IInv, Exclusive, ReadIsCurrent

LEMMA ReadOK ==
    ASSUME IInv, NEW c \in Calls, Read(c)
    PROVE  IInv'
<1>0. UNCHANGED store /\ Stored' = Stored /\ Snapshot' = Snapshot /\ calls' = calls
      /\ call[c].pc = "read" /\ lock = c
  BY DEF Read, store, Stored, Snapshot, IInv, Exclusive
<1>a. lock' \in Calls \cup {None}
  BY <1>0 DEF Read, Leave
<1>b. StoreOK'
  <2>1. calls' \in 0 .. MaxCalls
    BY <1>0 DEF IInv, StoreOK, TypeOK
  <2> QED
    BY <1>0, <1>a, <2>1, StoreUnchanged DEF IInv
<1>1. CASE ~ Admissible(call[c].op, call[c].target, call[c].base, Snapshot)
  <2>1. Leave(c)
    BY <1>1 DEF Read
  <2> QED
    BY <1>0, <1>b, <2>1, LeaveOK
<1>2. CASE Admissible(call[c].op, call[c].target, call[c].base, Snapshot)
  <2>1. call \in [Calls -> CallRow] /\ Snapshot \in View
    BY SnapshotIsView DEF IInv, StoreOK, CallsOK
  <2>2. call' = [call EXCEPT ![c].pc = "commit", ![c].seen = Snapshot] /\ lock' = lock
    BY <1>2 DEF Read
  <2>3. /\ call' \in [Calls -> CallRow]
        /\ \A d \in Calls \ {c} : call'[d] = call[d]
        /\ call'[c].pc = "commit" /\ call'[c].op = call[c].op
        /\ call'[c].target = call[c].target /\ call'[c].base = call[c].base
        /\ call'[c].shown = call[c].shown /\ call'[c].seen = Snapshot
    BY <2>1, <2>2 DEF CallRow
  <2>4. CallsOK'
    BY <1>0, <2>3 DEF IInv, CallsOK, Passes
  <2>5. Exclusive'
    BY <1>0, <2>2, <2>3 DEF IInv, Exclusive
  <2>6. \A d \in Calls \ {c} : call[d].pc # "commit"
    BY <1>0 DEF IInv, Exclusive
  <2>7. ReadIsCurrent'
    <3>1. Admissible(call'[c].op, call'[c].target, call'[c].base, Snapshot')
      BY <1>0, <1>2, <2>3
    <3> QED
      BY <1>0, <2>3, <2>6, <3>1 DEF ReadIsCurrent
  <2> QED
    BY <1>b, <2>4, <2>5, <2>7 DEF IInv
<1> QED
  BY <1>1, <1>2

-----------------------------------------------------------------------------
(* What the commits find.                                                  *)

(* An agent without versions has never had an active one.                  *)
LEMMA EmptyStore ==
    ASSUME StoreOK, Stored = {}
    PROVE  pointer = None /\ history = <<>> /\ DOMAIN history = {}
<1>1. DOMAIN history = {}
  BY DEF StoreOK, HistoryStored
<1>2. history \in Seq([action : {"initial_activation", "promote", "rollback"},
                       from   : Bundles \cup {None},
                       to     : Bundles])
  BY DEF StoreOK, TypeOK
<1>3. history = <<>>
  <2>1. Len(history) = 0
    BY <1>1, <1>2, LenProperties
  <2> QED
    BY <1>2, <2>1, EmptySeq
<1> QED
  BY <1>1, <1>3 DEF StoreOK, TypeOK

LEMMA InsertOK ==
    ASSUME StoreOK, NEW b \in Bundles, b \notin Stored, Insert(b, "candidate"),
           UNCHANGED <<pointer, history, calls>>, lock' \in Calls \cup {None}
    PROVE  StoreOK'
<1>1. /\ Stored' = Stored \cup {b}
      /\ versions'[b] = [status |-> "candidate", evidence |-> NoEvidence]
      /\ \A v \in Stored : versions'[v] = versions[v]
  BY DEF Insert, Stored
<1>2. [status |-> "candidate", evidence |-> NoEvidence] \in Row
  BY DEF Row, NoEvidence, Statuses
<1>3. TypeOK'
  BY <1>1, <1>2 DEF StoreOK, TypeOK
<1>4. b # pointer /\ Activations(b) = {}
  BY VersionAssumption DEF StoreOK, TypeOK, HistoryStored, Activations
<1>5. HistoryExplains'
  <2>1. \A v : Activations(v)' = Activations(v)
    BY DEF Activations
  <2> QED
    BY <1>1, <1>4, <2>1 DEF StoreOK, HistoryExplains
<1>6. HistoryStored'
  BY <1>1 DEF StoreOK, HistoryStored
<1>7. PromotedOnce'
  BY DEF StoreOK, PromotedOnce, Activations
<1>8. PromotedOnEvidence'
  BY <1>1 DEF StoreOK, PromotedOnEvidence, HistoryStored, Passes
<1> QED
  BY <1>3, <1>5, <1>6, <1>7, <1>8 DEF StoreOK

(* PromotedOnce, entry by entry.                                           *)
Once ==
    \A i \in DOMAIN history :
        /\ history[i].action = "rollback" =>
              \E j \in DOMAIN history : j < i /\ history[j].to = history[i].to
        /\ history[i].action # "rollback" =>
              \A j \in DOMAIN history : j < i => history[j].to # history[i].to

LEMMA OnceIsPromotedOnce == Once <=> PromotedOnce
<1> DEFINE earlier(i) == {j \in Activations(history[i].to) : j < i}
<1>1. \A i : earlier(i) = {j \in DOMAIN history : history[j].to = history[i].to /\ j < i}
  BY DEF Activations
<1>2. PromotedOnce <=>
        \A i \in DOMAIN history :
            IF history[i].action = "rollback" THEN earlier(i) # {} ELSE earlier(i) = {}
  BY DEF PromotedOnce
<1> HIDE DEF earlier
<1> QED
  BY <1>1, <1>2 DEF Once

LEMMA ActivateInitialOK ==
    ASSUME StoreOK, NEW b \in Bundles, Stored = {}, Insert(b, "active"), pointer' = b,
           Record("initial_activation", None, b),
           UNCHANGED calls, lock' \in Calls \cup {None}
    PROVE  StoreOK'
<1> DEFINE e == [action |-> "initial_activation", from |-> None, to |-> b]
<1>1. /\ Stored' = {b}
      /\ versions'[b] = [status |-> "active", evidence |-> NoEvidence]
  BY DEF Insert, Stored
<1>2. [status |-> "active", evidence |-> NoEvidence] \in Row
  BY DEF Row, NoEvidence, Statuses
<1>3. /\ e \in [action : {"initial_activation", "promote", "rollback"},
                from   : Bundles \cup {None},
                to     : Bundles]
      /\ e.action = "initial_activation" /\ e.from = None /\ e.to = b
  OBVIOUS
<1>4. history' = Append(history, e)
  BY DEF Record
<1> HIDE DEF e
<1>5. Len(history) = 0
  BY EmptyStore
<1>6. /\ DOMAIN history' = {1} /\ Len(history') = 1 /\ history'[1] = e /\ history' # <<>>
      /\ history' \in Seq([action : {"initial_activation", "promote", "rollback"},
                           from   : Bundles \cup {None},
                           to     : Bundles])
  BY <1>3, <1>4, <1>5, Appended DEF StoreOK
<1>7. TypeOK'
  BY <1>1, <1>2, <1>6 DEF StoreOK, TypeOK
<1>8. HistoryExplains'
  BY <1>1, <1>3, <1>6 DEF HistoryExplains
<1>9. PromotedOnce'
  BY <1>3, <1>6 DEF PromotedOnce, Activations
<1> QED
  BY <1>1, <1>3, <1>6, <1>7, <1>8, <1>9 DEF StoreOK, HistoryStored, PromotedOnEvidence

(* promote and rollback, on what they read: the version that takes over    *)
(* and the one it replaces are the only ones that change.                  *)
LEMMA ReplacedIs ==
    ASSUME StoreOK, NEW op \in {"promote", "rollback"},
           NEW target \in Stored, NEW base \in Stored,
           Admissible(op, target, base, Snapshot)
    PROVE  /\ pointer = base /\ target # base
           /\ versions[base].status = "active"
           /\ op = "promote" => Activations(target) = {}
           /\ op = "rollback" => Activations(target) # {}
           /\ Replaced(Snapshot, target, base) =
                [v \in Stored |-> CASE v = target -> "active"
                                    [] v = base   -> "superseded"
                                    [] OTHER      -> versions[v].status]
<1>1. \A v \in Stored : Snapshot.status[v] = versions[v].status
  BY DEF Snapshot
<1>2. pointer = base
  BY DEF Admissible, Snapshot
<1>3. versions[base].status = "active"
  BY <1>2 DEF StoreOK, HistoryExplains
<1>4. target # base
  BY <1>1, <1>2, <1>3 DEF Admissible, Snapshot
<1>5. CASE op = "promote"
  <2>1. versions[target].status = "candidate"
    BY <1>1, <1>5 DEF Admissible
  <2>2. Activations(target) = {}
    BY <1>2, <1>4, <2>1 DEF StoreOK, HistoryExplains
  <2> QED
    BY <1>1, <1>2, <1>3, <1>4, <1>5, <2>1, <2>2 DEF Replaced
<1>6. CASE op = "rollback"
  <2>1. versions[target].status \in {"superseded", "active"}
    BY <1>1, <1>6 DEF Admissible
  <2>2. Activations(target) # {} /\ versions[target].status = "superseded"
    BY <1>2, <1>4, <2>1 DEF StoreOK, HistoryExplains
  <2> QED
    BY <1>1, <1>2, <1>3, <1>4, <1>6, <2>2 DEF Replaced
<1> QED
  BY <1>5, <1>6

LEMMA ActivationOK ==
    ASSUME IInv, NEW c \in Calls, call[c].pc = "commit", CommitActivation(c),
           UNCHANGED calls, lock' \in Calls \cup {None}
    PROVE  StoreOK' /\ Stored' = Stored
<1> DEFINE op     == call[c].op
           target == call[c].target
           base   == call[c].base
           shown  == call[c].shown
           given(v) == IF v = target /\ op = "promote"
                       THEN [base |-> base, shown |-> shown] ELSE versions[v].evidence
           status(v) == CASE v = target -> "active"
                          [] v = base   -> "superseded"
                          [] OTHER      -> versions[v].status
           e == [action |-> op, from |-> base, to |-> target]
           n == Len(history)
<1>1. /\ op \in {"promote", "rollback"} /\ target \in Stored /\ base \in Stored
      /\ shown \in SUBSET Benchmarks
      /\ op = "promote" => \E s \in shown : Passes(s)
      /\ Admissible(op, target, base, Snapshot) /\ call[c].seen = Snapshot
  BY DEF IInv, CallsOK, ReadIsCurrent, CommitActivation, CallRow
<1>2. /\ pointer = base /\ target # base
      /\ versions[base].status = "active"
      /\ op = "promote" => Activations(target) = {}
      /\ op = "rollback" => Activations(target) # {}
      /\ Replaced(Snapshot, target, base) = [v \in Stored |-> status(v)]
  <2> HIDE DEF op, target, base
  <2> QED
    BY <1>1, ReplacedIs DEF IInv
<1>3. StoreOK /\ Stored \subseteq Bundles /\ \A v \in Stored : versions[v] \in Row
  BY DEF IInv, StoreOK, TypeOK
<1>4. /\ versions' = [v \in Stored |->
                        [versions[v] EXCEPT !.status = Replaced(Snapshot, target, base)[v],
                                            !.evidence = given(v)]]
      /\ pointer' = target /\ history' = Append(history, e)
  BY <1>1 DEF CommitActivation, Record
<1>5. Stored' = Stored
  BY <1>4 DEF Stored
<1>6. \A v \in Stored : status(v) \in Statuses
                        /\ given(v) \in [base : Bundles \cup {None}, shown : SUBSET Benchmarks]
  BY <1>1, <1>3 DEF Row, Statuses
<1>7. /\ e \in [action : {"initial_activation", "promote", "rollback"},
                from   : Bundles \cup {None},
                to     : Bundles]
      /\ e.action = op /\ e.from = base /\ e.to = target
  BY <1>1, <1>3
<1> HIDE DEF op, target, base, shown, given, status, e
<1>8. \A v \in Stored : /\ versions'[v] \in Row
                        /\ versions'[v].status = status(v)
                        /\ versions'[v].evidence = given(v)
  <2>1. \A v \in Stored : Replaced(Snapshot, target, base)[v] = status(v)
    BY <1>2
  <2>2. \A v \in Stored : versions'[v] = [versions[v] EXCEPT !.status = status(v),
                                                             !.evidence = given(v)]
    BY <1>4, <2>1
  <2> QED
    BY <1>3, <1>6, <2>2 DEF Row
<1>9. /\ n \in Nat /\ DOMAIN history = 1 .. n /\ DOMAIN history' = 1 .. (n + 1)
      /\ Len(history') = n + 1 /\ history' # <<>>
      /\ history'[n + 1] = e
      /\ \A i \in DOMAIN history : history'[i] = history[i]
      /\ history' \in Seq([action : {"initial_activation", "promote", "rollback"},
                           from   : Bundles \cup {None},
                           to     : Bundles])
  BY <1>3, <1>4, <1>7, Appended DEF StoreOK
<1> HIDE DEF n
<1>10. \A v : Activations(v)' = IF v = target THEN Activations(v) \cup {n + 1}
                                              ELSE Activations(v)
  BY <1>7, <1>9 DEF Activations
<1>11. TypeOK'
  BY <1>1, <1>3, <1>4, <1>5, <1>8, <1>9 DEF StoreOK, TypeOK
<1>12. HistoryStored'
  BY <1>1, <1>3, <1>5, <1>7, <1>9 DEF StoreOK, HistoryStored
<1>13. HistoryExplains'
  <2>1. pointer' = history'[Len(history')].to
    BY <1>4, <1>7, <1>9
  <2>2. base = IF n = 0 THEN None ELSE history[n].to
    <3>1. history = <<>> <=> n = 0
      BY <1>3, EmptySeq DEF n, StoreOK, TypeOK
    <3> QED
      BY <1>2, <1>3, <3>1 DEF StoreOK, HistoryExplains, n
  <2>3. \A i \in DOMAIN history' :
           history'[i].from = IF i = 1 THEN None ELSE history'[i - 1].to
    <3> SUFFICES ASSUME NEW i \in DOMAIN history'
                 PROVE  history'[i].from = IF i = 1 THEN None ELSE history'[i - 1].to
      OBVIOUS
    <3>1. CASE i = n + 1
      <4>1. n # 0 => history'[n] = history[n]
        BY <1>9
      <4> QED
        BY <1>7, <1>9, <2>2, <3>1, <4>1
    <3>2. CASE i \in DOMAIN history
      <4>1. i # 1 => i - 1 \in DOMAIN history
        BY <1>9, <3>2
      <4> QED
        BY <1>3, <1>9, <3>2, <4>1 DEF StoreOK, HistoryExplains
    <3> QED
      BY <1>9, <3>1, <3>2
  <2>4. Activations(base) # {}
    <3>1. n # 0
      BY <1>1, <1>3, <2>2, VersionAssumption
    <3>2. n \in DOMAIN history
      BY <1>9, <3>1
    <3> QED
      BY <2>2, <3>1, <3>2 DEF Activations
  <2>5. ASSUME NEW v \in Stored
        PROVE  versions'[v].status =
                 CASE v = pointer'           -> "active"
                   [] v # pointer' /\ Activations(v)' # {} -> "superseded"
                   [] OTHER                 -> "candidate"
    <3>1. CASE v = target
      <4>1. versions'[v].status = "active"
        BY <1>2, <1>8, <3>1 DEF status
      <4>2. v = pointer'
        BY <1>4, <3>1
      <4> QED
        BY <4>1, <4>2
    <3>2. CASE v = base
      BY <1>2, <1>4, <1>8, <1>10, <2>4, <3>2 DEF status
    <3>3. CASE v # target /\ v # base
      <4>1. versions'[v].status = versions[v].status /\ Activations(v)' = Activations(v)
        BY <1>8, <1>10, <3>3 DEF status
      <4> QED
        BY <1>2, <1>3, <1>4, <3>3, <4>1 DEF StoreOK, HistoryExplains
    <3> QED
      BY <3>1, <3>2, <3>3
  <2> QED
    BY <1>5, <1>9, <2>1, <2>3, <2>5 DEF HistoryExplains
<1>14. PromotedOnce'
  <2>1. Once
    BY <1>3, OnceIsPromotedOnce DEF StoreOK
  <2>2. ASSUME NEW i \in DOMAIN history', history'[i].action = "rollback"
        PROVE  \E j \in DOMAIN history' : j < i /\ history'[j].to = history'[i].to
    <3>1. CASE i = n + 1
      <4>1. op = "rollback" /\ history'[i].to = target
        BY <1>7, <1>9, <2>2, <3>1
      <4>2. PICK j \in DOMAIN history : history[j].to = target
        BY <1>2, <4>1 DEF Activations
      <4> QED
        BY <1>9, <3>1, <4>1, <4>2
    <3>2. CASE i \in DOMAIN history
      <4>1. PICK j \in DOMAIN history : j < i /\ history[j].to = history[i].to
        BY <1>9, <2>1, <2>2, <3>2 DEF Once
      <4> QED
        BY <1>9, <3>2, <4>1
    <3> QED
      BY <1>9, <3>1, <3>2
  <2>3. ASSUME NEW i \in DOMAIN history', history'[i].action # "rollback",
               NEW j \in DOMAIN history', j < i
        PROVE  history'[j].to # history'[i].to
    <3>0. j \in DOMAIN history
      BY <1>9, <2>3
    <3>1. CASE i = n + 1
      <4>1. op = "promote" /\ history'[i].to = target
        BY <1>1, <1>7, <1>9, <2>3, <3>1
      <4>2. history[j].to # target
        BY <1>2, <3>0, <4>1 DEF Activations
      <4> QED
        BY <1>9, <3>0, <4>1, <4>2
    <3>2. CASE i \in DOMAIN history
      BY <1>9, <2>1, <2>3, <3>0, <3>2 DEF Once
    <3> QED
      BY <1>9, <3>1, <3>2
  <2>4. Once'
    BY <2>2, <2>3 DEF Once
  <2> QED
    BY <2>4, OnceIsPromotedOnce, PTL
<1>15. PromotedOnEvidence'
  <2> SUFFICES ASSUME NEW i \in DOMAIN history', history'[i].action = "promote"
               PROVE  /\ versions'[history'[i].to].evidence.base = history'[i].from
                      /\ \E s \in versions'[history'[i].to].evidence.shown : Passes(s)
    BY DEF PromotedOnEvidence, Passes
  <2>1. CASE i = n + 1
    <3>1. op = "promote" /\ history'[i].to = target /\ history'[i].from = base
      BY <1>7, <1>9, <2>1
    <3>2. versions'[target].evidence = [base |-> base, shown |-> shown]
      BY <1>1, <1>8, <3>1 DEF given
    <3> QED
      BY <1>1, <3>1, <3>2
  <2>2. CASE i \in DOMAIN history
    <3>1. history'[i] = history[i] /\ history[i].to \in Stored
      BY <1>3, <1>9, <2>2 DEF StoreOK, HistoryStored
    <3>2. op = "promote" => history[i].to # target
      BY <1>2, <2>2 DEF Activations
    <3>3. versions'[history[i].to].evidence = versions[history[i].to].evidence
      BY <1>8, <3>1, <3>2 DEF given
    <3> QED
      BY <1>3, <2>2, <3>1, <3>3 DEF StoreOK, PromotedOnEvidence
  <2> QED
    BY <1>9, <2>1, <2>2
<1> QED
  BY <1>5, <1>11, <1>12, <1>13, <1>14, <1>15 DEF StoreOK

-----------------------------------------------------------------------------
LEMMA CommitOK ==
    ASSUME IInv, NEW c \in Calls, Commit(c)
    PROVE  IInv'
<1>1. call[c].pc = "commit" /\ Leave(c) /\ calls' = calls /\ lock' \in Calls \cup {None}
      /\ StoreOK /\ call[c].target \in Bundles
  BY DEF Commit, Leave, IInv, CallsOK
<1>2. CASE CommitInitial(c)
  <2>1. CASE call[c].op = "activate"
    BY <1>1, <1>2, <2>1, ActivateInitialOK, LeaveOK DEF CommitInitial
  <2>2. CASE call[c].op = "draft"
    <3>1. /\ Insert(call[c].target, "candidate") /\ UNCHANGED <<pointer, history, calls>>
          /\ Stored = {}
      BY <1>1, <1>2, <2>2 DEF CommitInitial
    <3> QED
      BY <1>1, <3>1, InsertOK, LeaveOK
  <2> QED
    BY <1>2, <2>1, <2>2 DEF CommitInitial
<1>3. CASE CommitCandidate(c)
  <2>1. /\ Insert(call[c].target, "candidate") /\ UNCHANGED <<pointer, history, calls>>
        /\ call[c].target \notin Stored
    BY <1>1, <1>3 DEF CommitCandidate
  <2>2. StoreOK'
    BY <1>1, <2>1, InsertOK
  <2>3. Stored \subseteq Stored'
    BY <2>1 DEF Insert, Stored
  <2> QED
    BY <1>1, <2>2, <2>3, LeaveOK
<1>4. CASE CommitActivation(c)
  BY <1>1, <1>4, ActivationOK, LeaveOK
<1> QED
  BY <1>2, <1>3, <1>4 DEF Commit

LEMMA AbortOK ==
    ASSUME IInv, NEW c \in Calls, Abort(c)
    PROVE  IInv'
<1>1. /\ call[c].pc \in {"read", "commit"} /\ Leave(c) /\ Stored' = Stored
      /\ UNCHANGED store /\ lock' \in Calls \cup {None} /\ calls' \in 0 .. MaxCalls
  BY DEF Abort, Leave, Stored, store, IInv, StoreOK, TypeOK
<1>2. StoreOK'
  BY <1>1, StoreUnchanged DEF IInv
<1> QED
  BY <1>1, <1>2, LeaveOK

LEMMA RequestOK ==
    ASSUME IInv, NEW c \in Calls,
           AskInitial(c) \/ AskCandidate(c) \/ AskPromotion(c) \/ AskRollback(c)
    PROVE  IInv'
<1>0. Stored \subseteq Bundles
  BY DEF IInv, StoreOK, TypeOK
<1>1. CASE AskInitial(c)
  BY <1>1, AskOK DEF AskInitial, Ops
<1>2. CASE AskCandidate(c)
  BY <1>0, <1>2, AskOK DEF AskCandidate, Ops
<1>3. CASE AskPromotion(c)
  <2>1. PICK v \in Stored, base \in Stored, shown \in Benchmarks :
           Passes(shown) /\ Ask(c, "promote", v, base, {shown})
    BY <1>3 DEF AskPromotion
  <2>2. v \in Bundles /\ base \in Bundles /\ {shown} \in SUBSET Benchmarks
        /\ \E s \in {shown} : Passes(s)
    BY <1>0, <2>1
  <2> QED
    BY <2>1, <2>2, AskOK DEF Ops
<1>4. CASE AskRollback(c)
  BY <1>0, <1>4, AskOK DEF AskRollback, Ops
<1> QED
  BY <1>1, <1>2, <1>3, <1>4

LEMMA NextOK == IInv /\ [Next]_vars => IInv'
<1> SUFFICES ASSUME IInv, [Next]_vars PROVE IInv'
  OBVIOUS
<1>1. ASSUME UNCHANGED vars PROVE IInv'
  <2>1. UNCHANGED store /\ Stored' = Stored /\ Snapshot' = Snapshot
        /\ call' = call /\ lock' = lock /\ calls' = calls
    BY <1>1 DEF vars, store, Stored, Snapshot
  <2>2. StoreOK'
    BY <2>1, StoreUnchanged DEF IInv, StoreOK, TypeOK
  <2>3. CallsOK'
    BY <2>1 DEF IInv, CallsOK, Passes
  <2>4. Exclusive' /\ ReadIsCurrent'
    BY <2>1 DEF IInv, Exclusive, ReadIsCurrent, Admissible
  <2> QED
    BY <2>2, <2>3, <2>4 DEF IInv
<1>2. ASSUME NEW c \in Calls,
             AskInitial(c) \/ AskCandidate(c) \/ AskPromotion(c) \/ AskRollback(c)
      PROVE  IInv'
  BY <1>2, RequestOK
<1>3. ASSUME NEW c \in Calls, CallNext(c) PROVE IInv'
  BY <1>3, AcquireOK, ReadOK, CommitOK, AbortOK DEF CallNext
<1> QED
  BY <1>1, <1>2, <1>3 DEF Next

(* IInv holds in every state the store reaches, whatever requests race.    *)
THEOREM VersionStoreInvariance == Spec => []IInv
  BY InitOK, NextOK, PTL DEF Spec

(* The tables of the version store hold what their columns are for.        *)
THEOREM VersionStoreTypeCorrect == Spec => []TypeOK
<1>1. IInv => TypeOK
  BY DEF IInv, StoreOK
<1> QED
  BY <1>1, VersionStoreInvariance, PTL

(* However create, promote and rollback interleave, the activation history *)
(* accounts for the active pointer and for the status of every version.    *)
THEOREM HistoryExplainsStore == Spec => []HistoryExplains
<1>1. IInv => HistoryExplains
  BY DEF IInv, StoreOK
<1> QED
  BY <1>1, VersionStoreInvariance, PTL

(* No version is promoted twice, and a rollback never activates a version  *)
(* that had not been active.                                               *)
THEOREM PromotionIsOnce == Spec => []PromotedOnce
<1>1. IInv => PromotedOnce
  BY DEF IInv, StoreOK
<1> QED
  BY <1>1, VersionStoreInvariance, PTL

(* The evidence of a promotion, gathered without the lock, is against the  *)
(* version that it replaced under the lock.                                *)
THEOREM PromotionHasEvidence == Spec => []PromotedOnEvidence
<1>1. IInv => PromotedOnEvidence
  BY DEF IInv, StoreOK
<1> QED
  BY <1>1, VersionStoreInvariance, PTL
=============================================================================
