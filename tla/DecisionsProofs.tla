--------------------------- MODULE DecisionsProofs ---------------------------
(***************************************************************************)
(* Theorems about Decisions.  Each decision is computed in one step; what  *)
(* the proofs need is what its operators compute: sums over a finite set   *)
(* of graders or rules, the merge of two dictionaries, the number of       *)
(* events of a kind.                                                       *)
(***************************************************************************)
EXTENDS Decisions, FiniteSetTheorems, SequenceTheorems, TLAPS

-----------------------------------------------------------------------------
(* Sums.                                                                   *)

(* A non-empty set of naturals has a least element.                        *)
Below == {p \in Nat \X Nat : p[1] < p[2]}

LEMMA BelowWellFounded == IsWellFoundedOn(Below, Nat)
  BY NatLessThanWellFounded DEF OpToRel, Below

LEMMA LeastNat ==
    ASSUME NEW S \in SUBSET Nat, S # {}
    PROVE  \E n \in S : \A m \in S : n =< m
<1>1. PICK n \in S : \A m \in S : ~ (<<m, n>> \in Below)
  BY BelowWellFounded, WFMin
<1>2. \A m \in S : ~ (m < n)
  BY <1>1 DEF Below
<1> QED
  BY <1>1, <1>2

(* The recursion of a sum: the value of a chosen index and the sum of the  *)
(* values of the others.  Sums(fun) is what SumFunction computes, set of   *)
(* indices by set.                                                         *)
Chosen(u) == CHOOSE x \in u : TRUE
Step(f, u, fun) == IF u = {} THEN 0 ELSE fun[Chosen(u)] + f[u \ {Chosen(u)}]
Sums(fun) == CHOOSE f : f = [u \in SUBSET DOMAIN fun |-> Step(f, u, fun)]

LEMMA SumLoops == ASSUME NEW fun PROVE SumFunction(fun) = Sums(fun)[DOMAIN fun]
  BY Zenon DEF SumFunction, SumFunctionOnSet, FoldFunctionOnSet, MapThenFoldSet,
               Sums, Step, Chosen

LEMMA ChosenRest ==
    ASSUME NEW D, IsFiniteSet(D), NEW u \in SUBSET D, u # {}
    PROVE  /\ Chosen(u) \in u /\ u \ {Chosen(u)} \in SUBSET D
           /\ Cardinality(u) \in Nat
           /\ Cardinality(u \ {Chosen(u)}) = Cardinality(u) - 1
<1>1. Chosen(u) \in u
  BY DEF Chosen
<1>2. IsFiniteSet(u)
  BY FS_Subset
<1> QED
  BY <1>1, <1>2, FS_RemoveElement, FS_CardinalityType

(* The recursion has a solution, built up by the size of the set.          *)
LEMMA SumsExist ==
    ASSUME NEW fun, IsFiniteSet(DOMAIN fun)
    PROVE  Sums(fun) = [u \in SUBSET DOMAIN fun |-> Step(Sums(fun), u, fun)]
<1> DEFINE D == DOMAIN fun
           Upto(n, f) ==
               /\ f = [u \in SUBSET D |-> f[u]]
               /\ \A u \in SUBSET D : Cardinality(u) =< n => f[u] = Step(f, u, fun)
           Bad == {n \in Nat : ~ \E f : Upto(n, f)}
<1>1. Bad = {}
  <2> SUFFICES ASSUME Bad # {} PROVE FALSE
    OBVIOUS
  <2>1. PICK n \in Bad : \A m \in Bad : n =< m
    <3>1. Bad \in SUBSET Nat
      OBVIOUS
    <3> HIDE DEF Bad
    <3> QED
      BY <3>1, LeastNat
  <2>2. n \in Nat /\ ~ \E f : Upto(n, f)
    BY <2>1
  <2>3. CASE n = 0
    <3> DEFINE f == [u \in SUBSET D |-> 0]
    <3>1. \A u \in SUBSET D : Cardinality(u) =< 0 => u = {}
      <4> SUFFICES ASSUME NEW u \in SUBSET D, Cardinality(u) =< 0 PROVE u = {}
        OBVIOUS
      <4>1. IsFiniteSet(u)
        BY FS_Subset
      <4>2. Cardinality(u) = 0
        BY <4>1, FS_CardinalityType
      <4> QED
        BY <4>1, <4>2, FS_EmptySet
    <3>2. \A u \in SUBSET D : Cardinality(u) =< 0 => f[u] = Step(f, u, fun)
      BY <3>1 DEF Step
    <3>3. Upto(0, f)
      BY <3>2
    <3> QED
      BY <2>2, <2>3, <3>3
  <2>4. CASE n # 0
    <3>1. n - 1 \in Nat /\ ~ (n =< n - 1)
      BY <2>2, <2>4
    <3>2. n - 1 \notin Bad
      <4> HIDE DEF Bad
      <4> QED
        BY <2>1, <3>1
    <3>3. PICK g : Upto(n - 1, g)
      BY <3>1, <3>2
    <3> DEFINE f == [u \in SUBSET D |-> Step(g, u, fun)]
    <3>4. ASSUME NEW u \in SUBSET D, Cardinality(u) =< n
          PROVE  Step(g, u, fun) = Step(f, u, fun)
      <4>1. CASE u = {}
        BY <4>1 DEF Step
      <4>2. CASE u # {}
        <5> DEFINE w == u \ {Chosen(u)}
        <5>1. w \in SUBSET D /\ Cardinality(w) =< n - 1
          BY <2>2, <3>4, <4>2, ChosenRest
        <5>2. g[w] = Step(g, w, fun)
          BY <3>3, <5>1
        <5>3. f[w] = g[w]
          BY <5>1, <5>2
        <5> QED
          BY <4>2, <5>3 DEF Step
      <4> QED
        BY <4>1, <4>2
    <3>5. f = [u \in SUBSET D |-> f[u]]
      OBVIOUS
    <3>6. \A u \in SUBSET D : Cardinality(u) =< n => f[u] = Step(f, u, fun)
      BY <3>4
    <3>7. Upto(n, f)
      BY <3>5, <3>6
    <3> QED
      BY <2>2, <3>7
  <2> QED
    BY <2>3, <2>4
<1>2. Cardinality(D) \in Nat /\ \A u \in SUBSET D : Cardinality(u) =< Cardinality(D)
  BY FS_CardinalityType, FS_Subset
<1>3. PICK f : Upto(Cardinality(D), f)
  <2> HIDE DEF Upto
  <2> QED
    BY <1>1, <1>2
<1>4. f = [u \in SUBSET D |-> Step(f, u, fun)]
  <2>1. \A u \in SUBSET D : f[u] = Step(f, u, fun)
    BY <1>2, <1>3
  <2> QED
    BY <1>3, <2>1
<1>5. \E h : h = [u \in SUBSET DOMAIN fun |-> Step(h, u, fun)]
  BY <1>4
<1> QED
  BY <1>5 DEF Sums

(* Sums of naturals are naturals, and a sum grows with its summands.       *)
LEMMA SumsGrow ==
    ASSUME NEW D, IsFiniteSet(D), NEW f \in [D -> Nat], NEW g \in [D -> Nat],
           \A i \in D : f[i] =< g[i], NEW v \in SUBSET D
    PROVE  Sums(f)[v] \in Nat /\ Sums(g)[v] \in Nat /\ Sums(f)[v] =< Sums(g)[v]
<1> DEFINE F == Sums(f)
           G == Sums(g)
           Good(u) == F[u] \in Nat /\ G[u] \in Nat /\ F[u] =< G[u]
           Bad == {n \in Nat : \E u \in SUBSET D : Cardinality(u) = n /\ ~ Good(u)}
<1>1. /\ DOMAIN f = D /\ DOMAIN g = D
      /\ F = [u \in SUBSET D |-> Step(F, u, f)]
      /\ G = [u \in SUBSET D |-> Step(G, u, g)]
  <2>1. DOMAIN f = D /\ DOMAIN g = D
    OBVIOUS
  <2>2. F = [u \in SUBSET DOMAIN f |-> Step(F, u, f)]
    BY <2>1, SumsExist
  <2>3. G = [u \in SUBSET DOMAIN g |-> Step(G, u, g)]
    BY <2>1, SumsExist
  <2> QED
    BY <2>1, <2>2, <2>3
<1> HIDE DEF F, G
<1>2. ASSUME NEW u \in SUBSET D, u = {} \/ Good(u \ {Chosen(u)})
      PROVE  Good(u)
  <2>1. F[u] = Step(F, u, f) /\ G[u] = Step(G, u, g)
    BY <1>1
  <2>2. CASE u = {}
    BY <2>1, <2>2 DEF Step
  <2>3. CASE u # {}
    <3> DEFINE x == Chosen(u)
               w == u \ {x}
    <3>1. x \in D
      BY <2>3, ChosenRest
    <3>2. f[x] \in Nat /\ g[x] \in Nat /\ f[x] =< g[x]
      BY <3>1
    <3>3. F[u] = f[x] + F[w] /\ G[u] = g[x] + G[w]
      BY <2>1, <2>3 DEF Step
    <3>4. Good(w)
      BY <1>2, <2>3
    <3> HIDE DEF x, w
    <3> QED
      BY <3>2, <3>3, <3>4
  <2> QED
    BY <2>2, <2>3
<1>3. Bad = {}
  <2> SUFFICES ASSUME Bad # {} PROVE FALSE
    OBVIOUS
  <2>1. PICK n \in Bad : \A m \in Bad : n =< m
    <3>1. Bad \in SUBSET Nat
      OBVIOUS
    <3> HIDE DEF Bad
    <3> QED
      BY <3>1, LeastNat
  <2>2. PICK u \in SUBSET D : Cardinality(u) = n /\ ~ Good(u)
    BY <2>1
  <2>3. u # {} /\ ~ Good(u \ {Chosen(u)})
    BY <1>2, <2>2
  <2>4. u \ {Chosen(u)} \in SUBSET D /\ n \in Nat /\ Cardinality(u \ {Chosen(u)}) = n - 1
    BY <2>2, <2>3, ChosenRest
  <2>5. n - 1 \in Nat /\ ~ (n =< n - 1)
    <3>1. u \ {Chosen(u)} \in SUBSET D
      BY <2>4
    <3>2. Cardinality(u \ {Chosen(u)}) \in Nat
      BY <3>1, FS_Subset, FS_CardinalityType
    <3> QED
      BY <2>4, <3>2
  <2>6. n - 1 \in Bad
    BY <2>3, <2>4, <2>5
  <2> QED
    <3> HIDE DEF Bad
    <3> QED
      BY <2>1, <2>5, <2>6
<1>4. Cardinality(v) \in Nat
  BY FS_Subset, FS_CardinalityType
<1>5. Good(v)
  BY <1>3, <1>4
<1> QED
  BY <1>5 DEF F, G

LEMMA SumGrows ==
    ASSUME NEW D, IsFiniteSet(D), NEW f \in [D -> Nat], NEW g \in [D -> Nat],
           \A i \in D : f[i] =< g[i]
    PROVE  /\ SumFunction(f) \in Nat /\ SumFunction(g) \in Nat
           /\ SumFunction(f) =< SumFunction(g)
<1>1. DOMAIN f = D /\ DOMAIN g = D /\ D \in SUBSET D
  OBVIOUS
<1>2. SumFunction(f) = Sums(f)[D] /\ SumFunction(g) = Sums(g)[D]
  BY <1>1, SumLoops
<1> QED
  BY <1>1, <1>2, SumsGrow

(* A sum of positive numbers is positive.                                  *)
LEMMA SumPositive ==
    ASSUME NEW D, IsFiniteSet(D), D # {}, NEW f \in [D -> Nat \ {0}]
    PROVE  SumFunction(f) \in Nat \ {0}
<1> DEFINE F == Sums(f)
           x == Chosen(D)
           w == D \ {x}
<1>1. DOMAIN f = D /\ f \in [D -> Nat] /\ (\A i \in D : f[i] =< f[i]) /\ D \in SUBSET D
  OBVIOUS
<1>2. x \in D /\ w \in SUBSET D
  BY <1>1, ChosenRest
<1>3. F[w] \in Nat
  BY <1>1, <1>2, SumsGrow
<1>4. F = [u \in SUBSET D |-> Step(F, u, f)]
  <2>1. F = [u \in SUBSET DOMAIN f |-> Step(F, u, f)]
    BY <1>1, SumsExist
  <2> QED
    BY <1>1, <2>1
<1>5. F[D] = f[x] + F[w]
  <2> HIDE DEF F
  <2> QED
    BY <1>1, <1>4 DEF Step
<1>6. f[x] \in Nat \ {0}
  BY <1>2
<1>7. SumFunction(f) = F[D]
  BY <1>1, SumLoops
<1> HIDE DEF F, x, w
<1> QED
  BY <1>3, <1>5, <1>6, <1>7

-----------------------------------------------------------------------------
(* Grades.                                                                 *)

LEMMA Quotient ==
    ASSUME NEW a \in Nat, NEW b \in Nat \ {0}
    PROVE  a \div b \in Nat
  OBVIOUS

LEMMA Product == ASSUME NEW a \in Nat, NEW b \in Nat PROVE a * b \in Nat
  OBVIOUS

LEMMA ProductGrows ==
    ASSUME NEW w \in Nat, NEW a \in Nat, NEW b \in Nat, a =< b
    PROVE  w * a =< w * b
  OBVIOUS

(* The score of a rule grader is a number: its weights have a sum to       *)
(* divide by.                                                              *)
LEMMA RulesScore ==
    ASSUME NEW output
    PROVE  RuleResult(Rules, output).score \in Nat
<1> DEFINE holds == {id \in DOMAIN Rules : Matches(Rules[id], output[Rules[id].path])}
           part == [id \in holds |-> Rules[id].weight]
           all == [id \in DOMAIN Rules |-> Rules[id].weight]
<1>1. /\ part \in [holds -> Nat] /\ \A id \in holds : part[id] =< part[id]
      /\ all \in [DOMAIN Rules -> Nat \ {0}]
  BY GradingAssumption
<1>2. IsFiniteSet(holds)
  BY GradingAssumption, FS_Subset
<1>3. SumFunction(part) \in Nat
  <2> HIDE DEF part, holds
  <2> QED
    BY <1>1, <1>2, SumGrows
<1>4. SumFunction(all) \in Nat \ {0}
  <2> HIDE DEF all
  <2> QED
    BY <1>1, GradingAssumption, SumPositive
<1>5. RuleResult(Rules, output).score = (Scale * SumFunction(part)) \div SumFunction(all)
  BY DEF RuleResult
<1>6. Scale * SumFunction(part) \in Nat
  BY <1>3, Product, ScaleAssumption
<1> QED
  BY <1>4, <1>5, <1>6, Quotient

(* What a policy has passed it passes again when no result has become      *)
(* worse.                                                                  *)
LEMMA BetterPasses ==
    ASSUME NEW policy \in Policies, NEW D, IsFiniteSet(D), NEW r, NEW s,
           DOMAIN r = D, DOMAIN s = D,
           \A g \in D : r[g].score \in Nat /\ s[g].score \in Nat /\ Better(r[g], s[g]),
           Aggregate(policy, r) = "passed"
    PROVE  Aggregate(policy, s) = "passed"
<1> DEFINE W(g) == WeightOf(policy, g)
           total == SumFunction([g \in D |-> W(g)])
           R == [g \in D |-> W(g) * r[g].score]
           S == [g \in D |-> W(g) * s[g].score]
<1>1. /\ ~ (total =< 0 \/ \E g \in D : W(g) < 0)
      /\ SumFunction(R) >= policy.threshold * total
      /\ \A c \in policy.required : ConstraintPassed(c, r)
  <2>1. Aggregate(policy, r) = "passed"
    OBVIOUS
  <2> QED
    BY <2>1 DEF Aggregate
<1>2. \A g \in D : W(g) \in Nat
  <2>1. \A g \in D : W(g) \in Int
    BY GradingAssumption DEF WeightOf
  <2> HIDE DEF W
  <2> QED
    BY <1>1, <2>1
<1>3. R \in [D -> Nat] /\ S \in [D -> Nat] /\ \A g \in D : R[g] =< S[g]
  <2> SUFFICES ASSUME NEW g \in D
               PROVE  /\ W(g) * r[g].score \in Nat /\ W(g) * s[g].score \in Nat
                      /\ W(g) * r[g].score =< W(g) * s[g].score
    OBVIOUS
  <2>1. W(g) \in Nat /\ r[g].score \in Nat /\ s[g].score \in Nat /\ r[g].score =< s[g].score
    BY <1>2 DEF Better
  <2> HIDE DEF W
  <2> QED
    BY <2>1, Product, ProductGrows
<1>4. SumFunction(R) \in Nat /\ SumFunction(S) \in Nat /\ SumFunction(R) =< SumFunction(S)
  <2> HIDE DEF R, S
  <2> QED
    BY <1>3, SumGrows
<1>5. policy.threshold * total \in Nat
  <2> DEFINE T == [g \in D |-> W(g)]
  <2>1. T \in [D -> Nat] /\ \A g \in D : T[g] =< T[g]
    BY <1>2
  <2>2. SumFunction(T) \in Nat
    <3> HIDE DEF T
    <3> QED
      BY <2>1, SumGrows
  <2> HIDE DEF W
  <2> QED
    BY <2>2, Product, GradingAssumption
<1>6. SumFunction(S) >= policy.threshold * total
  <2> HIDE DEF R, S, total
  <2> QED
    BY <1>1, <1>4, <1>5
<1>7. \A c \in policy.required : ConstraintPassed(c, s)
  <2> SUFFICES ASSUME NEW c \in policy.required PROVE ConstraintPassed(c, s)
    OBVIOUS
  <2>1. ConstraintPassed(c, r)
    BY <1>1
  <2> QED
    BY <2>1 DEF ConstraintPassed, Better
<1>8. ~ (total =< 0 \/ \E g \in DOMAIN s : WeightOf(policy, g) < 0)
  BY <1>1
<1> QED
  BY <1>6, <1>7, <1>8 DEF Aggregate

(* Theorem.  A grader cannot buy what another one denies, and no grader is *)
(* rewarded for a worse answer (rules.py, policy.py): every evaluation     *)
(* that passes has its required constraints granted and not denied, and    *)
(* would have passed with any better result in place of the other          *)
(* grader's.                                                               *)
THEOREM GradesClosed == Spec => []GradesFailClosed
<1>1. Init => GradesFailClosed
  BY DEF Init, GradesFailClosed
<1>2. GradesFailClosed /\ [Next]_vars => GradesFailClosed'
  <2> SUFFICES ASSUME GradesFailClosed, [Next]_vars PROVE GradesFailClosed'
    OBVIOUS
  <2>1. CASE graded' = graded
    BY <2>1 DEF GradesFailClosed
  <2>2. CASE Evaluate
    <3>1. PICK output \in Outputs, verdict \in Verdicts, policy \in Policies :
              LET results == [rules |-> RuleResult(Rules, output), other |-> verdict]
              IN graded' = [policy   |-> policy,
                            results  |-> results,
                            decision |-> Aggregate(policy, results)]
      BY <2>2 DEF Evaluate
    <3> DEFINE r == [rules |-> RuleResult(Rules, output), other |-> verdict]
    <3>2. /\ graded'.policy = policy /\ graded'.results = r
          /\ graded'.decision = Aggregate(policy, r)
      BY <3>1
    <3> SUFFICES ASSUME Aggregate(policy, r) = "passed"
                 PROVE  /\ \A c \in policy.required :
                              /\ \E g \in DOMAIN r : c \in DOMAIN r[g].hard
                              /\ \A g \in DOMAIN r : c \in DOMAIN r[g].hard => r[g].hard[c]
                        /\ \A v \in Verdicts :
                              Better(r.other, v) =>
                                  Aggregate(policy, [r EXCEPT !.other = v]) = "passed"
      <4> HIDE DEF r
      <4> QED
        BY <3>2 DEF GradesFailClosed
    <3>3. \A c \in policy.required : ConstraintPassed(c, r)
      <4> HIDE DEF r
      <4> QED
        BY DEF Aggregate
    <3>4. ASSUME NEW v \in Verdicts, Better(r.other, v)
          PROVE  Aggregate(policy, [r EXCEPT !.other = v]) = "passed"
      <4> DEFINE s == [r EXCEPT !.other = v]
                 D == {"rules", "other"}
      <4>1. DOMAIN r = D /\ DOMAIN s = D /\ IsFiniteSet(D)
        <5>1. IsFiniteSet({"other"}) /\ D = {"other"} \cup {"rules"}
          BY FS_Singleton
        <5>2. IsFiniteSet(D)
          BY <5>1, FS_AddElement
        <5>3. DOMAIN r = D /\ DOMAIN s = D
          OBVIOUS
        <5> QED
          BY <5>2, <5>3
      <4>2. /\ r["rules"].score \in Nat /\ s["rules"] = r["rules"]
            /\ r["other"].score \in Nat /\ s["other"] = v /\ v.score \in Nat
        BY RulesScore, GradingAssumption
      <4>3. Better(r["rules"], s["rules"]) /\ Better(r["other"], s["other"])
        <5>1. Better(r["other"], s["other"])
          BY <3>4, <4>2
        <5>2. Better(r["rules"], r["rules"])
          BY <4>2 DEF Better
        <5> QED
          BY <4>2, <5>1, <5>2
      <4>4. \A g \in D : r[g].score \in Nat /\ s[g].score \in Nat /\ Better(r[g], s[g])
        <5> HIDE DEF r, s
        <5> QED
          BY <4>2, <4>3
      <4>5. Aggregate(policy, s) = "passed"
        <5>1. Aggregate(policy, r) = "passed"
          OBVIOUS
        <5> HIDE DEF r, s, D
        <5> QED
          BY <4>1, <4>4, <5>1, BetterPasses
      <4> QED
        BY <4>5
    <3> HIDE DEF r
    <3> QED
      BY <3>3, <3>4 DEF ConstraintPassed
  <2>3. graded' = graded \/ Evaluate
    BY DEF Next, Evolve, Promote, Observe, vars
  <2> QED
    BY <2>1, <2>2, <2>3
<1> QED
  BY <1>1, <1>2, PTL DEF Spec

-----------------------------------------------------------------------------
(* Dictionaries and the paths in them.                                     *)

SomePath == Seq(Keys) \ {<<>>}

(* A strict prefix is shorter and agrees as far as it goes.                *)
LEMMA StrictPrefixIs ==
    ASSUME NEW p \in SomePath, NEW q \in SomePath
    PROVE  IsStrictPrefix(q, p) <=>
               Len(q) < Len(p) /\ \A i \in 1 .. Len(q) : q[i] = p[i]
<1>1. p \in Seq(Keys) /\ q \in Seq(Keys) /\ Len(p) \in Nat /\ Len(q) \in Nat
  BY LenProperties DEF SomePath
<1>2. SubSeq(q, 1, Len(q)) = q
  BY <1>1
<1>3. ASSUME IsStrictPrefix(q, p)
      PROVE  Len(q) < Len(p) /\ \A i \in 1 .. Len(q) : q[i] = p[i]
  <2>1. Len(q) =< Len(p) /\ q = SubSeq(p, 1, Len(q)) /\ q # p
    BY <1>2, <1>3 DEF IsStrictPrefix, IsPrefix
  <2>2. \A i \in 1 .. Len(q) : SubSeq(p, 1, Len(q))[i] = p[i]
    BY <1>1, <2>1
  <2>3. Len(q) # Len(p)
    BY <1>1, <2>1
  <2> QED
    BY <1>1, <2>1, <2>2, <2>3
<1>4. ASSUME Len(q) < Len(p), \A i \in 1 .. Len(q) : q[i] = p[i]
      PROVE  IsStrictPrefix(q, p)
  <2>1. SubSeq(p, 1, Len(q)) = q
    BY <1>1, <1>4
  <2>2. q # p
    BY <1>1, <1>4
  <2> QED
    BY <1>1, <1>2, <1>4, <2>1, <2>2 DEF IsStrictPrefix, IsPrefix
<1> QED
  BY <1>3, <1>4

(* What leads to a path of a dictionary leads to dictionaries.             *)
LEMMA OnTheWay ==
    ASSUME NEW d, IsDictionary(d), NEW p \in DOMAIN d, NEW q \in SomePath, IsStrictPrefix(q, p)
    PROVE  q \in DOMAIN d /\ d[q] = Dict
<1>1. p \in SomePath
  BY DEF IsDictionary, SomePath
<1>2. p \in Seq(Keys) /\ q \in Seq(Keys) /\ Len(p) \in Nat /\ Len(q) \in Nat /\ q # <<>>
  BY <1>1, LenProperties DEF SomePath
<1>3. Len(q) < Len(p) /\ q = SubSeq(p, 1, Len(q))
  <2>1. Len(q) < Len(p) /\ \A i \in 1 .. Len(q) : q[i] = p[i]
    BY <1>1, StrictPrefixIs
  <2> QED
    BY <1>2, <2>1
<1>4. Len(q) \in 1 .. Len(p) - 1
  BY <1>2, <1>3
<1> QED
  BY <1>3, <1>4 DEF IsDictionary

LEMMA DictionaryIs ==
    ASSUME NEW d, IsMap(d), DOMAIN d \in SUBSET SomePath,
           \A p \in DOMAIN d, q \in SomePath :
               IsStrictPrefix(q, p) => (q \in DOMAIN d /\ d[q] = Dict)
    PROVE  IsDictionary(d)
<1> SUFFICES ASSUME NEW p \in DOMAIN d, NEW i \in 1 .. Len(p) - 1
             PROVE  SubSeq(p, 1, i) \in DOMAIN d /\ d[SubSeq(p, 1, i)] = Dict
  BY DEF IsDictionary, SomePath
<1>1. p \in SomePath /\ p \in Seq(Keys) /\ Len(p) \in Nat
  BY LenProperties DEF SomePath
<1> DEFINE q == SubSeq(p, 1, i)
<1>2. q \in Seq(Keys) /\ Len(q) = i /\ \A j \in 1 .. i : q[j] = p[j]
  BY <1>1
<1>3. q \in SomePath /\ Len(q) < Len(p)
  BY <1>1, <1>2 DEF SomePath
<1>4. IsStrictPrefix(q, p)
  <2> HIDE DEF q
  <2> QED
    BY <1>1, <1>2, <1>3, StrictPrefixIs
<1> QED
  BY <1>3, <1>4

(* One prefix of a prefix is a prefix, and of two the shorter of the other. *)
LEMMA PrefixOfPrefix ==
    ASSUME NEW p \in SomePath, NEW q \in SomePath, NEW r \in SomePath,
           IsStrictPrefix(r, q), IsStrictPrefix(q, p)
    PROVE  IsStrictPrefix(r, p)
<1>1. Len(p) \in Nat /\ Len(q) \in Nat /\ Len(r) \in Nat
  BY LenProperties DEF SomePath
<1>2. Len(r) < Len(q) /\ Len(q) < Len(p)
  BY StrictPrefixIs
<1>3. \A i \in 1 .. Len(r) : r[i] = q[i] /\ i \in 1 .. Len(q)
  BY <1>1, <1>2, StrictPrefixIs
<1>4. \A i \in 1 .. Len(q) : q[i] = p[i]
  BY StrictPrefixIs
<1>5. Len(r) < Len(p) /\ \A i \in 1 .. Len(r) : r[i] = p[i]
  BY <1>1, <1>2, <1>3, <1>4
<1> QED
  BY <1>5, StrictPrefixIs

(* Merging dictionaries gives a dictionary.                                *)
LEMMA MergeIsDictionary ==
    ASSUME NEW base, NEW patch, IsDictionary(base), IsDictionary(patch)
    PROVE  IsDictionary(DeepMerge(base, patch))
<1> DEFINE new == DeepMerge(base, patch)
           Replaced(p) == \E q \in DOMAIN patch : IsStrictPrefix(q, p) /\ patch[q] # Dict
<1>1. /\ DOMAIN base \in SUBSET SomePath /\ DOMAIN patch \in SUBSET SomePath
      /\ IsMap(new)
      /\ \A p : p \in DOMAIN new <=> p \in DOMAIN patch \/ (p \in DOMAIN base /\ ~ Replaced(p))
      /\ \A p \in DOMAIN new : new[p] = IF p \in DOMAIN patch THEN patch[p] ELSE base[p]
  BY DEF IsDictionary, SomePath, DeepMerge, IsMap
<1> HIDE DEF new
<1>2. ASSUME NEW p \in DOMAIN new, NEW q \in SomePath, IsStrictPrefix(q, p)
      PROVE  q \in DOMAIN new /\ new[q] = Dict
  <2>1. CASE p \in DOMAIN patch
    <3>1. q \in DOMAIN patch /\ patch[q] = Dict
      BY <1>2, <2>1, OnTheWay
    <3> QED
      BY <1>1, <3>1
  <2>2. CASE p \notin DOMAIN patch
    <3>1. p \in DOMAIN base /\ ~ Replaced(p) /\ p \in SomePath
      BY <1>1, <2>2
    <3>2. q \in DOMAIN base /\ base[q] = Dict
      BY <1>2, <3>1, OnTheWay
    <3>3. ~ Replaced(q)
      <4> SUFFICES ASSUME NEW r \in DOMAIN patch, IsStrictPrefix(r, q), patch[r] # Dict
                   PROVE  FALSE
        OBVIOUS
      <4>1. r \in SomePath
        BY <1>1
      <4>2. IsStrictPrefix(r, p)
        BY <1>2, <3>1, <4>1, PrefixOfPrefix
      <4> QED
        BY <3>1, <4>2
    <3>4. q \in DOMAIN patch => patch[q] = Dict
      BY <1>2, <3>1
    <3> HIDE DEF Replaced
    <3> QED
      BY <1>1, <3>2, <3>3, <3>4
  <2> QED
    BY <2>1, <2>2
<1>3. DOMAIN new \in SUBSET SomePath
  BY <1>1
<1>4. IsDictionary(new)
  BY <1>1, <1>2, <1>3, DictionaryIs
<1> QED
  BY <1>4 DEF new

(* The path of an entry of the dictionary at key k.                        *)
LEMMA UnderKey ==
    ASSUME NEW k \in Keys, NEW q \in SomePath
    PROVE  /\ <<k>> \in SomePath /\ Len(<<k>>) = 1
           /\ <<k>> \o q \in SomePath /\ (<<k>> \o q)[1] = k
           /\ Len(<<k>> \o q) = Len(q) + 1 /\ Len(q) \in Nat \ {0}
           /\ \A i \in 1 .. Len(q) : (<<k>> \o q)[i + 1] = q[i]
           /\ Tail(<<k>> \o q) = q
<1>1. q \in Seq(Keys) /\ q # <<>> /\ <<k>> \in Seq(Keys) /\ Len(<<k>>) = 1 /\ <<k>>[1] = k
  BY DEF SomePath
<1>2. Len(q) \in Nat \ {0}
  BY <1>1, LenProperties
<1> DEFINE x == <<k>> \o q
<1>3. /\ x \in Seq(Keys) /\ Len(x) = 1 + Len(q)
      /\ \A i \in 1 .. Len(x) : x[i] = IF i =< 1 THEN <<k>>[i] ELSE q[i - 1]
  BY <1>1, ConcatProperties
<1>4. x[1] = k /\ x # <<>> /\ \A i \in 1 .. Len(q) : x[i + 1] = q[i]
  BY <1>1, <1>2, <1>3
<1>5. /\ Tail(x) \in Seq(Keys) /\ Len(Tail(x)) = Len(x) - 1
      /\ \A i \in 1 .. Len(Tail(x)) : Tail(x)[i] = x[i + 1]
  BY <1>3, <1>4, HeadTailProperties
<1>6. Tail(x) = q
  <2> HIDE DEF x
  <2>1. Len(Tail(x)) = Len(q) /\ \A i \in 1 .. Len(q) : Tail(x)[i] = q[i]
    BY <1>2, <1>3, <1>4, <1>5
  <2> QED
    BY <1>1, <1>5, <2>1, SeqEqual
<1> QED
  BY <1>1, <1>2, <1>3, <1>4, <1>6 DEF SomePath

(* A path is its first key, or goes on from there.                         *)
LEMMA FirstKey ==
    ASSUME NEW p \in SomePath
    PROVE  /\ p[1] \in Keys
           /\ Len(p) =< 1 => p = <<p[1]>>
           /\ Len(p) > 1 =>
                 /\ Tail(p) \in SomePath /\ p = <<p[1]>> \o Tail(p)
                 /\ IsStrictPrefix(<<p[1]>>, p)
<1>1. p \in Seq(Keys) /\ p # <<>> /\ Len(p) \in Nat \ {0} /\ p[1] \in Keys
  <2>1. p \in Seq(Keys) /\ p # <<>> /\ Len(p) \in Nat
    BY LenProperties DEF SomePath
  <2>2. Len(p) # 0
    BY <2>1, EmptySeq
  <2>3. p[1] \in Keys
    BY <2>1, <2>2, ElementOfSeq
  <2> QED
    BY <2>1, <2>2, <2>3
<1>2. <<p[1]>> \in SomePath /\ Len(<<p[1]>>) = 1 /\ <<p[1]>>[1] = p[1]
  BY <1>1 DEF SomePath
<1> DEFINE n == Len(p)
<1>n. n \in Nat \ {0}
  BY <1>1
<1>3. CASE n =< 1
  <2>1. n = 1
    <3> HIDE DEF n
    <3> QED
      BY <1>n, <1>3
  <2>2. \A i \in 1 .. 1 : p[i] = <<p[1]>>[i]
    OBVIOUS
  <2>3. p = <<p[1]>>
    BY <1>1, <1>2, <2>1, <2>2, SeqEqual DEF SomePath
  <2> QED
    BY <1>1, <1>3, <2>3
<1>4. CASE n > 1
  <2> DEFINE t == Tail(p)
  <2>1. t \in Seq(Keys) /\ Len(t) = Len(p) - 1 /\ \A i \in 1 .. Len(t) : t[i] = p[i + 1]
    BY <1>1, HeadTailProperties
  <2>2. t \in SomePath
    <3>1. Len(t) # 0
      <4>1. n - 1 # 0
        <5> HIDE DEF n
        <5> QED
          BY <1>n, <1>4
      <4> QED
        BY <2>1, <4>1
    <3>2. t # <<>>
      <4> HIDE DEF t
      <4> QED
        BY <3>1, EmptySeq
    <3> QED
      BY <2>1, <3>2 DEF SomePath
  <2> DEFINE x == <<p[1]>> \o t
  <2>3. /\ x \in SomePath /\ x[1] = p[1] /\ Len(x) = Len(p)
        /\ \A i \in 1 .. Len(t) : x[i + 1] = p[i + 1]
    <3> HIDE DEF t
    <3> QED
      BY <1>1, <2>1, <2>2, UnderKey
  <2>4. \A i \in 1 .. Len(p) : x[i] = p[i]
    <3> SUFFICES ASSUME NEW i \in 1 .. Len(p), i # 1 PROVE x[i] = p[i]
      BY <2>3
    <3>1. i - 1 \in 1 .. Len(t) /\ (i - 1) + 1 = i
      BY <1>1, <2>1
    <3> HIDE DEF x, t
    <3> QED
      BY <2>3, <3>1
  <2>5. x = p
    <3> HIDE DEF x
    <3> QED
      BY <1>1, <2>3, <2>4, SeqEqual DEF SomePath
  <2>6. IsStrictPrefix(<<p[1]>>, p)
    <3> DEFINE q == <<p[1]>>
    <3>1. q \in SomePath /\ Len(q) = 1 /\ q[1] = p[1]
      BY <1>2
    <3> HIDE DEF q
    <3>2. Len(q) < Len(p) /\ \A i \in 1 .. Len(q) : q[i] = p[i]
      BY <1>4, <3>1
    <3>3. IsStrictPrefix(q, p)
      BY <3>1, <3>2, StrictPrefixIs
    <3> QED
      BY <3>3 DEF q
  <2> QED
    BY <1>1, <1>4, <2>2, <2>5, <2>6
<1> QED
  BY <1>1, <1>3, <1>4

LEMMA UnderKeyPrefix ==
    ASSUME NEW k \in Keys, NEW p \in SomePath, NEW q \in SomePath
    PROVE  IsStrictPrefix(<<k>> \o q, <<k>> \o p) <=> IsStrictPrefix(q, p)
<1> DEFINE x == <<k>> \o p
           y == <<k>> \o q
<1>1. /\ x \in SomePath /\ x[1] = k /\ Len(x) = Len(p) + 1 /\ Len(p) \in Nat
      /\ \A i \in 1 .. Len(p) : x[i + 1] = p[i]
  BY UnderKey
<1>2. /\ y \in SomePath /\ y[1] = k /\ Len(y) = Len(q) + 1 /\ Len(q) \in Nat
      /\ \A i \in 1 .. Len(q) : y[i + 1] = q[i]
  BY UnderKey
<1> HIDE DEF x, y
<1>3. IsStrictPrefix(y, x) <=> Len(y) < Len(x) /\ \A i \in 1 .. Len(y) : y[i] = x[i]
  BY <1>1, <1>2, StrictPrefixIs
<1>4. IsStrictPrefix(q, p) <=> Len(q) < Len(p) /\ \A i \in 1 .. Len(q) : q[i] = p[i]
  BY StrictPrefixIs
<1>5. ASSUME IsStrictPrefix(y, x) PROVE IsStrictPrefix(q, p)
  <2>1. Len(q) < Len(p)
    BY <1>1, <1>2, <1>3, <1>5
  <2>2. ASSUME NEW i \in 1 .. Len(q) PROVE q[i] = p[i]
    <3>1. i + 1 \in 1 .. Len(y) /\ i \in 1 .. Len(p)
      BY <1>1, <1>2, <2>1
    <3> QED
      BY <1>1, <1>2, <1>3, <1>5, <3>1
  <2> QED
    BY <1>4, <2>1, <2>2
<1>6. ASSUME IsStrictPrefix(q, p) PROVE IsStrictPrefix(y, x)
  <2>1. Len(y) < Len(x) /\ Len(q) < Len(p)
    BY <1>1, <1>2, <1>4, <1>6
  <2>2. ASSUME NEW i \in 1 .. Len(y), i # 1 PROVE y[i] = x[i]
    <3> DEFINE j == i - 1
    <3>1. j \in 1 .. Len(q) /\ j \in 1 .. Len(p) /\ j + 1 = i
      BY <1>1, <1>2, <2>1, <2>2
    <3> HIDE DEF j
    <3>2. y[j + 1] = q[j] /\ x[j + 1] = p[j] /\ q[j] = p[j]
      BY <1>1, <1>2, <1>4, <1>6, <3>1
    <3> QED
      BY <3>1, <3>2
  <2> QED
    BY <1>1, <1>2, <1>3, <2>1, <2>2
<1>7. IsStrictPrefix(y, x) <=> IsStrictPrefix(q, p)
  BY <1>5, <1>6
<1> QED
  BY <1>7 DEF x, y

(* What is within a dictionary at key k, path by path.                     *)
LEMMA WithinIs ==
    ASSUME NEW d, DOMAIN d \in SUBSET SomePath, NEW k \in Keys
    PROVE  /\ Within(d, k) = [q \in DOMAIN Within(d, k) |-> d[<<k>> \o q]]
           /\ DOMAIN Within(d, k) = {q \in SomePath : <<k>> \o q \in DOMAIN d}
<1> DEFINE S == {Tail(p) : p \in {p \in DOMAIN d : p[1] = k /\ Len(p) > 1}}
<1>1. Within(d, k) = [q \in S |-> d[<<k>> \o q]]
  BY DEF Within
<1>2. ASSUME NEW p \in DOMAIN d, p[1] = k, Len(p) > 1
      PROVE  Tail(p) \in SomePath /\ <<k>> \o Tail(p) \in DOMAIN d
  BY <1>2, FirstKey
<1>3. ASSUME NEW q \in SomePath, <<k>> \o q \in DOMAIN d
      PROVE  q \in S
  <2> DEFINE x == <<k>> \o q
  <2>1. x \in DOMAIN d /\ x[1] = k /\ Len(x) > 1 /\ Tail(x) = q
    BY <1>3, UnderKey
  <2> HIDE DEF x
  <2> QED
    BY <2>1
<1>4. \A q : q \in S <=> (q \in SomePath /\ <<k>> \o q \in DOMAIN d)
  BY <1>2, <1>3
<1>5. DOMAIN Within(d, k) = S
  BY <1>1
<1> HIDE DEF S
<1> QED
  BY <1>1, <1>4, <1>5

(* Dictionaries that agree on all paths from k have the same value there.  *)
LEMMA SameValue ==
    ASSUME NEW d, NEW e, DOMAIN d \in SUBSET SomePath, DOMAIN e \in SUBSET SomePath,
           NEW k \in Keys,
           \A x \in SomePath : x[1] = k =>
               /\ x \in DOMAIN d <=> x \in DOMAIN e
               /\ x \in DOMAIN d => d[x] = e[x]
    PROVE  Value(d, k) = Value(e, k)
<1>1. <<k>> \in SomePath /\ <<k>>[1] = k
  BY DEF SomePath
<1>2. \A q \in SomePath : <<k>> \o q \in SomePath /\ (<<k>> \o q)[1] = k
  BY UnderKey
<1> DEFINE D == Within(d, k)
           E == Within(e, k)
<1>3. /\ D = [q \in DOMAIN D |-> d[<<k>> \o q]]
      /\ DOMAIN D = {q \in SomePath : <<k>> \o q \in DOMAIN d}
      /\ E = [q \in DOMAIN E |-> e[<<k>> \o q]]
      /\ DOMAIN E = {q \in SomePath : <<k>> \o q \in DOMAIN e}
  BY WithinIs
<1> HIDE DEF D, E
<1>4. DOMAIN D = DOMAIN E /\ \A q \in DOMAIN D : d[<<k>> \o q] = e[<<k>> \o q]
  BY <1>2, <1>3
<1>5. Within(d, k) = Within(e, k)
  <2>1. D = E
    BY <1>3, <1>4
  <2> QED
    BY <2>1 DEF D, E
<1>6. {d[p] : p \in DOMAIN d \cap {<<k>>}} = {e[p] : p \in DOMAIN e \cap {<<k>>}}
  BY <1>1
<1> QED
  BY <1>5, <1>6 DEF Value

(* The merge by paths is the merge by keys, all the way down: at each key  *)
(* it does what one turn of the code's recursion does.                     *)
LEMMA MergeRecurs ==
    ASSUME NEW base, NEW patch, IsDictionary(base), IsDictionary(patch)
    PROVE  MergedDeeply(base, patch, DeepMerge(base, patch))
<1> DEFINE new == DeepMerge(base, patch)
           Replaced(p) == \E q \in DOMAIN patch : IsStrictPrefix(q, p) /\ patch[q] # Dict
<1>1. /\ DOMAIN base \in SUBSET SomePath /\ DOMAIN patch \in SUBSET SomePath
      /\ \A p : p \in DOMAIN new <=> p \in DOMAIN patch \/ (p \in DOMAIN base /\ ~ Replaced(p))
      /\ \A p \in DOMAIN new : new[p] = IF p \in DOMAIN patch THEN patch[p] ELSE base[p]
  BY DEF IsDictionary, SomePath, DeepMerge
<1>2. DOMAIN new \in SUBSET SomePath
  <2> HIDE DEF new
  <2> QED
    BY <1>1
<1> SUFFICES ASSUME NEW k \in Keys
             PROVE  Value(new, k) =
                        IF <<k>> \notin DOMAIN patch THEN Value(base, k)
                        ELSE IF IsNested(base, k) /\ IsNested(patch, k)
                        THEN [is     |-> {Dict},
                              within |-> DeepMerge(Within(base, k), Within(patch, k))]
                        ELSE Value(patch, k)
  BY DEF MergedDeeply
<1>3. <<k>> \in SomePath /\ <<k>>[1] = k
  BY DEF SomePath
<1>4. \A x \in SomePath : x[1] = k => x = <<k>> \/ IsStrictPrefix(<<k>>, x)
  <2> SUFFICES ASSUME NEW x \in SomePath, x[1] = k
               PROVE  x = <<k>> \/ IsStrictPrefix(<<k>>, x)
    OBVIOUS
  <2>1. Len(x) =< 1 \/ Len(x) > 1
    BY LenProperties DEF SomePath
  <2> QED
    BY <2>1, FirstKey
<1>5. \A x, q \in SomePath : IsStrictPrefix(q, x) => q[1] = x[1]
  <2> SUFFICES ASSUME NEW x \in SomePath, NEW q \in SomePath, IsStrictPrefix(q, x)
               PROVE  q[1] = x[1]
    OBVIOUS
  <2>1. Len(q) \in Nat \ {0}
    BY EmptySeq DEF SomePath
  <2>2. 1 \in 1 .. Len(q)
    BY <2>1
  <2> QED
    BY <2>2, StrictPrefixIs
<1> DEFINE N == <<k>>
<1>6. CASE N \notin DOMAIN patch
  <2>1. \A x \in SomePath : x[1] = k => x \notin DOMAIN patch
    BY <1>3, <1>4, <1>6, OnTheWay
  <2>2. \A x \in SomePath : x[1] = k => ~ Replaced(x)
    BY <1>1, <1>5, <2>1
  <2>3. \A x \in SomePath : x[1] = k =>
            /\ x \in DOMAIN new <=> x \in DOMAIN base
            /\ x \in DOMAIN new => new[x] = base[x]
    <3> HIDE DEF new, Replaced
    <3> QED
      BY <1>1, <2>1, <2>2
  <2>4. Value(new, k) = Value(base, k)
    <3> HIDE DEF new
    <3> QED
      BY <1>1, <1>2, <2>3, SameValue
  <2> QED
    BY <1>6, <2>4
<1>7. CASE N \in DOMAIN patch /\ ~ (IsNested(base, k) /\ IsNested(patch, k))
  <2>1. ASSUME NEW x \in SomePath, x[1] = k, x \in DOMAIN base, x \notin DOMAIN patch
        PROVE  Replaced(x)
    <3>1. x # N
      BY <1>7, <2>1
    <3>2. IsStrictPrefix(N, x)
      BY <1>4, <2>1, <3>1
    <3>3. N \in DOMAIN base /\ base[N] = Dict
      BY <1>3, <2>1, <3>2, OnTheWay
    <3>4. patch[N] # Dict
      BY <1>7, <3>3 DEF IsNested
    <3> QED
      BY <1>7, <3>2, <3>4
  <2>2. \A x \in SomePath : x[1] = k =>
            /\ x \in DOMAIN new <=> x \in DOMAIN patch
            /\ x \in DOMAIN new => new[x] = patch[x]
    <3> HIDE DEF new, Replaced
    <3> QED
      BY <1>1, <2>1
  <2>3. Value(new, k) = Value(patch, k)
    <3> HIDE DEF new
    <3> QED
      BY <1>1, <1>2, <2>2, SameValue
  <2> QED
    BY <1>7, <2>3
<1>8. CASE N \in DOMAIN patch /\ IsNested(base, k) /\ IsNested(patch, k)
  <2> DEFINE B == Within(base, k)
             P == Within(patch, k)
             W == Within(new, k)
             M == DeepMerge(B, P)
             Gone(p) == \E q \in DOMAIN P : IsStrictPrefix(q, p) /\ P[q] # Dict
  <2>1. /\ DOMAIN B = {q \in SomePath : N \o q \in DOMAIN base}
        /\ \A q \in DOMAIN B : B[q] = base[N \o q]
        /\ DOMAIN P = {q \in SomePath : N \o q \in DOMAIN patch}
        /\ \A q \in DOMAIN P : P[q] = patch[N \o q]
        /\ W = [q \in DOMAIN W |-> new[N \o q]]
        /\ DOMAIN W = {q \in SomePath : N \o q \in DOMAIN new}
    <3>1. DOMAIN B = {q \in SomePath : N \o q \in DOMAIN base} /\ B = [q \in DOMAIN B |-> base[N \o q]]
      BY <1>1, WithinIs
    <3>2. DOMAIN P = {q \in SomePath : N \o q \in DOMAIN patch} /\ P = [q \in DOMAIN P |-> patch[N \o q]]
      BY <1>1, WithinIs
    <3>3. DOMAIN W = {q \in SomePath : N \o q \in DOMAIN new} /\ W = [q \in DOMAIN W |-> new[N \o q]]
      <4> HIDE DEF new
      <4> QED
        BY <1>2, WithinIs
    <3> HIDE DEF B, P, W, N
    <3> QED
      BY <3>1, <3>2, <3>3
  <2>2. /\ M = [q \in DOMAIN M |-> IF q \in DOMAIN P THEN P[q] ELSE B[q]]
        /\ \A q : q \in DOMAIN M <=> q \in DOMAIN P \/ (q \in DOMAIN B /\ ~ Gone(q))
    <3> HIDE DEF B, P
    <3> QED
      BY DEF DeepMerge
  <2>3. ASSUME NEW q \in SomePath
        PROVE  Replaced(N \o q) <=> Gone(q)
    <3> DEFINE x == N \o q
    <3>1. x \in SomePath /\ x[1] = k
      BY UnderKey
    <3>2. ASSUME Replaced(x) PROVE Gone(q)
      <4>1. PICK z \in DOMAIN patch : IsStrictPrefix(z, x) /\ patch[z] # Dict
        BY <3>2
      <4>2. z \in SomePath /\ z[1] = k /\ z # N
        <5> HIDE DEF x
        <5> QED
          BY <1>1, <1>5, <1>8, <3>1, <4>1 DEF IsNested
      <4>3. Len(z) > 1
        <5> DEFINE n == Len(z)
        <5>1. n \in Nat
          BY <4>2, LenProperties DEF SomePath
        <5>2. ~ (n =< 1)
          BY <4>2, FirstKey
        <5>3. n > 1
          <6> HIDE DEF n
          <6> QED
            BY <5>1, <5>2
        <5> QED
          BY <5>3
      <4> DEFINE t == Tail(z)
      <4>4. t \in SomePath /\ z = N \o t
        BY <4>2, <4>3, FirstKey
      <4>5. IsStrictPrefix(t, q)
        <5> HIDE DEF t
        <5> QED
          BY <4>1, <4>4, UnderKeyPrefix
      <4>6. t \in DOMAIN P /\ P[t] # Dict
        <5> HIDE DEF t, P, B, W, N
        <5> QED
          BY <2>1, <4>1, <4>4
      <4> QED
        BY <4>5, <4>6
    <3>3. ASSUME Gone(q) PROVE Replaced(x)
      <4>1. PICK t \in DOMAIN P : IsStrictPrefix(t, q) /\ P[t] # Dict
        BY <3>3
      <4>2. t \in SomePath /\ N \o t \in DOMAIN patch /\ patch[N \o t] # Dict
        <5> HIDE DEF P, B, W, N
        <5> QED
          BY <2>1, <4>1
      <4>3. IsStrictPrefix(N \o t, x)
        BY <4>1, <4>2, UnderKeyPrefix
      <4> QED
        BY <4>2, <4>3
    <3> QED
      BY <3>2, <3>3
  <2>4. ASSUME NEW q \in SomePath
        PROVE  /\ q \in DOMAIN W <=> q \in DOMAIN M
               /\ q \in DOMAIN W => W[q] = M[q]
    <3> HIDE DEF new, W, M, B, P, Replaced, Gone, N
    <3>1. q \in DOMAIN W <=> q \in DOMAIN M
      BY <1>1, <2>1, <2>2, <2>3
    <3> QED
      BY <1>1, <2>1, <2>2, <3>1
  <2>5. DOMAIN W = DOMAIN M
    <3>1. \A q : q \in DOMAIN W \/ q \in DOMAIN M => q \in SomePath
      <4> HIDE DEF W, M, B, P, Gone, N
      <4> QED
        BY <2>1, <2>2
    <3> HIDE DEF W, M
    <3> QED
      BY <2>4, <3>1
  <2>6. W = M
    <3> HIDE DEF W, M, B, P, Gone, N, new
    <3> QED
      BY <2>1, <2>2, <2>4, <2>5
  <2>7. N \in DOMAIN new /\ new[N] = Dict
    <3> HIDE DEF new
    <3> QED
      BY <1>1, <1>8 DEF IsNested
  <2>8. {new[p] : p \in DOMAIN new \cap {N}} = {Dict}
    <3> HIDE DEF new, N
    <3> QED
      BY <2>7
  <2>9. Value(new, k) = [is |-> {Dict}, within |-> M]
    BY <2>6, <2>8 DEF Value
  <2> QED
    BY <1>8, <2>9
<1> QED
  BY <1>6, <1>7, <1>8

-----------------------------------------------------------------------------
(* Lineages.                                                               *)

(* What a plan says nothing about stays as it is.                          *)
LEMMA NothingPatched ==
    ASSUME NEW d, NEW patch, IsMap(d), DOMAIN patch = {}
    PROVE  DeepMerge(d, patch) = d
  BY DEF DeepMerge, IsMap

LEMMA NothingEdited ==
    ASSUME NEW map, NEW upsert, IsMap(map), DOMAIN upsert = {}
    PROVE  Edited(map, {}, upsert) = map
  BY DEF Edited, IsMap

LEMMA EditedIsMap ==
    ASSUME NEW map, NEW remove, NEW upsert
    PROVE  IsMap(Edited(map, remove, upsert))
  BY DEF Edited, IsMap

(* The inductive invariant: the bundle is made of maps and dictionaries,   *)
(* as a plan needs them to be, and what its scope closes is as it was.     *)
LineageInv ==
    /\ lineage = [root |-> lineage.root, bundle |-> lineage.bundle]
    /\ lineage.root \in Roots
    /\ \A c \in MapNames : IsMap(lineage.bundle.maps[c])
    /\ \A c \in ConfigNames : IsDictionary(lineage.bundle.configs[c])
    /\ LineageKeepsScope

(* One mutation keeps it.                                                  *)
LEMMA MutationKeeps ==
    ASSUME LineageInv, NEW plan \in Plans, Accepted(lineage.bundle, plan),
           lineage' = [lineage EXCEPT !.bundle = Mutate(lineage.bundle, plan)]
    PROVE  LineageInv'
<1> DEFINE old == lineage.bundle
           new == Patched(old, plan)
           open == Allowed(lineage.root.scope)
<1>1. lineage' = [root |-> lineage.root, bundle |-> new]
  <2>1. Mutate(old, plan) = new
    BY DEF Mutate
  <2> QED
    BY <2>1 DEF LineageInv
<1>2. lineage'.root = lineage.root /\ lineage'.bundle = new
  BY <1>1
<1>3. /\ new.scope = old.scope
      /\ new.prompt = IF plan.prompt = "" THEN old.prompt ELSE plan.prompt
      /\ \A c \in MapNames : new.maps[c] = Edited(old.maps[c], plan.remove[c], plan.upsert[c])
      /\ \A c \in ConfigNames : new.configs[c] = DeepMerge(old.configs[c], plan.patch[c])
  BY DEF Patched
<1>4. old.scope = lineage.root.scope
  BY DEF LineageInv, LineageKeepsScope
<1>5. Changed(plan) \in SUBSET open
  BY <1>4 DEF Accepted
<1> HIDE DEF new
<1>6. \A c \in MapNames : IsMap(new.maps[c])
  BY <1>3, EditedIsMap
<1>7. \A c \in ConfigNames : IsDictionary(new.configs[c])
  BY <1>3, MergeIsDictionary, MutationAssumption DEF LineageInv
<1>8. "system_prompt" \in open \/ new.prompt = lineage.root.prompt
  <2> SUFFICES ASSUME "system_prompt" \notin open PROVE new.prompt = lineage.root.prompt
    OBVIOUS
  <2>1. plan.prompt = ""
    BY <1>5 DEF Changed, Components
  <2>2. old.prompt = lineage.root.prompt
    BY DEF LineageInv, LineageKeepsScope
  <2> QED
    BY <1>3, <2>1, <2>2
<1>9. ASSUME NEW c \in MapNames \ open PROVE new.maps[c] = lineage.root.maps[c]
  <2>1. plan.remove[c] = {} /\ DOMAIN plan.upsert[c] = {}
    BY <1>5 DEF Changed, Components
  <2>2. IsMap(old.maps[c]) /\ old.maps[c] = lineage.root.maps[c]
    BY DEF LineageInv, LineageKeepsScope
  <2>3. Edited(old.maps[c], plan.remove[c], plan.upsert[c]) = old.maps[c]
    <3>1. Edited(old.maps[c], {}, plan.upsert[c]) = old.maps[c]
      BY <2>1, <2>2, NothingEdited
    <3> QED
      BY <2>1, <3>1
  <2> QED
    BY <1>3, <2>2, <2>3
<1>10. ASSUME NEW c \in ConfigNames \ open PROVE new.configs[c] = lineage.root.configs[c]
  <2>1. DOMAIN plan.patch[c] = {}
    BY <1>5 DEF Changed, Components
  <2>2. IsMap(old.configs[c]) /\ old.configs[c] = lineage.root.configs[c]
    BY DEF LineageInv, LineageKeepsScope, IsDictionary
  <2> QED
    BY <1>3, <2>1, <2>2, NothingPatched
<1>11. LineageKeepsScope'
  BY <1>2, <1>3, <1>4, <1>8, <1>9, <1>10 DEF LineageKeepsScope
<1> QED
  BY <1>1, <1>2, <1>6, <1>7, <1>11 DEF LineageInv

(* Theorem.  Along every lineage the bundle stays well formed and within   *)
(* the scope it began with (mutator.py, apply).                            *)
THEOREM LineageInvariance == Spec => []LineageInv
<1>1. Init => LineageInv
  <2> SUFFICES ASSUME Init PROVE LineageInv
    OBVIOUS
  <2>1. PICK b \in Roots : lineage = [root |-> b, bundle |-> b]
    BY DEF Init
  <2> QED
    BY <2>1, MutationAssumption DEF LineageInv, LineageKeepsScope
<1>2. LineageInv /\ [Next]_vars => LineageInv'
  <2> SUFFICES ASSUME LineageInv, [Next]_vars PROVE LineageInv'
    OBVIOUS
  <2>1. CASE lineage' = lineage
    BY <2>1 DEF LineageInv, LineageKeepsScope
  <2>2. CASE Evolve
    BY <2>2, MutationKeeps DEF Evolve
  <2>3. lineage' = lineage \/ Evolve
    BY DEF Next, Evaluate, Promote, Observe, vars
  <2> QED
    BY <2>1, <2>2, <2>3
<1> QED
  BY <1>1, <1>2, PTL DEF Spec

(* Theorem.  However many mutations a lineage has seen, it has its first   *)
(* scope, and what this scope does not open is that of its first bundle.   *)
THEOREM LineagesKeepScope == Spec => []LineageKeepsScope
<1>1. LineageInv => LineageKeepsScope
  BY DEF LineageInv
<1> QED
  BY <1>1, LineageInvariance, PTL

(* Theorem.  A plan's patches are merged all the way down into whatever    *)
(* bundle the lineage has reached (mutator.py, _deep_merge), and what they *)
(* leave is again a dictionary.                                            *)
THEOREM PatchesMerge == Spec => []PatchesMergeDeeply
<1>1. LineageInv => PatchesMergeDeeply
  <2> SUFFICES ASSUME LineageInv, NEW plan \in Plans, NEW c \in ConfigNames
               PROVE  LET new == Patched(lineage.bundle, plan).configs[c] IN
                      /\ IsDictionary(new)
                      /\ MergedDeeply(lineage.bundle.configs[c], plan.patch[c], new)
    BY DEF PatchesMergeDeeply
  <2>1. Patched(lineage.bundle, plan).configs[c]
            = DeepMerge(lineage.bundle.configs[c], plan.patch[c])
    BY DEF Patched
  <2>2. IsDictionary(lineage.bundle.configs[c]) /\ IsDictionary(plan.patch[c])
    BY MutationAssumption DEF LineageInv
  <2> QED
    BY <2>1, <2>2, MergeIsDictionary, MergeRecurs
<1> QED
  BY <1>1, LineageInvariance, PTL

-----------------------------------------------------------------------------
(* Promotions.                                                             *)

(* What the guards of a derivation give: the two sides have the same       *)
(* indices, every run a score and a cost.                                  *)
Paired(b, c) ==
    /\ Len(b) \in Nat /\ Len(c) = Len(b)
    /\ DOMAIN b = 1 .. Len(b) /\ DOMAIN c = 1 .. Len(b)
    /\ DOMAIN Runs(b) = 1 .. Len(b) /\ DOMAIN Runs(c) = 1 .. Len(b)
    /\ Len(Runs(b)) = Len(b) /\ Len(Runs(c)) = Len(b)
    /\ \A i \in 1 .. Len(b) :
          /\ Runs(b)[i] = BenchmarkRuns[b[i]] /\ Runs(c)[i] = BenchmarkRuns[c[i]]
          /\ Runs(b)[i].score \in Nat /\ Runs(c)[i].score \in Nat
          /\ Runs(b)[i].cost \in Nat /\ Runs(c)[i].cost \in Nat

LEMMA Pairs ==
    ASSUME NEW v, NEW w,
           NEW b \in BoundedSeq(DOMAIN BenchmarkRuns, MaxBenchmarks),
           NEW c \in BoundedSeq(DOMAIN BenchmarkRuns, MaxBenchmarks),
           Derivable(w, v, b, c)
    PROVE  Paired(b, c)
<1>1. PICK m, n \in Nat : /\ b \in [1 .. m -> DOMAIN BenchmarkRuns]
                          /\ c \in [1 .. n -> DOMAIN BenchmarkRuns]
  BY DEF BoundedSeq, SeqOf
<1>2. Len(b) = m /\ Len(c) = n /\ m = n /\ DOMAIN b = 1 .. m /\ DOMAIN c = 1 .. m
  BY <1>1 DEF Derivable
<1>3. /\ DOMAIN Runs(b) = 1 .. m /\ DOMAIN Runs(c) = 1 .. m
      /\ \A i \in 1 .. m : /\ Runs(b)[i] = BenchmarkRuns[b[i]] /\ b[i] \in DOMAIN BenchmarkRuns
                           /\ Runs(c)[i] = BenchmarkRuns[c[i]] /\ c[i] \in DOMAIN BenchmarkRuns
  BY <1>1, <1>2 DEF Runs
<1>4. Len(Runs(b)) = m /\ Len(Runs(c)) = m
  <2>1. /\ Runs(b) = [i \in 1 .. m |-> BenchmarkRuns[b[i]]]
        /\ Runs(c) = [i \in 1 .. m |-> BenchmarkRuns[c[i]]]
    BY <1>2 DEF Runs
  <2> QED
    BY <2>1
<1>5. \A i \in 1 .. m : Runs(b)[i].score # None /\ Runs(c)[i].score # None
  BY <1>3 DEF Derivable, ValidRun
<1> QED
  BY <1>1, <1>2, <1>3, <1>4, <1>5, BenchmarkAssumption DEF Paired

(* Sums of costs and scores are naturals and grow with their summands.     *)
LEMMA SidesGrow ==
    ASSUME NEW m \in Nat, NEW r, NEW s,
           DOMAIN r = 1 .. m, DOMAIN s = 1 .. m,
           \A i \in 1 .. m : /\ r[i].score \in Nat /\ s[i].score \in Nat
                             /\ r[i].cost \in Nat /\ s[i].cost \in Nat
    PROVE  /\ SumFunction(Scores(r)) \in Nat /\ SumFunction(Costs(r)) \in Nat
           /\ SumFunction(Scores(s)) \in Nat /\ SumFunction(Costs(s)) \in Nat
           /\ (\A i \in 1 .. m : Outdoes(s[i], r[i])) =>
                 /\ SumFunction(Scores(r)) =< SumFunction(Scores(s))
                 /\ SumFunction(Costs(s)) =< SumFunction(Costs(r))
<1>1. IsFiniteSet(1 .. m)
  BY FS_Interval
<1>2. /\ Scores(r) \in [1 .. m -> Nat] /\ Scores(s) \in [1 .. m -> Nat]
      /\ Costs(r) \in [1 .. m -> Nat] /\ Costs(s) \in [1 .. m -> Nat]
      /\ \A i \in 1 .. m : /\ Scores(r)[i] = r[i].score /\ Scores(s)[i] = s[i].score
                           /\ Costs(r)[i] = r[i].cost /\ Costs(s)[i] = s[i].cost
  BY DEF Scores, Costs
<1>3. ASSUME NEW f \in [1 .. m -> Nat] PROVE SumFunction(f) \in Nat
  <2>1. \A i \in 1 .. m : f[i] =< f[i]
    OBVIOUS
  <2> QED
    BY <1>1, <2>1, SumGrows
<1>4. ASSUME \A i \in 1 .. m : Outdoes(s[i], r[i])
      PROVE  /\ SumFunction(Scores(r)) =< SumFunction(Scores(s))
             /\ SumFunction(Costs(s)) =< SumFunction(Costs(r))
  <2>1. \A i \in 1 .. m : Scores(r)[i] =< Scores(s)[i] /\ Costs(s)[i] =< Costs(r)[i]
    BY <1>2, <1>4 DEF Outdoes
  <2> QED
    BY <1>1, <1>2, <2>1, SumGrows
<1> QED
  BY <1>2, <1>3, <1>4

(* The limit on the candidate's cost moves with the baseline's.            *)
LEMMA CostStaysWithin ==
    ASSUME NEW n \in Nat, NEW low \in Nat, NEW high \in Nat, low =< high,
           NEW x \in Nat, NEW y \in Nat, y =< x, x =< low * n
    PROVE  y =< high * n
<1>1. n * low =< n * high
  BY ProductGrows
<1>2. low * n = n * low /\ high * n = n * high /\ low * n \in Nat /\ high * n \in Nat
  BY Product
<1> QED
  BY <1>1, <1>2

(* Evidence that is pair by pair more favourable passes as well.           *)
LEMMA FavourablePasses ==
    ASSUME NEW v, NEW w,
           NEW b \in BoundedSeq(DOMAIN BenchmarkRuns, MaxBenchmarks),
           NEW c \in BoundedSeq(DOMAIN BenchmarkRuns, MaxBenchmarks),
           NEW base \in BoundedSeq(DOMAIN BenchmarkRuns, MaxBenchmarks),
           NEW candidate \in BoundedSeq(DOMAIN BenchmarkRuns, MaxBenchmarks),
           Derivable(w, v, b, c), Derivable(w, v, base, candidate),
           Promotes(Evidence(b, c)),
           Len(base) = Len(b),
           \A i \in DOMAIN base :
              /\ Outdoes(BenchmarkRuns[b[i]], BenchmarkRuns[base[i]])
              /\ Outdoes(BenchmarkRuns[candidate[i]], BenchmarkRuns[c[i]])
              /\ Clean(BenchmarkRuns[candidate[i]]),
           base = b \/ Evidence(b, c).baselineCost > 0
    PROVE  Promotes(Evidence(base, candidate))
<1> DEFINE m == Len(b)
           old == Evidence(b, c)
           new == Evidence(base, candidate)
           OldWorse == {i \in 1 .. m : Runs(c)[i].score < Runs(b)[i].score}
           NewWorse == {i \in 1 .. m : Runs(candidate)[i].score < Runs(base)[i].score}
<1>1. /\ m \in Nat /\ DOMAIN Runs(b) = 1 .. m /\ DOMAIN Runs(c) = 1 .. m /\ Len(Runs(b)) = m
      /\ \A i \in 1 .. m :
            /\ Runs(b)[i] = BenchmarkRuns[b[i]] /\ Runs(c)[i] = BenchmarkRuns[c[i]]
            /\ Runs(b)[i].score \in Nat /\ Runs(c)[i].score \in Nat
            /\ Runs(b)[i].cost \in Nat /\ Runs(c)[i].cost \in Nat
  <2>1. Paired(b, c)
    BY Pairs
  <2> QED
    BY <2>1 DEF Paired
<1>2. /\ DOMAIN base = 1 .. m
      /\ DOMAIN Runs(base) = 1 .. m /\ DOMAIN Runs(candidate) = 1 .. m /\ Len(Runs(base)) = m
      /\ \A i \in 1 .. m :
            /\ Runs(base)[i] = BenchmarkRuns[base[i]]
            /\ Runs(candidate)[i] = BenchmarkRuns[candidate[i]]
            /\ Runs(base)[i].score \in Nat /\ Runs(candidate)[i].score \in Nat
            /\ Runs(base)[i].cost \in Nat /\ Runs(candidate)[i].cost \in Nat
  <2>1. Paired(base, candidate)
    BY Pairs
  <2> QED
    BY <2>1 DEF Paired
<1>3. \A i \in 1 .. m : /\ Outdoes(Runs(b)[i], Runs(base)[i])
                        /\ Outdoes(Runs(candidate)[i], Runs(c)[i])
                        /\ Clean(Runs(candidate)[i])
  BY <1>1, <1>2
<1> HIDE DEF m
<1>4. /\ old.runs = m /\ new.runs = m
      /\ old.baseline = SumFunction(Scores(Runs(b)))
      /\ old.candidate = SumFunction(Scores(Runs(c)))
      /\ old.baselineCost = SumFunction(Costs(Runs(b)))
      /\ old.candidateCost = SumFunction(Costs(Runs(c)))
      /\ old.regressions = Cardinality(OldWorse)
      /\ new.baseline = SumFunction(Scores(Runs(base)))
      /\ new.candidate = SumFunction(Scores(Runs(candidate)))
      /\ new.baselineCost = SumFunction(Costs(Runs(base)))
      /\ new.candidateCost = SumFunction(Costs(Runs(candidate)))
      /\ new.regressions = Cardinality(NewWorse)
  BY <1>1, <1>2 DEF Evidence
<1>5. new.constraints
  BY <1>2, <1>3 DEF Evidence, Clean
<1>6. /\ old.baseline \in Nat /\ new.baseline \in Nat /\ new.baseline =< old.baseline
      /\ old.baselineCost \in Nat /\ new.baselineCost \in Nat
      /\ old.baselineCost =< new.baselineCost
  <2> DEFINE r == Runs(base)
             s == Runs(b)
  <2>1. /\ DOMAIN r = 1 .. m /\ DOMAIN s = 1 .. m
        /\ \A i \in 1 .. m : /\ r[i].score \in Nat /\ s[i].score \in Nat
                              /\ r[i].cost \in Nat /\ s[i].cost \in Nat
        /\ \A i \in 1 .. m : Outdoes(s[i], r[i])
    BY <1>1, <1>2, <1>3
  <2>2. /\ old.baseline = SumFunction(Scores(s)) /\ new.baseline = SumFunction(Scores(r))
        /\ old.baselineCost = SumFunction(Costs(s)) /\ new.baselineCost = SumFunction(Costs(r))
    BY <1>4
  <2> HIDE DEF r, s, old, new
  <2>3. m \in Nat
    BY <1>1
  <2>4. /\ SumFunction(Scores(r)) \in Nat /\ SumFunction(Costs(r)) \in Nat
        /\ SumFunction(Scores(s)) \in Nat /\ SumFunction(Costs(s)) \in Nat
        /\ SumFunction(Scores(r)) =< SumFunction(Scores(s))
        /\ SumFunction(Costs(s)) =< SumFunction(Costs(r))
    BY ONLY <2>1, <2>3, SidesGrow
  <2> QED
    BY <2>2, <2>4
<1>7. /\ old.candidate \in Nat /\ new.candidate \in Nat /\ old.candidate =< new.candidate
      /\ old.candidateCost \in Nat /\ new.candidateCost \in Nat
      /\ new.candidateCost =< old.candidateCost
  <2> DEFINE r == Runs(c)
             s == Runs(candidate)
  <2>1. /\ DOMAIN r = 1 .. m /\ DOMAIN s = 1 .. m
        /\ \A i \in 1 .. m : /\ r[i].score \in Nat /\ s[i].score \in Nat
                              /\ r[i].cost \in Nat /\ s[i].cost \in Nat
        /\ \A i \in 1 .. m : Outdoes(s[i], r[i])
    BY <1>1, <1>2, <1>3
  <2>2. /\ new.candidate = SumFunction(Scores(s)) /\ old.candidate = SumFunction(Scores(r))
        /\ new.candidateCost = SumFunction(Costs(s)) /\ old.candidateCost = SumFunction(Costs(r))
    BY <1>4
  <2> HIDE DEF r, s, old, new
  <2>3. m \in Nat
    BY <1>1
  <2>4. /\ SumFunction(Scores(r)) \in Nat /\ SumFunction(Costs(r)) \in Nat
        /\ SumFunction(Scores(s)) \in Nat /\ SumFunction(Costs(s)) \in Nat
        /\ SumFunction(Scores(r)) =< SumFunction(Scores(s))
        /\ SumFunction(Costs(s)) =< SumFunction(Costs(r))
    BY ONLY <2>1, <2>3, SidesGrow
  <2> QED
    BY <2>2, <2>4
<1>8. new.regressions =< Promotion.regressions
  <2>1. NewWorse \in SUBSET OldWorse /\ OldWorse \in SUBSET (1 .. m)
    BY <1>1, <1>2, <1>3 DEF Outdoes
  <2>2. IsFiniteSet(OldWorse)
    <3>1. IsFiniteSet(1 .. m)
      BY <1>1, FS_Interval
    <3> HIDE DEF OldWorse
    <3> QED
      BY <2>1, <3>1, FS_Subset
  <2> HIDE DEF OldWorse, NewWorse
  <2>3. /\ Cardinality(OldWorse) \in Nat /\ Cardinality(NewWorse) \in Nat
        /\ Cardinality(NewWorse) =< Cardinality(OldWorse)
    BY <2>1, <2>2, FS_Subset, FS_CardinalityType
  <2>4. old.regressions =< Promotion.regressions
    BY DEF Promotes
  <2> QED
    BY <1>4, <2>3, <2>4, BenchmarkAssumption
<1> HIDE DEF old, new
<1>9. /\ new.candidate >= Promotion.score * new.runs
      /\ new.candidate - new.baseline >= Promotion.delta * new.runs
  <2> DEFINE least == Promotion.score * m
             gain == Promotion.delta * m
  <2>1. old.candidate >= least /\ old.candidate - old.baseline >= gain
    BY <1>4 DEF Promotes, old
  <2>2. least \in Nat /\ gain \in Nat
    BY <1>1, Product, BenchmarkAssumption
  <2>3. new.candidate >= least /\ new.candidate - new.baseline >= gain
    <3> HIDE DEF least, gain
    <3> QED
      BY <1>6, <1>7, <2>1, <2>2
  <2> QED
    BY <1>4, <2>3
<1>10. ASSUME Promotion.multiplier # None, new.baselineCost > 0
       PROVE  new.candidateCost =< new.baselineCost * Promotion.multiplier
  <2>1. old.baselineCost > 0
    <3>1. CASE base = b
      BY <1>4, <1>10, <3>1
    <3>2. CASE base # b
      BY <3>2 DEF old
    <3> QED
      BY <3>1, <3>2
  <2>2. old.candidateCost =< old.baselineCost * Promotion.multiplier
    BY <1>10, <2>1 DEF Promotes, old
  <2> QED
    BY <1>6, <1>7, <1>10, <2>2, CostStaysWithin, BenchmarkAssumption
<1> QED
  BY <1>5, <1>8, <1>9, <1>10 DEF Promotes, new

(* Theorem.  The policy favours the better version (app.py,                *)
(* _derive_promotion_evidence; PromotionPolicy.evaluate): more favourable  *)
(* runs never turn a promotion into a refusal, and the same runs lead back *)
(* only between versions that scored the same.                             *)
THEOREM PromotionsFavourTheBetter == Spec => []PromotionFavoursTheBetter
<1>1. Init => PromotionFavoursTheBetter
  BY DEF Init, PromotionFavoursTheBetter
<1>2. PromotionFavoursTheBetter /\ [Next]_vars => PromotionFavoursTheBetter'
  <2> SUFFICES ASSUME PromotionFavoursTheBetter, [Next]_vars
               PROVE  PromotionFavoursTheBetter'
    OBVIOUS
  <2>1. CASE promotion' = promotion
    BY <2>1 DEF PromotionFavoursTheBetter
  <2>2. CASE Promote
    <3>1. PICK b, c \in BoundedSeq(DOMAIN BenchmarkRuns, MaxBenchmarks) :
              /\ Derivable(CandidateVersion, BaseVersion, b, c)
              /\ promotion' = [base |-> b, candidate |-> c, passed |-> Promotes(Evidence(b, c))]
      BY <2>2 DEF Promote
    <3>2. /\ promotion'.base = b /\ promotion'.candidate = c
          /\ promotion'.passed = Promotes(Evidence(b, c))
      BY <3>1
    <3> SUFFICES ASSUME Promotes(Evidence(b, c))
                 PROVE  /\ \A base, candidate \in BoundedSeq(DOMAIN BenchmarkRuns, MaxBenchmarks) :
                              /\ Derivable(CandidateVersion, BaseVersion, base, candidate)
                              /\ MoreFavourable(base, candidate, promotion')
                              /\ base = b \/ Evidence(b, c).baselineCost > 0
                              => Promotes(Evidence(base, candidate))
                        /\ Promotes(Evidence(c, b)) =>
                              Evidence(b, c).baseline = Evidence(b, c).candidate
      BY <3>2 DEF PromotionFavoursTheBetter
    <3>3. ASSUME NEW base \in BoundedSeq(DOMAIN BenchmarkRuns, MaxBenchmarks),
                 NEW candidate \in BoundedSeq(DOMAIN BenchmarkRuns, MaxBenchmarks),
                 Derivable(CandidateVersion, BaseVersion, base, candidate),
                 MoreFavourable(base, candidate, promotion'),
                 base = b \/ Evidence(b, c).baselineCost > 0
          PROVE  Promotes(Evidence(base, candidate))
      <4>1. /\ Len(base) = Len(b)
            /\ \A i \in DOMAIN base :
                  /\ Outdoes(BenchmarkRuns[b[i]], BenchmarkRuns[base[i]])
                  /\ Outdoes(BenchmarkRuns[candidate[i]], BenchmarkRuns[c[i]])
                  /\ Clean(BenchmarkRuns[candidate[i]])
        BY <3>2, <3>3 DEF MoreFavourable
      <4> QED
        BY <3>1, <3>3, <4>1, FavourablePasses
    <3>4. ASSUME Promotes(Evidence(c, b))
          PROVE  Evidence(b, c).baseline = Evidence(b, c).candidate
      <4> DEFINE there == SumFunction(Scores(Runs(c)))
                 here == SumFunction(Scores(Runs(b)))
                 gain == Promotion.delta * Len(b)
      <4>1. /\ Len(b) \in Nat /\ Len(Runs(b)) = Len(b) /\ Len(Runs(c)) = Len(b)
            /\ here \in Nat /\ there \in Nat
        <5>1. Paired(b, c)
          BY <3>1, Pairs
        <5> DEFINE m == Len(b)
                   r == Runs(b)
                   s == Runs(c)
        <5>2. /\ m \in Nat /\ Len(r) = m /\ Len(s) = m
              /\ DOMAIN r = 1 .. m /\ DOMAIN s = 1 .. m
              /\ \A i \in 1 .. m : /\ r[i].score \in Nat /\ s[i].score \in Nat
                                    /\ r[i].cost \in Nat /\ s[i].cost \in Nat
          BY <5>1 DEF Paired
        <5>3. here = SumFunction(Scores(r)) /\ there = SumFunction(Scores(s))
          OBVIOUS
        <5> HIDE DEF m, r, s, here, there
        <5>4. here \in Nat /\ there \in Nat
          BY <5>2, <5>3, SidesGrow
        <5> QED
          BY <5>2, <5>4 DEF m, r, s
      <4>2. /\ Evidence(b, c).baseline = here /\ Evidence(b, c).candidate = there
            /\ Evidence(c, b).baseline = there /\ Evidence(c, b).candidate = here
            /\ Evidence(b, c).runs = Len(b) /\ Evidence(c, b).runs = Len(b)
        BY <4>1 DEF Evidence
      <4>3. there - here >= gain /\ here - there >= gain
        <5> HIDE DEF there, here
        <5> QED
          BY <3>4, <4>2 DEF Promotes
      <4>4. gain \in Nat
        BY <4>1, Product, BenchmarkAssumption
      <4> HIDE DEF there, here, gain
      <4> QED
        BY <4>1, <4>2, <4>3, <4>4
    <3> QED
      BY <3>3, <3>4
  <2>3. promotion' = promotion \/ Promote
    BY DEF Next, Evaluate, Evolve, Observe, vars
  <2> QED
    BY <2>1, <2>2, <2>3
<1> QED
  BY <1>1, <1>2, PTL DEF Spec

-----------------------------------------------------------------------------
(* Reviews.                                                                *)

(* The next number of a count is a multiple of n, or the quotient stays.   *)
LEMMA NextQuotient ==
    ASSUME NEW m \in Nat, NEW n \in Nat \ {0}
    PROVE  (m + 1) \div n = IF (m + 1) % n = 0 THEN m \div n + 1 ELSE m \div n
<1> DEFINE q == m \div n
           r == m % n
           s == (m + 1) \div n
           t == (m + 1) % n
<1>1. q \in Int /\ r \in 0 .. n - 1 /\ m = n * q + r
  OBVIOUS
<1>2. s \in Int /\ t \in 0 .. n - 1 /\ m + 1 = n * s + t
  OBVIOUS
<1> HIDE DEF q, r, s, t
<1>3. n * (s - q) = r + 1 - t
  BY <1>1, <1>2
<1> DEFINE k == s - q
<1>4. k \in Int /\ n * k = r + 1 - t /\ r + 1 - t >= 2 - n /\ r + 1 - t =< n
  BY <1>1, <1>2, <1>3
<1>5. CASE t = 0
  <2>1. n * k >= 1 /\ n * k =< n
    BY <1>1, <1>4, <1>5
  <2>2. k = 1
    <3> HIDE DEF k
    <3>1. k >= 1
      BY <1>4, <2>1
    <3>2. k =< 1
      BY <1>4, <2>1
    <3> QED
      BY <1>4, <3>1, <3>2
  <2>3. s = q + 1
    BY <1>1, <1>2, <2>2
  <2> QED
    BY <1>5, <2>3 DEF q, s, t
<1>6. CASE t # 0
  <2>1. n * k > 0 - n /\ n * k < n
    BY <1>1, <1>2, <1>4, <1>6
  <2>2. k = 0
    <3> HIDE DEF k
    <3>1. k < 1
      BY <1>4, <2>1
    <3>2. k > -1
      BY <1>4, <2>1
    <3> QED
      BY <1>4, <3>1, <3>2
  <2>3. s = q
    BY <1>1, <1>2, <2>2
  <2> QED
    BY <1>6, <2>3 DEF q, s, t
<1> QED
  BY <1>5, <1>6

(* Where the events of a kind are, and the how-manieth each of them is.    *)
At(events, kind) == {i \in DOMAIN events : events[i] = kind}
Nth(events, kind, i) == Cardinality({j \in At(events, kind) : j =< i})
Rhythm(events, reviews, kind, n) ==
    LET at == At(events, kind) IN
    /\ at \cap reviews = {i \in at : n # 0 /\ Nth(events, kind, i) % n = 0}
    /\ n # 0 => Cardinality(at \cap reviews) = Cardinality(at) \div n

LEMMA AtIsFinite ==
    ASSUME NEW S, NEW events \in Seq(S), NEW kind
    PROVE  /\ At(events, kind) \in SUBSET (1 .. Len(events))
           /\ \A s \in SUBSET At(events, kind) : IsFiniteSet(s) /\ Cardinality(s) \in Nat
<1>1. DOMAIN events = 1 .. Len(events) /\ Len(events) \in Nat
  BY LenProperties
<1>2. At(events, kind) \in SUBSET (1 .. Len(events)) /\ IsFiniteSet(1 .. Len(events))
  BY <1>1, FS_Interval DEF At
<1>3. ASSUME NEW s \in SUBSET At(events, kind) PROVE IsFiniteSet(s) /\ Cardinality(s) \in Nat
  <2>1. s \in SUBSET (1 .. Len(events))
    BY <1>2
  <2> QED
    BY <1>2, <2>1, FS_Subset, FS_CardinalityType
<1> QED
  BY <1>2, <1>3

(* The rhythm goes on with every event observed: what is reviewed at the   *)
(* last event decides over the kind of this event and leaves the others.   *)
LEMMA RhythmGoesOn ==
    ASSUME NEW S, NEW events \in Seq(S), NEW e \in S, NEW kind, NEW n \in Nat,
           NEW reviews \in SUBSET DOMAIN events, NEW later,
           Rhythm(events, reviews, kind, n),
           later = reviews \/ later = reviews \cup {Len(events) + 1},
           e = kind => (later = reviews \cup {Len(events) + 1} <=>
                           n > 0 /\ Cardinality(At(Append(events, e), kind)) % n = 0)
    PROVE  Rhythm(Append(events, e), later, kind, n)
<1> DEFINE L == Len(events) + 1
           more == Append(events, e)
           old == At(events, kind)
           new == At(more, kind)
<1>1. /\ Len(events) \in Nat /\ DOMAIN events = 1 .. Len(events)
      /\ more \in Seq(S) /\ Len(more) = L /\ DOMAIN more = 1 .. L
      /\ more[L] = e /\ \A i \in 1 .. Len(events) : more[i] = events[i]
  <2>1. Len(events) \in Nat /\ DOMAIN events = 1 .. Len(events) /\ more \in Seq(S)
    BY LenProperties, AppendProperties
  <2>2. Len(more) = L /\ more[L] = e /\ \A i \in 1 .. Len(events) : more[i] = events[i]
    BY AppendProperties
  <2> QED
    BY <2>1, <2>2, LenProperties
<1> HIDE DEF more
<1>2. L \notin old /\ L \notin reviews /\ \A i \in old : i =< L /\ i # L /\ i \in Nat
  BY <1>1 DEF At
<1>3. new = IF e = kind THEN old \cup {L} ELSE old
  <2>1. \A i : i \in DOMAIN more <=> i \in DOMAIN events \/ i = L
    BY <1>1
  <2>2. L \notin DOMAIN events
    BY <1>1
  <2> HIDE DEF L
  <2> QED
    BY <1>1, <2>1, <2>2 DEF At
<1>4. \A i \in old : Nth(more, kind, i) = Nth(events, kind, i)
  <2> SUFFICES ASSUME NEW i \in old
               PROVE  {j \in new : j =< i} = {j \in old : j =< i}
    BY DEF Nth
  <2>1. ~ (L =< i)
    BY <1>1, <1>2 DEF At
  <2> HIDE DEF old, new, L
  <2> QED
    BY <1>3, <2>1
<1>5. /\ IsFiniteSet(old) /\ Cardinality(old) \in Nat
      /\ IsFiniteSet(old \cap reviews) /\ Cardinality(old \cap reviews) \in Nat
  BY AtIsFinite
<1>6. old \cap reviews = {i \in old : n # 0 /\ Nth(events, kind, i) % n = 0}
  BY DEF Rhythm
<1>7. n # 0 => Cardinality(old \cap reviews) = Cardinality(old) \div n
  BY DEF Rhythm
<1>8. CASE e # kind
  <2>1. new = old /\ new \cap later = old \cap reviews
    <3>1. later = reviews \/ later = reviews \cup {L}
      OBVIOUS
    <3> HIDE DEF old, new, L
    <3> QED
      BY <1>2, <1>3, <1>8, <3>1
  <2>2. new \cap later = {i \in new : n # 0 /\ Nth(more, kind, i) % n = 0}
    <3> HIDE DEF old, new, L
    <3> QED
      BY <1>4, <1>6, <2>1
  <2>3. n # 0 => Cardinality(new \cap later) = Cardinality(new) \div n
    BY <1>7, <2>1
  <2> QED
    BY <2>2, <2>3 DEF Rhythm, more
<1>9. CASE e = kind
  <2>1. new = old \cup {L} /\ Cardinality(new) = Cardinality(old) + 1
    <3>1. new = old \cup {L}
      BY <1>3, <1>9
    <3> HIDE DEF old, new, L
    <3> QED
      BY <1>2, <1>5, <3>1, FS_AddElement
  <2>2. Nth(more, kind, L) = Cardinality(new)
    <3>1. {j \in new : j =< L} = new
      <4>1. L =< L
        BY <1>1
      <4> HIDE DEF old, new, L
      <4> QED
        BY <1>2, <2>1, <4>1
    <3> QED
      BY <3>1 DEF Nth
  <2> DEFINE Due == n > 0 /\ Cardinality(new) % n = 0
  <2>3. later = reviews \cup {L} <=> Due
    BY <1>9 DEF more
  <2>4. new \cap later = IF Due THEN (old \cap reviews) \cup {L} ELSE old \cap reviews
    <3>1. later = IF Due THEN reviews \cup {L} ELSE reviews
      BY <2>3
    <3> HIDE DEF Due, old, new, L
    <3> QED
      BY <1>2, <2>1, <3>1
  <2>5. new \cap later = {i \in new : n # 0 /\ Nth(more, kind, i) % n = 0}
    <3>1. Due <=> n # 0 /\ Nth(more, kind, L) % n = 0
      BY <2>2
    <3> HIDE DEF Due, old, new, L
    <3> QED
      BY <1>2, <1>4, <1>6, <2>1, <2>4, <3>1
  <2>6. n # 0 => Cardinality(new \cap later) = Cardinality(new) \div n
    <3> SUFFICES ASSUME n # 0 PROVE Cardinality(new \cap later) = Cardinality(new) \div n
      OBVIOUS
    <3>1. Cardinality(new) \div n =
              IF Cardinality(new) % n = 0 THEN Cardinality(old) \div n + 1 ELSE Cardinality(old) \div n
      <4> HIDE DEF old, new
      <4> QED
        BY <1>5, <2>1, NextQuotient
    <3>2. Cardinality((old \cap reviews) \cup {L}) = Cardinality(old \cap reviews) + 1
      <4>1. L \notin old \cap reviews
        BY <1>2
      <4> HIDE DEF old, L
      <4> QED
        BY <1>5, <4>1, FS_AddElement
    <3>3. Due <=> Cardinality(new) % n = 0
      OBVIOUS
    <3> HIDE DEF Due, old, new, L
    <3> QED
      BY <1>7, <2>4, <3>1, <3>2, <3>3
  <2> QED
    BY <2>5, <2>6 DEF Rhythm, more
<1> QED
  BY <1>8, <1>9

(* The inductive invariant: which events have been reviewed, and how many. *)
ReviewInv ==
    /\ observed = [events |-> observed.events, reviews |-> observed.reviews]
    /\ observed.events \in Seq(EventKinds)
    /\ observed.reviews \in SUBSET DOMAIN observed.events
    /\ Rhythm(observed.events, observed.reviews, "tool_error", AfterToolErrors)
    /\ Rhythm(observed.events, observed.reviews, "model_call", EveryModelCalls)

(* Theorem.  Among the tool errors (the model calls) of an attempt exactly *)
(* every n-th is reviewed, however the events of the kinds interleave      *)
(* (observer.py, ObservationPolicy.should_review).                         *)
THEOREM ReviewsInRhythm == Spec => []ReviewsOnSchedule
<1>1. Init => ReviewInv
  <2> SUFFICES ASSUME Init PROVE ReviewInv
    OBVIOUS
  <2>1. observed.events = <<>> /\ observed.reviews = {}
    BY DEF Init
  <2>2. ASSUME NEW kind, NEW n \in Nat PROVE Rhythm(<<>>, {}, kind, n)
    <3>1. At(<<>>, kind) = {}
      BY DEF At
    <3>2. Cardinality({}) = 0 /\ (n # 0 => 0 \div n = 0)
      BY FS_EmptySet
    <3> QED
      BY <3>1, <3>2 DEF Rhythm
  <2> QED
    BY <2>1, <2>2, ObservationAssumption DEF ReviewInv, Init
<1>2. ReviewInv /\ [Next]_vars => ReviewInv'
  <2> SUFFICES ASSUME ReviewInv, [Next]_vars PROVE ReviewInv'
    OBVIOUS
  <2>1. CASE observed' = observed
    BY <2>1 DEF ReviewInv
  <2>2. CASE Observe
    <3> DEFINE events == observed.events
               reviews == observed.reviews
    <3>1. PICK e \in EventKinds :
              observed' = [events  |-> Append(events, e),
                           reviews |-> IF ShouldReview(Append(events, e), e)
                                       THEN reviews \cup {Len(Append(events, e))}
                                       ELSE reviews]
      BY <2>2 DEF Observe
    <3> DEFINE more == Append(events, e)
               later == observed'.reviews
    <3>2. /\ events \in Seq(EventKinds) /\ reviews \in SUBSET DOMAIN events
          /\ more \in Seq(EventKinds) /\ Len(more) = Len(events) + 1
          /\ DOMAIN events = 1 .. Len(events) /\ DOMAIN more = 1 .. Len(events) + 1
          /\ Len(events) \in Nat
      BY AppendProperties, LenProperties DEF ReviewInv
    <3>3. /\ observed' = [events |-> observed'.events, reviews |-> observed'.reviews]
          /\ observed'.events = more
          /\ later = IF ShouldReview(more, e) THEN reviews \cup {Len(events) + 1} ELSE reviews
      BY <3>1, <3>2
    <3>4. Len(events) + 1 \notin reviews
      BY <3>2
    <3> HIDE DEF more, later
    <3>5. later \in SUBSET DOMAIN more
      BY <3>2, <3>3
    <3>6. ASSUME NEW kind, NEW n \in Nat, Rhythm(events, reviews, kind, n),
                 e = kind => (ShouldReview(more, e) <=> n > 0 /\ Cardinality(At(more, kind)) % n = 0)
          PROVE  Rhythm(more, later, kind, n)
      <4>1. e = kind => (later = reviews \cup {Len(events) + 1} <=>
                             n > 0 /\ Cardinality(At(more, kind)) % n = 0)
        BY <3>3, <3>4, <3>6
      <4>2. later = reviews \/ later = reviews \cup {Len(events) + 1}
        BY <3>3
      <4> HIDE DEF events, reviews
      <4> QED
        BY <3>2, <3>6, <4>1, <4>2, RhythmGoesOn DEF more
    <3>7. Rhythm(more, later, "tool_error", AfterToolErrors)
      <4>1. e = "tool_error" => (ShouldReview(more, e) <=>
                AfterToolErrors > 0 /\ Cardinality(At(more, "tool_error")) % AfterToolErrors = 0)
        BY DEF ShouldReview, At
      <4> QED
        BY <3>6, <4>1, ObservationAssumption DEF ReviewInv
    <3>8. Rhythm(more, later, "model_call", EveryModelCalls)
      <4>1. e = "model_call" => (ShouldReview(more, e) <=>
                EveryModelCalls > 0 /\ Cardinality(At(more, "model_call")) % EveryModelCalls = 0)
        BY DEF ShouldReview, At
      <4> QED
        BY <3>6, <4>1, ObservationAssumption DEF ReviewInv
    <3> QED
      BY <3>2, <3>3, <3>5, <3>7, <3>8 DEF ReviewInv, later
  <2>3. observed' = observed \/ Observe
    BY DEF Next, Evaluate, Evolve, Promote, vars
  <2> QED
    BY <2>1, <2>2, <2>3
<1>3. ReviewInv => ReviewsOnSchedule
  <2> SUFFICES ASSUME ReviewInv, NEW kind, NEW n \in Nat,
                      Rhythm(observed.events, observed.reviews, kind, n)
               PROVE  OnSchedule(kind, n)
    BY ObservationAssumption DEF ReviewInv, ReviewsOnSchedule
  <2> DEFINE at == At(observed.events, kind)
  <2>1. \A i \in at \cap observed.reviews : n # 0 /\ Nth(observed.events, kind, i) % n = 0
    BY DEF Rhythm
  <2>2. n # 0 => Cardinality(at \cap observed.reviews) = Cardinality(at) \div n
    BY DEF Rhythm
  <2> QED
    BY <2>1, <2>2 DEF OnSchedule, At, Nth
<1> QED
  BY <1>1, <1>2, <1>3, PTL DEF Spec
=============================================================================
