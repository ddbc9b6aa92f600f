---------------------------- MODULE TallyProofs ----------------------------
(***************************************************************************)
(* What the sum of the members' quantities does when one of them changes,  *)
(* and how sums of numbers add up, for any number of members and any       *)
(* quantities.                                                             *)
(***************************************************************************)
EXTENDS Tally, FiniteSetTheorems, TLAPS

LEMMA UnitsFinite ==
  ASSUME NEW f PROVE IsFiniteSet(Units(f)) /\ Total(f) \in Nat
<1>1. IsFiniteSet(Qty)
  BY TallyAssumption, FS_Interval DEF Qty
<1>2. IsFiniteSet(Users \X Qty)
  BY <1>1, TallyAssumption, FS_Product
<1>3. Units(f) \in SUBSET (Users \X Qty)
  BY DEF Units
<1>4. IsFiniteSet(Units(f))
  BY <1>2, <1>3, FS_Subset
<1> QED BY <1>4, FS_CardinalityType DEF Total

\* The members other than u, and u on its own.
LEMMA TotalSplit ==
  ASSUME NEW f \in Shares, NEW u \in Users
  PROVE  Total(f) = Total([f EXCEPT ![u] = 0]) + f[u]
<1> DEFINE others == Units([f EXCEPT ![u] = 0])
           own == {u} \X (1 .. f[u])
<1>1. f[u] \in 0 .. MaxQty /\ MaxQty \in Nat
  BY TallyAssumption DEF Shares
<1>2. IsFiniteSet(own) /\ Cardinality(own) = f[u]
  <2>1. IsFiniteSet({u}) /\ Cardinality({u}) = 1
    BY FS_Singleton
  <2>2. IsFiniteSet(1 .. f[u]) /\ Cardinality(1 .. f[u]) = f[u]
    <3>1. \A b \in Int : /\ IsFiniteSet(1 .. b)
                         /\ Cardinality(1 .. b) = IF 1 > b THEN 0 ELSE b - 1 + 1
      BY FS_Interval
    <3>2. f[u] \in Int /\ f[u] >= 0
      BY <1>1
    <3> HIDE DEF own
    <3> QED BY <3>1, <3>2
  <2>3. IsFiniteSet(own) /\ Cardinality(own) = Cardinality({u}) * Cardinality(1 .. f[u])
    BY <2>1, <2>2, FS_Product
  <2> QED BY <1>1, <2>1, <2>2, <2>3
<1>3. others \cap own = {}
  BY DEF Units, Shares
<1>4. Units(f) = others \cup own
  <2>1. \A x \in Users \X Qty : x \in Units(f) <=> x \in others \/ x \in own
    <3> TAKE x \in Users \X Qty
    <3>1. CASE x[1] = u
      BY <3>1, <1>1 DEF Units, Qty, Shares
    <3>2. CASE x[1] # u
      BY <3>2 DEF Units, Qty, Shares
    <3> QED BY <3>1, <3>2
  <2>2. own \subseteq Users \X Qty
    BY <1>1 DEF Qty
  <2>3. others \subseteq Users \X Qty /\ Units(f) \subseteq Users \X Qty
    BY DEF Units
  <2> HIDE DEF others, own
  <2> QED BY <2>1, <2>2, <2>3
<1>5. IsFiniteSet(others) /\ Cardinality(others) \in Nat
  BY UnitsFinite DEF Total
<1>6. Cardinality({}) = 0
  BY FS_EmptySet
<1> HIDE DEF others, own
<1>7. Cardinality(Units(f)) = Cardinality(others) + Cardinality(own) - Cardinality(others \cap own)
  BY <1>2, <1>4, <1>5, FS_Union
<1>8. Cardinality(Units(f)) = Cardinality(others) + f[u]
  <2>1. f[u] \in Nat
    BY <1>1
  <2>2. Cardinality(own) = f[u]
    BY <1>2
  <2>3. Cardinality(others \cap own) = 0
    BY <1>3, <1>6, Zenon
  <2>4. Cardinality(others) \in Nat
    BY <1>5
  <2> QED BY <1>7, <2>1, <2>2, <2>3, <2>4
<1> QED BY <1>8 DEF Total, others

\* What one member's change does to the sum.
LEMMA TotalUpdate ==
  ASSUME NEW f \in Shares, NEW u \in Users, NEW n \in 0 .. MaxQty
  PROVE  /\ [f EXCEPT ![u] = n] \in Shares
         /\ Total([f EXCEPT ![u] = n]) = Total(f) - f[u] + n
         /\ Total([f EXCEPT ![u] = n]) = Total([f EXCEPT ![u] = 0]) + n
<1> DEFINE g == [f EXCEPT ![u] = n]
           z == [f EXCEPT ![u] = 0]
<1>1. g \in Shares /\ g[u] = n /\ [g EXCEPT ![u] = 0] = z
  BY DEF Shares
<1>2. Total(g) = Total([g EXCEPT ![u] = 0]) + g[u]
  BY <1>1, TotalSplit
<1>3. Total(f) = Total(z) + f[u]
  BY TotalSplit
<1>4. Total(g) \in Nat /\ Total(f) \in Nat /\ Total(z) \in Nat
  BY UnitsFinite
<1>5. f[u] \in Nat /\ n \in Nat
  BY TallyAssumption DEF Shares
<1> HIDE DEF g, z
<1>6. Total(g) = Total(z) + n
  BY <1>1, <1>2
<1> QED BY <1>1, <1>3, <1>4, <1>5, <1>6 DEF g, z

LEMMA TotalOfNothing == Nothing \in Shares /\ Total(Nothing) = 0
<1>1. Units(Nothing) = {}
  BY DEF Units, Nothing, Qty
<1> QED BY <1>1, FS_EmptySet, TallyAssumption DEF Total, Nothing, Shares

LEMMA ShareWithinTotal ==
  ASSUME NEW f \in Shares, NEW u \in Users PROVE f[u] <= Total(f)
<1>1. Total(f) = Total([f EXCEPT ![u] = 0]) + f[u]
  BY TotalSplit
<1>2. Total([f EXCEPT ![u] = 0]) \in Nat /\ f[u] \in Nat
  BY UnitsFinite, TallyAssumption DEF Shares
<1> QED BY <1>1, <1>2

\* A quantity that stays below another for each member and reaches its sum is
\* that other.
LEMMA TotalMonotone ==
  ASSUME NEW f \in Shares, NEW g \in Shares, \A u \in Users : f[u] <= g[u]
  PROVE  /\ Total(f) <= Total(g)
         /\ Total(g) <= Total(f) => f = g
<1>1. IsFiniteSet(Units(g)) /\ Total(f) \in Nat /\ Total(g) \in Nat
  BY UnitsFinite
<1>2. Units(f) \in SUBSET Units(g)
  <2>1. \A u \in Users : f[u] \in Int /\ g[u] \in Int
    BY TallyAssumption DEF Shares
  <2> QED BY <2>1, TallyAssumption DEF Units, Qty
<1>3. /\ Total(f) <= Total(g)
      /\ Total(g) = Total(f) => Units(g) = Units(f)
  BY <1>1, <1>2, FS_Subset DEF Total
<1>4. ASSUME Units(g) = Units(f) PROVE f = g
  <2>1. ASSUME NEW u \in Users PROVE f[u] = g[u]
    <3>1. f[u] \in 0 .. MaxQty /\ g[u] \in 0 .. MaxQty /\ f[u] <= g[u]
      BY DEF Shares
    <3>2. SUFFICES ASSUME f[u] < g[u] PROVE FALSE
      BY <3>1, TallyAssumption
    <3>3. <<u, g[u]>> \in Units(g) /\ <<u, g[u]>> \notin Units(f)
      BY <3>1, <3>2, TallyAssumption DEF Units, Qty
    <3> QED BY <3>3, <1>4
  <2> QED BY <2>1 DEF Shares
<1> QED BY <1>1, <1>3, <1>4
-----------------------------------------------------------------------------
(* Sums of any numbers.  The fold adds them one by one, so what a sum is, is  *)
(* proved by taking a least subset for which it is not.                        *)

\* The sums of f over the subsets of S, as the fold computes them: one element,
\* always the same of a set, is added to the sum of the others.
Pick(s) == CHOOSE x \in s : TRUE
Rest(s) == s \ {Pick(s)}
AreSums(g, S, f) ==
  g = [s \in SUBSET S |-> IF s = {} THEN 0 ELSE f[Pick(s)] + g[Rest(s)]]
Sums(f) == CHOOSE g : AreSums(g, DOMAIN f, f)

LEMMA RestIsSmaller ==
  ASSUME NEW s, s # {} PROVE Pick(s) \in s /\ Rest(s) \subseteq s /\ Rest(s) # s
BY DEF Pick, Rest

\* A least subset among some: what stands for induction over finite sets.
LEMMA LeastSubset ==
  ASSUME NEW S, IsFiniteSet(S), NEW T \in SUBSET (SUBSET S), T # {}
  PROVE  \E s \in T : \A t \in T : t \subseteq s => t = s
<1>1. IsWellFoundedOn(StrictSubsetOrdering(S), SUBSET S)
  BY FS_StrictSubsetOrderingWellFounded, FS_FiniteSubsetsOfFinite
<1>2. \E s \in T : \A t \in T : ~(<<t, s>> \in StrictSubsetOrdering(S))
  BY <1>1, WFMin
<1>3. PICK s \in T : \A t \in T : ~(<<t, s>> \in StrictSubsetOrdering(S))
  BY <1>2
<1>4. ASSUME NEW t \in T, t \subseteq s, t # s PROVE FALSE
  <2>1. <<t, s>> \in (SUBSET S) \X (SUBSET S)
    OBVIOUS
  <2> QED BY <1>3, <1>4, <2>1 DEF StrictSubsetOrdering
<1> QED BY <1>3, <1>4

\* Induction over the subsets of a finite set, along Rest.
LEMMA AllSubsets ==
  ASSUME NEW S, IsFiniteSet(S), NEW T \in SUBSET (SUBSET S), {} \in T,
         \A s \in SUBSET S : s # {} /\ Rest(s) \in T => s \in T
  PROVE  \A s \in SUBSET S : s \in T
<1> DEFINE U == (SUBSET S) \ T
<1> SUFFICES ASSUME U # {} PROVE FALSE
  OBVIOUS
<1>1. U \in SUBSET (SUBSET S)
  OBVIOUS
<1> HIDE DEF U
<1>2. \E s \in U : \A t \in U : t \subseteq s => t = s
  BY <1>1, LeastSubset
<1>3. PICK s \in U : \A t \in U : t \subseteq s => t = s
  BY <1>2
<1>4. s \in SUBSET S /\ s \notin T /\ s # {}
  BY DEF U
<1>5. Rest(s) \in SUBSET S /\ Rest(s) \notin U
  BY <1>3, <1>4, RestIsSmaller
<1> QED BY <1>4, <1>5 DEF U

LEMMA SumsAreOne ==
  ASSUME NEW S, IsFiniteSet(S), NEW f, NEW g, NEW h, AreSums(g, S, f), AreSums(h, S, f)
  PROVE  g = h
<1> DEFINE T == {s \in SUBSET S : g[s] = h[s]}
<1>1. T \in SUBSET (SUBSET S) /\ {} \in T
  BY DEF AreSums
<1>2. ASSUME NEW s \in SUBSET S, s # {}, Rest(s) \in T PROVE s \in T
  <2>1. g[s] = f[Pick(s)] + g[Rest(s)] /\ h[s] = f[Pick(s)] + h[Rest(s)]
    BY <1>2 DEF AreSums
  <2> QED BY <1>2, <2>1
<1> HIDE DEF T
<1>3. \A s \in SUBSET S : s \in T
  BY <1>1, <1>2, AllSubsets
<1>4. \A s \in SUBSET S : g[s] = h[s]
  BY <1>3 DEF T
<1>5. g = [s \in SUBSET S |-> g[s]] /\ h = [s \in SUBSET S |-> h[s]]
  BY DEF AreSums
<1> QED BY <1>4, <1>5

LEMMA SumsExist ==
  ASSUME NEW S, IsFiniteSet(S), NEW f PROVE \E g : AreSums(g, S, f)
<1> DEFINE T == {A \in SUBSET S : ~ \E g : AreSums(g, A, f)}
<1>1. CASE T # {}
  <2>6. T \in SUBSET (SUBSET S)
    OBVIOUS
  <2>7. \E A \in T : \A B \in T : B \subseteq A => B = A
    <3> HIDE DEF T
    <3> QED BY <1>1, <2>6, LeastSubset
  <2>1. PICK A \in T : \A B \in T : B \subseteq A => B = A
    BY <2>7
  <2> DEFINE P(B) == CHOOSE g : AreSums(g, B, f)
             h == [s \in SUBSET A |-> IF s = {} THEN 0 ELSE f[Pick(s)] + P(Rest(s))[Rest(s)]]
  <2>2. ASSUME NEW B, B \subseteq A, B # A PROVE AreSums(P(B), B, f)
    <3>1. B \in SUBSET S /\ B \notin T
      BY <2>1, <2>2
    <3> QED BY <3>1
  <2> HIDE DEF P
  <2>3. ASSUME NEW B, B \subseteq A, B # A, B # {} PROVE P(B)[Rest(B)] = P(Rest(B))[Rest(B)]
    <3> DEFINE C == Rest(B)
               r == [s \in SUBSET C |-> P(B)[s]]
    <3>1. C \subseteq B /\ C \subseteq A /\ C # A /\ C \in SUBSET S
      BY <2>3, RestIsSmaller
    <3>2. AreSums(P(B), B, f) /\ AreSums(P(C), C, f)
      BY <2>2, <2>3, <3>1
    <3>3. \A s \in SUBSET C : r[s] = IF s = {} THEN 0 ELSE f[Pick(s)] + r[Rest(s)]
      <4>1. TAKE s \in SUBSET C
      <4>2. s \in SUBSET B /\ r[s] = P(B)[s]
        BY <3>1
      <4>3. CASE s = {}
        BY <3>2, <4>2, <4>3 DEF AreSums
      <4>4. CASE s # {}
        <5>1. Rest(s) \in SUBSET C
          BY <4>4, RestIsSmaller
        <5>2. r[Rest(s)] = P(B)[Rest(s)]
          BY <5>1
        <5>3. P(B)[s] = f[Pick(s)] + P(B)[Rest(s)]
          BY <3>2, <4>2, <4>4 DEF AreSums
        <5> QED BY <4>2, <4>4, <5>2, <5>3
      <4> QED BY <4>3, <4>4
    <3>4. AreSums(r, C, f)
      <4> DEFINE q == [s \in SUBSET C |-> IF s = {} THEN 0 ELSE f[Pick(s)] + r[Rest(s)]]
      <4>1. r = q
        BY <3>3
      <4> QED BY <4>1 DEF AreSums
    <3>5. r = P(C)
      <4>1. IsFiniteSet(C)
        BY <3>1, FS_Subset
      <4> HIDE DEF r, C
      <4> QED BY <3>2, <3>4, <4>1, SumsAreOne
    <3> QED BY <3>5
  <2>4. \A s \in SUBSET A : h[s] = IF s = {} THEN 0 ELSE f[Pick(s)] + h[Rest(s)]
    <3>1. TAKE s \in SUBSET A
    <3>2. CASE s = {}
      BY <3>2
    <3>3. CASE s # {}
      <4> DEFINE B == Rest(s)
      <4>1. B \subseteq A /\ B # A
        BY <3>3, RestIsSmaller
      <4>2. AreSums(P(B), B, f)
        BY <2>2, <4>1
      <4>3. h[s] = f[Pick(s)] + P(B)[B]
        BY <3>3
      <4>4. h[B] = P(B)[B]
        <5>1. CASE B = {}
          BY <4>1, <4>2, <5>1 DEF AreSums
        <5>2. CASE B # {}
          <6>1. h[B] = f[Pick(B)] + P(Rest(B))[Rest(B)]
            BY <4>1, <5>2
          <6>2. P(B)[B] = f[Pick(B)] + P(B)[Rest(B)]
            <7>1. B \in SUBSET B
              OBVIOUS
            <7> HIDE DEF B
            <7> QED BY <4>2, <5>2, <7>1 DEF AreSums
          <6> QED BY <2>3, <4>1, <5>2, <6>1, <6>2
        <5> QED BY <5>1, <5>2
      <4> QED BY <3>3, <4>3, <4>4
    <3> QED BY <3>2, <3>3
  <2>5. AreSums(h, A, f)
    <3> DEFINE q == [s \in SUBSET A |-> IF s = {} THEN 0 ELSE f[Pick(s)] + h[Rest(s)]]
    <3>1. h = q
      BY <2>4
    <3> QED BY <3>1 DEF AreSums
  <2> QED BY <2>5
<1>2. CASE T = {}
  BY <1>2
<1> QED BY <1>1, <1>2

\* What Sum and its partial sums are.
AddsUp(f, S) ==
  /\ Sum(f) = Sums(f)[S] /\ Sum(f) \in Nat
  /\ Sums(f)[{}] = 0
  /\ \A s \in SUBSET S : s # {} => /\ Pick(s) \in S /\ Rest(s) \in SUBSET S
                                  /\ Sums(f)[s] = f[Pick(s)] + Sums(f)[Rest(s)]
  /\ \A s \in SUBSET S : Sums(f)[s] \in Nat

LEMMA SumsStep ==
  ASSUME NEW S, IsFiniteSet(S), NEW f \in [S -> Nat] PROVE AddsUp(f, S)
<1>1. DOMAIN f = S
  OBVIOUS
<1>2. Sum(f) = Sums(f)[S]
  BY <1>1
  DEF Sum, FoldFunction, FoldFunctionOnSet, MapThenFoldSet, Sums, AreSums, Pick, Rest
<1>3. AreSums(Sums(f), S, f)
  BY <1>1, SumsExist DEF Sums
<1>4. /\ Sums(f)[{}] = 0
      /\ \A s \in SUBSET S : s # {} => Sums(f)[s] = f[Pick(s)] + Sums(f)[Rest(s)]
  BY <1>3 DEF AreSums
<1> DEFINE T == {s \in SUBSET S : Sums(f)[s] \in Nat}
<1>5. T \in SUBSET (SUBSET S) /\ {} \in T
  BY <1>4
<1>6. ASSUME NEW s \in SUBSET S, s # {}, Rest(s) \in T PROVE s \in T
  <2>1. f[Pick(s)] \in Nat /\ Sums(f)[Rest(s)] \in Nat
    BY <1>6, RestIsSmaller
  <2> QED BY <1>4, <1>6, <2>1
<1> HIDE DEF T
<1>7. \A s \in SUBSET S : s \in T
  BY <1>5, <1>6, AllSubsets
<1>8. \A s \in SUBSET S : Sums(f)[s] \in Nat
  BY <1>7 DEF T
<1>9. \A s \in SUBSET S : s # {} => Pick(s) \in S /\ Rest(s) \in SUBSET S
  BY RestIsSmaller
<1> QED BY <1>2, <1>4, <1>8, <1>9 DEF AddsUp

LEMMA SumOfSums ==
  ASSUME NEW S, IsFiniteSet(S), NEW f \in [S -> Nat], NEW g \in [S -> Nat],
         NEW h \in [S -> Nat], \A x \in S : h[x] = f[x] + g[x]
  PROVE  Sum(h) = Sum(f) + Sum(g)
<1> DEFINE T == {s \in SUBSET S : Sums(h)[s] = Sums(f)[s] + Sums(g)[s]}
<1>1. AddsUp(f, S) /\ AddsUp(g, S) /\ AddsUp(h, S)
  BY SumsStep
<1>2. T \in SUBSET (SUBSET S) /\ {} \in T
  BY <1>1 DEF AddsUp
<1>3. ASSUME NEW s \in SUBSET S, s # {}, Rest(s) \in T PROVE s \in T
  <2>1. /\ Sums(h)[s] = h[Pick(s)] + Sums(h)[Rest(s)]
        /\ Sums(f)[s] = f[Pick(s)] + Sums(f)[Rest(s)]
        /\ Sums(g)[s] = g[Pick(s)] + Sums(g)[Rest(s)]
        /\ Pick(s) \in S /\ Sums(f)[Rest(s)] \in Nat /\ Sums(g)[Rest(s)] \in Nat
    BY <1>1, <1>3 DEF AddsUp
  <2>2. f[Pick(s)] \in Nat /\ g[Pick(s)] \in Nat /\ h[Pick(s)] = f[Pick(s)] + g[Pick(s)]
    BY <2>1
  <2>3. Sums(h)[Rest(s)] = Sums(f)[Rest(s)] + Sums(g)[Rest(s)]
    BY <1>3
  <2>4. Sums(h)[s] = Sums(f)[s] + Sums(g)[s]
    BY ONLY <2>1, <2>2, <2>3
  <2> QED BY <2>4
<1>4. S \in T
  <2> HIDE DEF T
  <2> QED BY <1>2, <1>3, AllSubsets
<1>5. Sums(h)[S] = Sums(f)[S] + Sums(g)[S]
  BY <1>4
<1> QED BY <1>1, <1>5 DEF AddsUp

LEMMA SumScaled ==
  ASSUME NEW S, IsFiniteSet(S), NEW f \in [S -> Nat], NEW h \in [S -> Nat], NEW k \in Nat,
         \A x \in S : h[x] = k * f[x]
  PROVE  Sum(h) = k * Sum(f)
<1> DEFINE T == {s \in SUBSET S : Sums(h)[s] = k * Sums(f)[s]}
<1>1. AddsUp(f, S) /\ AddsUp(h, S)
  BY SumsStep
<1>2. T \in SUBSET (SUBSET S) /\ {} \in T
  BY <1>1 DEF AddsUp
<1>3. ASSUME NEW s \in SUBSET S, s # {}, Rest(s) \in T PROVE s \in T
  <2>1. /\ Sums(h)[s] = h[Pick(s)] + Sums(h)[Rest(s)]
        /\ Sums(f)[s] = f[Pick(s)] + Sums(f)[Rest(s)]
        /\ Pick(s) \in S /\ Sums(f)[Rest(s)] \in Nat
    BY <1>1, <1>3 DEF AddsUp
  <2>2. f[Pick(s)] \in Nat /\ h[Pick(s)] = k * f[Pick(s)]
    BY <2>1
  <2>3. Sums(h)[Rest(s)] = k * Sums(f)[Rest(s)]
    BY <1>3
  <2>4. \A a, b \in Nat : k * (a + b) = k * a + k * b
    OBVIOUS
  <2>5. Sums(h)[s] = k * Sums(f)[s]
    BY <2>1, <2>2, <2>3, <2>4
  <2> QED BY <2>5
<1>4. S \in T
  <2> HIDE DEF T
  <2> QED BY <1>2, <1>3, AllSubsets
<1>5. Sums(h)[S] = k * Sums(f)[S]
  BY <1>4
<1> QED BY <1>1, <1>5 DEF AddsUp

LEMMA SumMonotone ==
  ASSUME NEW S, IsFiniteSet(S), NEW f \in [S -> Nat], NEW g \in [S -> Nat],
         \A x \in S : f[x] <= g[x]
  PROVE  Sum(f) <= Sum(g)
<1> DEFINE h == [x \in S |-> g[x] - f[x]]
<1>1. h \in [S -> Nat] /\ \A x \in S : g[x] = f[x] + h[x]
  OBVIOUS
<1> HIDE DEF h
<1>2. Sum(g) = Sum(f) + Sum(h)
  BY <1>1, SumOfSums
<1>3. Sum(f) \in Nat /\ Sum(h) \in Nat
  BY <1>1, SumsStep DEF AddsUp
<1> QED BY <1>2, <1>3

LEMMA SumOfNothing ==
  ASSUME NEW S, IsFiniteSet(S), NEW f \in [S -> Nat], \A x \in S : f[x] = 0
  PROVE  Sum(f) = 0
<1>1. \A x \in S : f[x] = 0 * f[x]
  OBVIOUS
<1>2. Sum(f) = 0 * Sum(f)
  BY <1>1, SumScaled
<1>3. Sum(f) \in Nat
  BY SumsStep DEF AddsUp
<1> QED BY <1>2, <1>3

\* Rows first or columns first.
LEMMA SumExchange ==
  ASSUME NEW S, IsFiniteSet(S), NEW R, IsFiniteSet(R), NEW w \in [S -> [R -> Nat]]
  PROVE  Sum([x \in S |-> Sum(w[x])]) = Sum([y \in R |-> Sum([x \in S |-> w[x][y]])])
<1> DEFINE col(y) == [x \in S |-> w[x][y]]
           cols == [y \in R |-> Sum(col(y))]
           part(s) == [x \in S |-> Sums(w[x])[s]]
           T == {s \in SUBSET R : Sum(part(s)) = Sums(cols)[s]}
<1>1. \A y \in R : col(y) \in [S -> Nat] /\ Sum(col(y)) \in Nat
  <2> TAKE y \in R
  <2>1. col(y) \in [S -> Nat]
    OBVIOUS
  <2> HIDE DEF col
  <2> QED BY <2>1, SumsStep DEF AddsUp
<1>2. cols \in [R -> Nat]
  BY <1>1
<1>3. AddsUp(cols, R) /\ \A x \in S : w[x] \in [R -> Nat] /\ AddsUp(w[x], R)
  <2>1. \A x \in S : w[x] \in [R -> Nat]
    OBVIOUS
  <2> HIDE DEF cols
  <2> QED BY <1>2, <2>1, SumsStep
<1>4. \A s \in SUBSET R : part(s) \in [S -> Nat]
  BY <1>3 DEF AddsUp
<1>5. T \in SUBSET (SUBSET R) /\ {} \in T
  <2>1. \A x \in S : part({})[x] = 0
    BY <1>3 DEF AddsUp
  <2>2. part({}) \in [S -> Nat]
    BY <1>4
  <2>3. Sum(part({})) = 0
    <3> HIDE DEF part
    <3> QED BY <2>1, <2>2, SumOfNothing
  <2>4. Sums(cols)[{}] = 0
    BY <1>3 DEF AddsUp
  <2> QED BY <2>3, <2>4
<1>6. ASSUME NEW s \in SUBSET R, s # {}, Rest(s) \in T PROVE s \in T
  <2>1. Pick(s) \in R /\ Rest(s) \in SUBSET R
    BY <1>6, RestIsSmaller
  <2>2. \A x \in S : part(s)[x] = col(Pick(s))[x] + part(Rest(s))[x]
    <3> TAKE x \in S
    <3>1. Sums(w[x])[s] = w[x][Pick(s)] + Sums(w[x])[Rest(s)]
      BY <1>3, <1>6 DEF AddsUp
    <3> QED BY <3>1
  <2>3. /\ part(s) \in [S -> Nat] /\ part(Rest(s)) \in [S -> Nat] /\ col(Pick(s)) \in [S -> Nat]
    BY <1>1, <1>4, <2>1
  <2>4. Sum(part(s)) = Sum(col(Pick(s))) + Sum(part(Rest(s)))
    <3> HIDE DEF part, col
    <3> QED BY ONLY IsFiniteSet(S), <2>2, <2>3, SumOfSums
  <2>5. cols[Pick(s)] = Sum(col(Pick(s)))
    BY <2>1
  <2>6. Sums(cols)[s] = cols[Pick(s)] + Sums(cols)[Rest(s)]
    <3> HIDE DEF cols
    <3> QED BY ONLY <1>3, <1>6 DEF AddsUp
  <2>7. Sum(part(Rest(s))) = Sums(cols)[Rest(s)]
    BY <1>6
  <2>8. Sum(part(s)) = Sums(cols)[s]
    BY <2>4, <2>5, <2>6, <2>7
  <2> QED BY <2>8
<1>7. R \in T
  <2> HIDE DEF T
  <2> QED BY <1>5, <1>6, AllSubsets
<1>8. Sum(part(R)) = Sums(cols)[R]
  BY <1>7
<1>9. Sums(cols)[R] = Sum(cols)
  BY <1>3 DEF AddsUp
<1>10. part(R) = [x \in S |-> Sum(w[x])]
  BY <1>3 DEF AddsUp
<1> QED BY <1>8, <1>9, <1>10

\* One for each element of D.
LEMMA SumOfOnes ==
  ASSUME NEW S, IsFiniteSet(S), NEW D \in SUBSET S
  PROVE  Sum([x \in S |-> IF x \in D THEN 1 ELSE 0]) = Cardinality(D)
<1> DEFINE f == [x \in S |-> IF x \in D THEN 1 ELSE 0]
           T == {s \in SUBSET S : Sums(f)[s] = Cardinality(D \cap s)}
<1>1. f \in [S -> Nat] /\ \A x \in S : f[x] = IF x \in D THEN 1 ELSE 0
  OBVIOUS
<1> HIDE DEF f
<1>7. AddsUp(f, S)
  BY <1>1, SumsStep
<1>2. T \in SUBSET (SUBSET S) /\ {} \in T
  <2>1. D \cap {} = {}
    OBVIOUS
  <2> QED BY <1>7, <2>1, FS_EmptySet DEF AddsUp
<1>3. ASSUME NEW s \in SUBSET S, s # {}, Rest(s) \in T PROVE s \in T
  <2>1. /\ Pick(s) \in s /\ Pick(s) \in S /\ Rest(s) \in SUBSET S
        /\ Rest(s) = s \ {Pick(s)}
    BY <1>3, RestIsSmaller DEF Rest
  <2>2. /\ Sums(f)[s] = f[Pick(s)] + Sums(f)[Rest(s)]
        /\ Sums(f)[Rest(s)] = Cardinality(D \cap Rest(s))
    BY <1>3, <1>7 DEF AddsUp
  <2>3. IsFiniteSet(D \cap Rest(s)) /\ Cardinality(D \cap Rest(s)) \in Nat
    BY FS_Subset, FS_CardinalityType
  <2>4. Sums(f)[s] = Cardinality(D \cap s)
    <3>1. CASE Pick(s) \in D
      <4>1. D \cap s = (D \cap Rest(s)) \cup {Pick(s)} /\ Pick(s) \notin D \cap Rest(s)
        BY <2>1, <3>1
      <4>2. Cardinality(D \cap s) = Cardinality(D \cap Rest(s)) + 1
        BY <2>3, <4>1, FS_AddElement
      <4>3. f[Pick(s)] = 1
        BY <1>1, <2>1, <3>1
      <4>4. Sums(f)[s] = 1 + Cardinality(D \cap Rest(s))
        BY <2>2, <4>3
      <4> QED BY <2>3, <4>2, <4>4
    <3>2. CASE Pick(s) \notin D
      <4>1. D \cap s = D \cap Rest(s)
        BY <2>1, <3>2
      <4>2. f[Pick(s)] = 0
        BY <1>1, <2>1, <3>2
      <4>3. Sums(f)[s] = 0 + Cardinality(D \cap Rest(s))
        BY <2>2, <4>2
      <4> QED BY <2>3, <4>1, <4>3
    <3> QED BY <3>1, <3>2
  <2> QED BY <2>4
<1>4. S \in T
  <2> HIDE DEF T
  <2> QED BY <1>2, <1>3, AllSubsets
<1>5. D \cap S = D
  OBVIOUS
<1>6. Sums(f)[S] = Cardinality(D)
  BY <1>4, <1>5
<1>8. Sum(f) = Cardinality(D)
  BY <1>6, <1>7 DEF AddsUp
<1> QED BY <1>8 DEF f

\* Counting the units one by one, and adding the members' quantities.
LEMMA TotalIsSum == ASSUME NEW f \in Shares PROVE Total(f) = Sum(f)
<1> DEFINE upTo(s) == [u \in Users |-> IF u \in s THEN f[u] ELSE 0]
           T == {s \in SUBSET Users : Total(upTo(s)) = Sums(f)[s]}
<1>1. IsFiniteSet(Users) /\ f \in [Users -> Nat]
  BY TallyAssumption DEF Shares
<1>2. AddsUp(f, Users)
  BY <1>1, SumsStep
<1>3. T \in SUBSET (SUBSET Users) /\ {} \in T
  <2>1. upTo({}) = Nothing
    BY DEF Nothing
  <2> QED BY <1>2, <2>1, TotalOfNothing DEF AddsUp
<1>4. ASSUME NEW s \in SUBSET Users, s # {}, Rest(s) \in T PROVE s \in T
  <2>1. Pick(s) \in s /\ Pick(s) \in Users /\ Rest(s) \in SUBSET Users /\ Rest(s) = s \ {Pick(s)}
    BY <1>4, RestIsSmaller DEF Rest
  <2> DEFINE g == upTo(s)
             u == Pick(s)
  <2>2. g \in Shares /\ g[u] = f[u] /\ [g EXCEPT ![u] = 0] = upTo(Rest(s))
    <3>1. f \in [Users -> 0 .. MaxQty] /\ 0 \in 0 .. MaxQty
      BY TallyAssumption DEF Shares
    <3>2. g \in Shares /\ g[u] = f[u]
      BY <2>1, <3>1 DEF Shares
    <3>3. \A v \in Users : [g EXCEPT ![u] = 0][v] = upTo(Rest(s))[v]
      BY <2>1
    <3>4. [g EXCEPT ![u] = 0] = upTo(Rest(s))
      BY <3>3
    <3> QED BY <3>2, <3>4
  <2>3. Total(g) = Total(upTo(Rest(s))) + f[u]
    <3> HIDE DEF g, u
    <3> QED BY <2>1, <2>2, TotalSplit DEF u
  <2>4. Sums(f)[s] = f[u] + Sums(f)[Rest(s)] /\ f[u] \in Nat
    BY <1>1, <1>2, <1>4, <2>1 DEF AddsUp
  <2>5. Total(upTo(Rest(s))) = Sums(f)[Rest(s)] /\ Sums(f)[Rest(s)] \in Nat
    BY <1>2, <1>4, <2>1 DEF AddsUp
  <2> HIDE DEF g, u
  <2>6. Total(g) = Sums(f)[s]
    BY <2>3, <2>4, <2>5
  <2> QED BY <2>6 DEF g
<1>5. Users \in T
  <2> HIDE DEF T
  <2> QED BY <1>1, <1>3, <1>4, AllSubsets
<1>6. upTo(Users) = f
  BY <1>1
<1>7. Total(f) = Sums(f)[Users]
  BY <1>5, <1>6
<1> QED BY <1>2, <1>7 DEF AddsUp
=============================================================================
