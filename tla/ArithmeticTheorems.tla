-------------------------- MODULE ArithmeticTheorems --------------------------
(***************************************************************************)
(* Products and quotients of natural numbers, for the provers, which do    *)
(* linear arithmetic only, and facts about SumFunction, the sum of the     *)
(* values of a function with a finite domain, with which the               *)
(* specifications state that a ledger's total is the sum of its entries.   *)
(* The library defines SumFunction by a recursive function on the subsets  *)
(* of the domain, so the induction here is on the cardinality of a subset, *)
(* by least counterexample.                                                *)
(***************************************************************************)
EXTENDS Integers, Functions, FiniteSets, FiniteSetTheorems,
        WellFoundedInduction, TLAPS

\* A product grows with either factor.
LEMMA MulMonotone ==
  ASSUME NEW a \in Nat, NEW b \in Nat, NEW c \in Nat, a <= b
  PROVE  a * c <= b * c /\ c * a <= c * b
<1>1. PICK d \in Nat : b = a + d
  <2>1. b - a \in Nat /\ b = a + (b - a)
    OBVIOUS
  <2> QED
    BY <2>1
<1>2. b * c = a * c + d * c /\ c * a = a * c /\ c * b = b * c
  BY <1>1
<1>3. d * c \in Nat /\ a * c \in Nat
  OBVIOUS
<1> QED
  BY <1>2, <1>3

\* A quotient lies at or above a bound exactly when the dividend does.
LEMMA QuotientBound ==
  ASSUME NEW x \in Nat, NEW y \in Nat \ {0}, NEW k \in Nat
  PROVE  k <= x \div y <=> k * y <= x
<1> DEFINE q == x \div y
           r == x % y
<1>1. q \in Nat /\ r \in 0 .. (y - 1) /\ x = y * q + r
  OBVIOUS
<1> HIDE DEF q, r
<1>2. y * q = q * y /\ (q + 1) * y = q * y + y
  BY <1>1
<1>3. ASSUME k <= q
      PROVE  k * y <= x
  <2>1. k * y <= q * y
    BY <1>1, <1>3, MulMonotone
  <2> QED
    BY <1>1, <1>2, <2>1
<1>4. ASSUME ~ (k <= q)
      PROVE  ~ (k * y <= x)
  <2>1. q + 1 <= k
    BY <1>1, <1>4
  <2>2. (q + 1) * y <= k * y
    BY <1>1, <2>1, MulMonotone
  <2> QED
    BY <1>1, <1>2, <2>2
<1> QED
  BY <1>3, <1>4 DEF q

\* A quotient is at most what is divided.
LEMMA QuotientAtMost ==
  ASSUME NEW x \in Nat, NEW y \in Nat \ {0}
  PROVE  x \div y \in 0 .. x
<1> DEFINE q == x \div y
<1>1. q \in Nat
  OBVIOUS
<1>2. q * y <= x
  <2>1. q <= x \div y
    BY <1>1
  <2> HIDE DEF q
  <2> QED
    BY <1>1, <2>1, QuotientBound
<1>3. q * 1 <= q * y
  <2>1. 1 \in Nat /\ y \in Nat /\ 1 <= y
    OBVIOUS
  <2> HIDE DEF q
  <2> QED
    BY <1>1, <2>1, MulMonotone
<1>4. q * y \in Nat
  BY <1>1
<1> HIDE DEF q
<1>5. q <= x
  BY <1>1, <1>2, <1>3, <1>4
<1> QED
  BY <1>1, <1>5 DEF q

\* A quotient grows with what is divided.
LEMMA QuotientMonotone ==
  ASSUME NEW x \in Nat, NEW z \in Nat, NEW y \in Nat \ {0}, x <= z
  PROVE  x \div y <= z \div y
<1> DEFINE q == x \div y
<1>1. q \in Nat
  OBVIOUS
<1>2. q * y <= x
  <2>1. q <= x \div y
    BY <1>1
  <2> HIDE DEF q
  <2> QED
    BY <1>1, <2>1, QuotientBound
<1>3. q * y \in Nat
  BY <1>1
<1> HIDE DEF q
<1>4. q * y <= z
  BY <1>2, <1>3
<1>5. q <= z \div y
  BY <1>1, <1>4, QuotientBound
<1> QED
  BY <1>5 DEF q

\* A quotient rounded up covers what is divided.
LEMMA QuotientUp ==
  ASSUME NEW x \in Nat, NEW y \in Nat \ {0}
  PROVE  /\ (x + y - 1) \div y \in Nat
         /\ x <= ((x + y - 1) \div y) * y
<1> DEFINE z == x + y - 1
           q == z \div y
           r == z % y
<1>1. z \in Nat
  OBVIOUS
<1>2. q \in Nat /\ r \in 0 .. (y - 1) /\ z = y * q + r
  BY <1>1
<1> HIDE DEF q, r
<1>3. y * q = q * y /\ q * y \in Nat
  BY <1>2
<1>4. q \in Nat /\ x <= q * y
  BY <1>2, <1>3
<1> QED
  BY <1>4 DEF q

\* One more of the first factor adds the second.
LEMMA OneMore ==
  ASSUME NEW k \in Nat, NEW m \in Nat
  PROVE  (k + 1) * m = k * m + m
OBVIOUS

-------------------------------------------------------------------------------
(* Sums *)

Elem(s) == CHOOSE x \in s : TRUE

FoldStep(f, g, s) == IF s = {} THEN 0 ELSE f[Elem(s)] + g[s \ {Elem(s)}]

\* g is the partial-sum function that SumFunctionOnSet(f, S) recurs through.
IsFold(g, f, S) == g = [s \in SUBSET S |-> FoldStep(f, g, s)]

-------------------------------------------------------------------------------

\* Every nonempty set of natural numbers has a least element.
LEMMA LeastNat ==
  ASSUME NEW T \in SUBSET Nat, T # {}
  PROVE  \E n \in T : \A m \in T : n <= m
<1> DEFINE R == {ss \in Nat \X Nat : ss[1] < ss[2]}
<1>1. IsWellFoundedOn(R, Nat)
  BY NatLessThanWellFounded, Zenon DEF OpToRel
<1>2. ASSUME NEW x \in Nat, NEW y \in Nat, ~ (<<y, x>> \in R)
      PROVE  x <= y
  <2>1. /\ <<y, x>> \in Nat \X Nat
        /\ <<y, x>>[1] = y /\ <<y, x>>[2] = x
    OBVIOUS
  <2>2. ~ (y < x)
    BY <1>2, <2>1, SMT
  <2> QED
    BY <2>2, SMT
<1> HIDE DEF R
<1>3. \E x \in T : \A y \in T : ~ (<<y, x>> \in R)
  BY <1>1, WFMin
<1> QED
  BY <1>2, <1>3

\* A nonempty family of subsets of a finite set has a member that is empty
\* or drops out of the family when its chosen element is removed.
LEMMA SmallestMember ==
  ASSUME NEW S, IsFiniteSet(S), NEW B \in SUBSET (SUBSET S), B # {}
  PROVE  \E U \in B : \/ U = {}
                      \/ /\ U # {}
                         /\ Elem(U) \in U
                         /\ U \ {Elem(U)} \in SUBSET S
                         /\ U \ {Elem(U)} \notin B
<1> DEFINE N == {Cardinality(V) : V \in B}
<1>1. \A V \in B : IsFiniteSet(V) /\ Cardinality(V) \in Nat
  BY FS_Subset, FS_CardinalityType
<1>2. PICK n \in N : \A m \in N : n <= m
  <2>1. N \in SUBSET Nat /\ N # {}
    BY <1>1
  <2> HIDE DEF N
  <2> QED
    BY <2>1, LeastNat
<1>3. PICK U \in B : Cardinality(U) = n
  OBVIOUS
<1>4. CASE U = {}
  BY <1>4
<1>5. CASE U # {}
  <2>1. Elem(U) \in U
    BY <1>5 DEF Elem
  <2>2. Cardinality(U \ {Elem(U)}) = Cardinality(U) - 1
    BY <1>1, <2>1, FS_RemoveElement
  <2>3. U \ {Elem(U)} \notin B
    BY <1>1, <1>2, <1>3, <2>2
  <2> QED
    BY <1>5, <2>1, <2>3
<1> QED
  BY <1>4, <1>5

\* The recursion has at most one solution.
LEMMA FoldUnique ==
  ASSUME NEW S, IsFiniteSet(S), NEW f, NEW g, NEW h,
         IsFold(g, f, S), IsFold(h, f, S)
  PROVE  g = h
<1> DEFINE B == {U \in SUBSET S : g[U] # h[U]}
<1>1. ASSUME B # {}
      PROVE  FALSE
  <2>0. B \in SUBSET (SUBSET S)
    OBVIOUS
  <2> HIDE DEF B
  <2>1. PICK U \in B : \/ U = {}
                       \/ /\ U # {}
                          /\ Elem(U) \in U
                          /\ U \ {Elem(U)} \in SUBSET S
                          /\ U \ {Elem(U)} \notin B
    BY <1>1, <2>0, SmallestMember
  <2> USE DEF B
  <2>2. g[U] = FoldStep(f, g, U) /\ h[U] = FoldStep(f, h, U)
    BY DEF IsFold
  <2>3. FoldStep(f, g, U) = FoldStep(f, h, U)
    BY <2>1 DEF FoldStep
  <2> QED
    BY <2>2, <2>3
<1>2. \A U \in SUBSET S : g[U] = h[U]
  BY <1>1
<1>3. g = [U \in SUBSET S |-> g[U]] /\ h = [U \in SUBSET S |-> h[U]]
  BY DEF IsFold
<1> QED
  BY <1>2, <1>3

\* A function into the integers has a partial-sum function.
LEMMA FoldExists ==
  ASSUME NEW S, IsFiniteSet(S), NEW f \in [S -> Int]
  PROVE  \E g \in [SUBSET S -> Int] : IsFold(g, f, S)
<1> DEFINE Upto(n) == \E g \in [SUBSET S -> Int] :
                        \A U \in SUBSET S : Cardinality(U) <= n
                                              => g[U] = FoldStep(f, g, U)
           Bad == {n \in Nat : ~ Upto(n)}
<1>0. \A U \in SUBSET S : IsFiniteSet(U) /\ Cardinality(U) \in Nat
  BY FS_Subset, FS_CardinalityType
<1>1. Upto(0)
  <2> DEFINE g == [U \in SUBSET S |-> 0]
  <2>1. ASSUME NEW U \in SUBSET S, Cardinality(U) <= 0
        PROVE  g[U] = FoldStep(f, g, U)
    <3>1. U = {}
      BY <1>0, <2>1, FS_EmptySet
    <3> QED
      BY <3>1 DEF FoldStep
  <2>2. g \in [SUBSET S -> Int]
    OBVIOUS
  <2> QED
    BY <2>1, <2>2
<1>2. ASSUME NEW n \in Nat, Upto(n)
      PROVE  Upto(n + 1)
  <2>1. PICK g \in [SUBSET S -> Int] :
               \A U \in SUBSET S : Cardinality(U) <= n
                                     => g[U] = FoldStep(f, g, U)
    BY <1>2
  <2> DEFINE h == [U \in SUBSET S |-> IF Cardinality(U) <= n THEN g[U]
                                      ELSE FoldStep(f, g, U)]
  <2>2. ASSUME NEW U \in SUBSET S, U # {}
        PROVE  /\ Elem(U) \in U /\ Elem(U) \in S
               /\ U \ {Elem(U)} \in SUBSET S
               /\ Cardinality(U \ {Elem(U)}) = Cardinality(U) - 1
    <3>1. Elem(U) \in U
      BY <2>2 DEF Elem
    <3>2. Cardinality(U \ {Elem(U)}) = Cardinality(U) - 1
      BY <1>0, <3>1, FS_RemoveElement
    <3> QED
      BY <3>1, <3>2
  <2>3. ASSUME NEW U \in SUBSET S
        PROVE  FoldStep(f, g, U) \in Int
    <3>1. CASE U = {}
      BY <3>1 DEF FoldStep
    <3>2. CASE U # {}
      <4>1. f[Elem(U)] \in Int /\ g[U \ {Elem(U)}] \in Int
        BY <2>2, <3>2
      <4> QED
        BY <3>2, <4>1 DEF FoldStep
    <3> QED
      BY <3>1, <3>2
  <2>4. h \in [SUBSET S -> Int]
    BY <2>3
  <2>5. ASSUME NEW U \in SUBSET S, Cardinality(U) <= n + 1
        PROVE  h[U] = FoldStep(f, h, U)
    <3>1. CASE U = {}
      <4>1. Cardinality(U) <= n
        BY <3>1, <1>0, FS_EmptySet
      <4> QED
        BY <2>1, <3>1, <4>1 DEF FoldStep
    <3>2. CASE U # {}
      <4>1. Cardinality(U \ {Elem(U)}) <= n
        BY <1>0, <2>2, <2>5, <3>2
      <4>2. h[U \ {Elem(U)}] = g[U \ {Elem(U)}]
        BY <2>2, <3>2, <4>1
      <4>3. FoldStep(f, h, U) = FoldStep(f, g, U)
        BY <3>2, <4>2 DEF FoldStep
      <4> QED
        BY <2>1, <4>3
    <3> QED
      BY <3>1, <3>2
  <2> QED
    BY <2>4, <2>5
<1>3. ASSUME Bad # {}
      PROVE  FALSE
  <2> HIDE DEF Upto
  <2>1. PICK n \in Bad : \A m \in Bad : n <= m
    <3>1. Bad \in SUBSET Nat
      OBVIOUS
    <3> HIDE DEF Bad
    <3> QED
      BY <1>3, <3>1, LeastNat
  <2>2. n # 0
    BY <1>1
  <2>3. Upto(n - 1)
    BY <2>1, <2>2
  <2>4. Upto((n - 1) + 1)
    BY <2>1, <2>2, <2>3, <1>2
  <2>5. (n - 1) + 1 = n
    BY <2>1
  <2> QED
    BY <2>1, <2>4, <2>5
<1>4. Upto(Cardinality(S))
  <2> HIDE DEF Upto
  <2> QED
    BY <1>3, FS_CardinalityType
<1>5. PICK g \in [SUBSET S -> Int] :
             \A U \in SUBSET S : Cardinality(U) <= Cardinality(S)
                                   => g[U] = FoldStep(f, g, U)
  BY <1>4
<1>6. \A U \in SUBSET S : g[U] = FoldStep(f, g, U)
  BY <1>5, FS_Subset
<1>7. g = [U \in SUBSET S |-> FoldStep(f, g, U)]
  BY <1>6
<1> QED
  BY <1>7 DEF IsFold

\* SumFunction reads the partial sums at the whole domain.
LEMMA SumIsFold ==
  ASSUME NEW S, IsFiniteSet(S), NEW f \in [S -> Int],
         NEW g, IsFold(g, f, S)
  PROVE  SumFunction(f) = g[S]
<1>1. SumFunction(f) = (CHOOSE h : IsFold(h, f, S))[S]
  BY DEF SumFunction, SumFunctionOnSet, FoldFunctionOnSet, MapThenFoldSet,
         IsFold, FoldStep, Elem
<1>2. IsFold(CHOOSE h : IsFold(h, f, S), f, S)
  OBVIOUS
<1>3. (CHOOSE h : IsFold(h, f, S)) = g
  BY <1>2, FoldUnique
<1> QED
  BY <1>1, <1>3

-------------------------------------------------------------------------------

\* The sum of integers is an integer.
THEOREM SumType ==
  ASSUME NEW S, IsFiniteSet(S), NEW f \in [S -> Int]
  PROVE  SumFunction(f) \in Int
<1>1. PICK g \in [SUBSET S -> Int] : IsFold(g, f, S)
  BY FoldExists
<1> QED
  BY <1>1, SumIsFold

\* A function that is zero everywhere sums to zero: the ledgers start empty.
THEOREM SumZero ==
  ASSUME NEW S, IsFiniteSet(S), NEW f \in [S -> Int], \A x \in S : f[x] = 0
  PROVE  SumFunction(f) = 0
<1> DEFINE g == [U \in SUBSET S |-> 0]
<1>1. ASSUME NEW U \in SUBSET S
      PROVE  FoldStep(f, g, U) = 0
  <2>1. CASE U = {}
    BY <2>1 DEF FoldStep
  <2>2. CASE U # {}
    <3>1. Elem(U) \in U
      BY <2>2 DEF Elem
    <3>2. f[Elem(U)] = 0 /\ g[U \ {Elem(U)}] = 0
      BY <3>1
    <3> QED
      BY <2>2, <3>2 DEF FoldStep
  <2> QED
    BY <2>1, <2>2
<1>2. IsFold(g, f, S)
  BY <1>1 DEF IsFold
<1>3. g[S] = 0
  OBVIOUS
<1> HIDE DEF g
<1> QED
  BY <1>2, <1>3, SumIsFold

\* Writing one entry moves the sum by the change of that entry: every handler
\* that touches one balance or position is accounted for by this theorem.
THEOREM SumUpdate ==
  ASSUME NEW S, IsFiniteSet(S), NEW f \in [S -> Int], NEW u \in S, NEW v \in Int
  PROVE  SumFunction([f EXCEPT ![u] = v]) = SumFunction(f) + (v - f[u])
<1> DEFINE e == [f EXCEPT ![u] = v]
<1>1. PICK g \in [SUBSET S -> Int] : IsFold(g, f, S)
  BY FoldExists
<1> DEFINE h == [U \in SUBSET S |-> g[U] + IF u \in U THEN v - f[u] ELSE 0]
<1>2. e \in [S -> Int]
  OBVIOUS
<1>3. ASSUME NEW U \in SUBSET S
      PROVE  h[U] = FoldStep(e, h, U)
  <2>0. g[U] = FoldStep(f, g, U)
    BY <1>1 DEF IsFold
  <2>1. CASE U = {}
    BY <2>0, <2>1 DEF FoldStep
  <2>2. CASE U # {}
    <3> DEFINE x == Elem(U)
               W == U \ {x}
    <3>1. x \in U /\ x \in S /\ W \in SUBSET S
      BY <2>2 DEF Elem
    <3>2. g[U] = f[x] + g[W]
      BY <2>0, <2>2 DEF FoldStep
    <3>3. FoldStep(e, h, U) = e[x] + h[W]
      BY <2>2 DEF FoldStep
    <3> HIDE DEF x
    <3>4. f[x] \in Int /\ f[u] \in Int /\ g[W] \in Int /\ g[U] \in Int
      BY <3>1
    <3>5. CASE x = u
      <4>1. e[x] = v /\ h[W] = g[W] + 0 /\ h[U] = g[U] + (v - f[u])
        BY <3>1, <3>5
      <4> QED
        BY <3>2, <3>3, <3>4, <3>5, <4>1
    <3>6. CASE x # u /\ u \in U
      <4>1. /\ e[x] = f[x]
            /\ h[W] = g[W] + (v - f[u])
            /\ h[U] = g[U] + (v - f[u])
        BY <3>1, <3>6
      <4> QED
        BY <3>2, <3>3, <3>4, <4>1
    <3>7. CASE u \notin U
      <4>1. e[x] = f[x] /\ h[W] = g[W] + 0 /\ h[U] = g[U] + 0
        BY <3>1, <3>7
      <4> QED
        BY <3>2, <3>3, <3>4, <4>1
    <3> QED
      BY <3>1, <3>5, <3>6, <3>7
  <2> QED
    BY <2>1, <2>2
<1>4. IsFold(h, e, S)
  <2>1. h = [U \in SUBSET S |-> FoldStep(e, h, U)]
    BY <1>3
  <2> QED
    BY <2>1 DEF IsFold
<1>5. h[S] = g[S] + (v - f[u])
  OBVIOUS
<1>6. SumFunction(f) = g[S]
  BY <1>1, SumIsFold
<1> HIDE DEF h, e
<1>7. SumFunction(e) = h[S]
  BY <1>2, <1>4, SumIsFold
<1> QED
  BY <1>5, <1>6, <1>7 DEF e

\* A sum of natural numbers is one, and no entry exceeds it: what bounds a
\* holder's balance by the total.
THEOREM SumBoundsEntry ==
  ASSUME NEW S, IsFiniteSet(S), NEW f \in [S -> Nat]
  PROVE  /\ SumFunction(f) \in Nat
         /\ \A x \in S : f[x] <= SumFunction(f)
<1>1. f \in [S -> Int]
  OBVIOUS
<1>2. PICK g \in [SUBSET S -> Int] : IsFold(g, f, S)
  BY <1>1, FoldExists
<1> DEFINE Good(U) == g[U] >= 0 /\ \A x \in U : f[x] <= g[U]
           B == {U \in SUBSET S : ~ Good(U)}
<1>3. ASSUME B # {}
      PROVE  FALSE
  <2>1. PICK U \in B : \/ U = {}
                       \/ /\ U # {}
                          /\ Elem(U) \in U
                          /\ U \ {Elem(U)} \in SUBSET S
                          /\ U \ {Elem(U)} \notin B
    <3>1. B \in SUBSET (SUBSET S)
      OBVIOUS
    <3> HIDE DEF B
    <3> QED
      BY <1>3, <3>1, SmallestMember
  <2>2. U \in SUBSET S /\ ~ Good(U)
    OBVIOUS
  <2>3. g[U] = FoldStep(f, g, U)
    BY <1>2, <2>2 DEF IsFold
  <2>4. CASE U = {}
    BY <2>2, <2>3, <2>4 DEF FoldStep
  <2>5. CASE U # {}
    <3> DEFINE W == U \ {Elem(U)}
    <3>1. Elem(U) \in U /\ Elem(U) \in S /\ W \in SUBSET S /\ Good(W)
      BY <2>1, <2>2, <2>5
    <3>2. g[U] = f[Elem(U)] + g[W]
      BY <2>3, <2>5 DEF FoldStep
    <3>3. f[Elem(U)] \in Nat /\ g[W] \in Int
      BY <3>1
    <3>4. g[U] >= 0 /\ f[Elem(U)] <= g[U]
      BY <3>1, <3>2, <3>3
    <3>5. ASSUME NEW x \in W
          PROVE  f[x] <= g[U]
      <4>1. f[x] <= g[W] /\ f[x] \in Nat
        BY <3>1
      <4> QED
        BY <3>2, <3>3, <4>1
    <3>6. Good(U)
      BY <3>4, <3>5
    <3> QED
      BY <2>2, <3>6
  <2> QED
    BY <2>4, <2>5
<1>4. Good(S)
  BY <1>3
<1>5. SumFunction(f) = g[S]
  BY <1>1, <1>2, SumIsFold
<1> QED
  BY <1>4, <1>5

\* Adding to one entry adds to the sum.
THEOREM SumAdd ==
  ASSUME NEW S, IsFiniteSet(S), NEW f \in [S -> Int], NEW u \in S, NEW d \in Int
  PROVE  SumFunction([f EXCEPT ![u] = @ + d]) = SumFunction(f) + d
<1> DEFINE v == f[u] + d
<1>1. v \in Int /\ v - f[u] = d
  OBVIOUS
<1>2. [f EXCEPT ![u] = @ + d] = [f EXCEPT ![u] = v]
  OBVIOUS
<1> HIDE DEF v
<1>3. SumFunction([f EXCEPT ![u] = v]) = SumFunction(f) + (v - f[u])
  BY <1>1, SumUpdate, ZenonT(60)
<1> QED
  BY <1>1, <1>2, <1>3

\* Taking from one entry takes from the sum.
THEOREM SumSub ==
  ASSUME NEW S, IsFiniteSet(S), NEW f \in [S -> Int], NEW u \in S, NEW d \in Int
  PROVE  SumFunction([f EXCEPT ![u] = @ - d]) = SumFunction(f) - d
<1> DEFINE v == f[u] - d
<1>1. v \in Int /\ v - f[u] = -d
  OBVIOUS
<1>2. [f EXCEPT ![u] = @ - d] = [f EXCEPT ![u] = v]
  OBVIOUS
<1>3. SumFunction(f) \in Int
  BY SumType
<1> HIDE DEF v
<1>4. SumFunction([f EXCEPT ![u] = v]) = SumFunction(f) + (v - f[u])
  BY <1>1, SumUpdate, ZenonT(60)
<1> QED
  BY <1>1, <1>2, <1>3, <1>4

\* A bound on the entries, up to a rate c : d, is a bound on the sums: what the
\* holders are quoted one by one, rounded each time, stays below the whole.
THEOREM SumCompare ==
  ASSUME NEW S, IsFiniteSet(S), NEW f \in [S -> Nat], NEW h \in [S -> Nat],
         NEW c \in Nat, NEW d \in Nat, \A x \in S : f[x] * c <= h[x] * d
  PROVE  SumFunction(f) * c <= SumFunction(h) * d
<1>1. f \in [S -> Int] /\ h \in [S -> Int]
  OBVIOUS
<1>2. PICK g \in [SUBSET S -> Int] : IsFold(g, f, S)
  BY <1>1, FoldExists
<1>3. PICK k \in [SUBSET S -> Int] : IsFold(k, h, S)
  BY <1>1, FoldExists
<1> DEFINE Good(U) == g[U] * c <= k[U] * d
           B == {U \in SUBSET S : ~ Good(U)}
<1>4. ASSUME B # {}
      PROVE  FALSE
  <2>1. PICK U \in B : \/ U = {}
                       \/ /\ U # {}
                          /\ Elem(U) \in U
                          /\ U \ {Elem(U)} \in SUBSET S
                          /\ U \ {Elem(U)} \notin B
    <3>1. B \in SUBSET (SUBSET S)
      OBVIOUS
    <3> HIDE DEF B
    <3> QED
      BY <1>4, <3>1, SmallestMember
  <2>2. U \in SUBSET S /\ ~ Good(U)
    OBVIOUS
  <2>3. g[U] = FoldStep(f, g, U) /\ k[U] = FoldStep(h, k, U)
    BY <1>2, <1>3, <2>2 DEF IsFold
  <2>4. CASE U = {}
    <3>1. g[U] = 0 /\ k[U] = 0
      BY <2>3, <2>4 DEF FoldStep
    <3> QED
      BY <2>2, <3>1
  <2>5. CASE U # {}
    <3> DEFINE x == Elem(U)
               W == U \ {x}
    <3>1. x \in S /\ W \in SUBSET S /\ Good(W)
      BY <2>1, <2>2, <2>5
    <3>2. g[U] = f[x] + g[W] /\ k[U] = h[x] + k[W]
      BY <2>3, <2>5 DEF FoldStep
    <3>3. f[x] \in Nat /\ h[x] \in Nat /\ g[W] \in Int /\ k[W] \in Int
      BY <3>1
    <3>4. f[x] * c <= h[x] * d /\ g[W] * c <= k[W] * d
      BY <3>1
    <3> HIDE DEF x, W
    <3>5. (f[x] + g[W]) * c = f[x] * c + g[W] * c
      BY <3>3
    <3>6. (h[x] + k[W]) * d = h[x] * d + k[W] * d
      BY <3>3
    <3>7. /\ f[x] * c \in Int /\ g[W] * c \in Int
          /\ h[x] * d \in Int /\ k[W] * d \in Int
      BY <3>3
    <3>8. Good(U)
      BY <3>2, <3>4, <3>5, <3>6, <3>7
    <3> QED
      BY <2>2, <3>8
  <2> QED
    BY <2>4, <2>5
<1>5. Good(S)
  BY <1>4
<1>6. SumFunction(f) = g[S] /\ SumFunction(h) = k[S]
  BY <1>1, <1>2, <1>3, SumIsFold
<1> QED
  BY <1>5, <1>6

-------------------------------------------------------------------------------
(* Sums over a domain that grows, such as the entries of a log *)

\* A nonempty family of subsets of a finite set has a member that drops out of
\* the family whichever element is removed.
LEMMA MinimalMember ==
  ASSUME NEW S, IsFiniteSet(S), NEW B \in SUBSET (SUBSET S), B # {}
  PROVE  \E U \in B : \A x \in U : U \ {x} \in SUBSET S /\ U \ {x} \notin B
<1> DEFINE N == {Cardinality(V) : V \in B}
<1>1. \A V \in B : IsFiniteSet(V) /\ Cardinality(V) \in Nat
  BY FS_Subset, FS_CardinalityType
<1>2. PICK n \in N : \A m \in N : n <= m
  <2>1. N \in SUBSET Nat /\ N # {}
    BY <1>1
  <2> HIDE DEF N
  <2> QED
    BY <2>1, LeastNat
<1>3. PICK U \in B : Cardinality(U) = n
  OBVIOUS
<1>4. ASSUME NEW x \in U
      PROVE  U \ {x} \in SUBSET S /\ U \ {x} \notin B
  <2>1. Cardinality(U \ {x}) = Cardinality(U) - 1
    BY <1>1, <1>4, FS_RemoveElement
  <2> QED
    BY <1>1, <1>2, <1>3, <2>1
<1> QED
  BY <1>4

\* The partial sums do not depend on the order of the recursion: any element may
\* be taken off first.
LEMMA FoldAny ==
  ASSUME NEW S, IsFiniteSet(S), NEW f \in [S -> Int],
         NEW g, IsFold(g, f, S), \A U \in SUBSET S : g[U] \in Int
  PROVE  \A U \in SUBSET S : \A y \in U : g[U] = f[y] + g[U \ {y}]
<1> DEFINE Good(V) == \A z \in V : g[V] = f[z] + g[V \ {z}]
           B == {V \in SUBSET S : ~ Good(V)}
<1>1. ASSUME B # {}
      PROVE  FALSE
  <2>0. B \in SUBSET (SUBSET S)
    OBVIOUS
  <2> HIDE DEF B
  <2>1. PICK V \in B : \A z \in V : V \ {z} \in SUBSET S /\ V \ {z} \notin B
    BY <1>1, <2>0, MinimalMember
  <2> USE DEF B
  <2>2. PICK z \in V : g[V] # f[z] + g[V \ {z}]
    OBVIOUS
  <2> DEFINE e == Elem(V)
  <2>3. e \in V /\ e \in S /\ z \in S
    BY <2>2 DEF Elem
  <2>4. g[V] = f[e] + g[V \ {e}]
    BY <2>2 DEF IsFold, FoldStep
  <2> HIDE DEF e
  <2>5. e # z
    BY <2>2, <2>4
  <2>6. Good(V \ {e}) /\ Good(V \ {z})
    BY <2>1, <2>3
  <2>7. /\ g[V \ {e}] = f[z] + g[(V \ {e}) \ {z}]
        /\ g[V \ {z}] = f[e] + g[(V \ {z}) \ {e}]
    BY <2>3, <2>5, <2>6
  <2> DEFINE rest == g[(V \ {z}) \ {e}]
  <2>8. g[V \ {e}] = f[z] + rest /\ g[V \ {z}] = f[e] + rest
    <3>1. (V \ {e}) \ {z} = (V \ {z}) \ {e}
      OBVIOUS
    <3> QED
      BY <2>7, <3>1
  <2>9. f[e] \in Int /\ f[z] \in Int /\ rest \in Int
    BY <2>1, <2>3
  <2> HIDE DEF rest, Good, B
  <2>10. g[V] = f[e] + (f[z] + rest)
    BY <2>4, <2>8
  <2>11. g[V] = f[z] + g[V \ {z}]
    BY <2>8, <2>9, <2>10
  <2> QED
    BY <2>2, <2>11
<1> QED
  BY <1>1

\* One entry less takes its value off the sum: how a log's sum grows by its last
\* entry.
THEOREM SumRemove ==
  ASSUME NEW D, IsFiniteSet(D), NEW h \in [D -> Int], NEW x \in D
  PROVE  SumFunction(h) = SumFunction([y \in D \ {x} |-> h[y]]) + h[x]
<1> DEFINE S == D \ {x}
           f == [y \in S |-> h[y]]
<1>1. PICK g \in [SUBSET D -> Int] : IsFold(g, h, D)
  BY FoldExists
<1>2. SumFunction(h) = g[D]
  BY <1>1, SumIsFold
<1>3. g[D] = h[x] + g[S]
  <2>1. ASSUME NEW V \in SUBSET D, NEW z \in V
        PROVE  g[V] = h[z] + g[V \ {z}]
    <3>1. \A U \in SUBSET D : g[U] \in Int
      OBVIOUS
    <3> HIDE DEF S, f
    <3> QED
      BY <1>1, <3>1, FoldAny
  <2> QED
    BY <2>1
<1> DEFINE k == [U \in SUBSET S |-> g[U]]
<1>4. IsFold(k, f, S)
  <2>1. ASSUME NEW U \in SUBSET S
        PROVE  g[U] = FoldStep(f, k, U)
    <3>1. g[U] = FoldStep(h, g, U)
      BY <1>1 DEF IsFold
    <3>2. CASE U = {}
      BY <3>1, <3>2 DEF FoldStep
    <3>3. CASE U # {}
      <4>1. Elem(U) \in S /\ U \ {Elem(U)} \in SUBSET S
        BY <3>3 DEF Elem
      <4> QED
        BY <3>1, <3>3, <4>1 DEF FoldStep
    <3> QED
      BY <3>2, <3>3
  <2> QED
    BY <2>1 DEF IsFold
<1>5. SumFunction(f) = g[S]
  <2>1. IsFiniteSet(S) /\ f \in [S -> Int] /\ k[S] = g[S]
    BY FS_Subset
  <2> HIDE DEF f, S, k
  <2> QED
    BY <1>4, <2>1, SumIsFold
<1>6. h[x] \in Int /\ g[S] \in Int
  OBVIOUS
<1> QED
  BY <1>2, <1>3, <1>5, <1>6
===============================================================================
