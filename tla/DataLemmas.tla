----------------------------- MODULE DataLemmas -----------------------------
(***************************************************************************)
(* Facts about the data the models are made of, which the library states   *)
(* no theorems about: the least of a set of numbers, functions defined by  *)
(* recursion, the first occurrence taken out of a list, the places where a *)
(* value occurs in a queue, and the sum of a function over a finite set.   *)
(*                                                                         *)
(* The induction theorems of the library take the induction hypothesis as  *)
(* an operator, which the provers cannot instantiate.  Where a fact needs  *)
(* induction, the sizes of its counterexamples are collected in a set, and *)
(* LeastNatural gives a smallest one.                                      *)
(***************************************************************************)
EXTENDS Integers, FiniteSets, Sequences, SequencesExt, FiniteSetTheorems,
        SequenceTheorems, WellFoundedInduction, TLAPS

\* Every set of naturals that has a member has a least one.
LEMMA LeastNatural ==
  ASSUME NEW I \in SUBSET Nat, I # {}
  PROVE  \E m \in I : \A n \in I : m <= n
<1>1. PICK m \in I : \A n \in I : ~ (<<n, m>> \in OpToRel(<, Nat))
  BY NatLessThanWellFounded, WFMin
<1>2. ASSUME NEW n \in I PROVE m <= n
  <2>1. <<n, m>> \in Nat \X Nat /\ <<n, m>>[1] = n /\ <<n, m>>[2] = m
    OBVIOUS
  <2>2. OpToRel(<, Nat) = {ss \in Nat \X Nat : ss[1] < ss[2]}
    BY DEF OpToRel
  <2>3. ~ n < m
    BY <1>1, <2>1, <2>2, Zenon
  <2> QED
    BY <2>3
<1> QED
  BY <1>2

\* Min, which is defined by a CHOOSE, is that member.
LEMMA MinOfNaturals ==
  ASSUME NEW I \in SUBSET Nat, I # {}
  PROVE  Min(I) \in I /\ \A n \in I : Min(I) <= n
<1>1. \E m \in I : \A n \in I : m <= n
  BY LeastNatural
<1> QED
  BY <1>1 DEF Min

-----------------------------------------------------------------------------
\* Recursive functions

\* F[<<d, g>>] looks at g only where the rank is below that of d.
LooksDown(D, S, rank, F) ==
  \A d \in D : \A g, h \in [D -> S] :
    (\A e \in D : rank[e] < rank[d] => g[e] = h[e]) => F[<<d, g>>] = F[<<d, h>>]

\* F gives the value of a function at d from its values at what is below d.
Recursion(D, S, rank, F) ==
  rank \in [D -> Nat] /\ F \in [D \X [D -> S] -> S] /\ LooksDown(D, S, rank, F)

\* Below rank n, g obeys the equation g[d] = F[<<d, g>>].
Obeys(D, rank, F, n, g) == \A d \in D : rank[d] < n => g[d] = F[<<d, g>>]

\* A function from D to S obeys the equation everywhere.
Solvable(D, S, F) == \E f \in [D -> S] : \A d \in D : f[d] = F[<<d, f>>]

\* Two functions that obey the same equation below n are the same below n.
LEMMA RecursionAgrees ==
  ASSUME NEW D, NEW S, NEW rank \in [D -> Nat], NEW F,
         LooksDown(D, S, rank, F), NEW n \in Nat, NEW g \in [D -> S], NEW h \in [D -> S],
         Obeys(D, rank, F, n, g), Obeys(D, rank, F, n, h)
  PROVE  \A d \in D : rank[d] < n => g[d] = h[d]
<1> DEFINE Bad == {k \in Nat : k < n /\ \E d \in D : rank[d] = k /\ g[d] # h[d]}
<1> SUFFICES ASSUME Bad # {} PROVE FALSE
  OBVIOUS
<1>1. Bad \in SUBSET Nat
  OBVIOUS
<1> HIDE DEF Bad
<1>2. PICK m \in Bad : \A k \in Bad : m <= k
  BY <1>1, LeastNatural
<1>3. PICK d \in D : rank[d] = m /\ g[d] # h[d] /\ m < n /\ m \in Nat
  BY <1>2 DEF Bad
<1>4. \A e \in D : rank[e] < rank[d] => g[e] = h[e]
  <2> SUFFICES ASSUME NEW e \in D, rank[e] < rank[d], g[e] # h[e] PROVE FALSE
    OBVIOUS
  <2>1. rank[e] \in Nat /\ rank[e] < m
    BY <1>3
  <2>2. rank[e] \in Bad
    BY <1>3, <2>1 DEF Bad
  <2> QED
    BY <1>2, <1>3, <2>1, <2>2
<1>5. F[<<d, g>>] = F[<<d, h>>]
  BY <1>4 DEF LooksDown
<1> QED
  BY <1>3, <1>5 DEF Obeys

\* A recursive definition, in which the value at d depends only on those of lower
\* rank, defines a function.
LEMMA RecursionExists ==
  ASSUME NEW D, NEW S, NEW s0 \in S, NEW rank, NEW F, Recursion(D, S, rank, F)
  PROVE  Solvable(D, S, F)
<1>0. /\ rank \in [D -> Nat] /\ F \in [D \X [D -> S] -> S]
      /\ LooksDown(D, S, rank, F)
  BY DEF Recursion
<1> DEFINE Good(n, g) == g \in [D -> S] /\ Obeys(D, rank, F, n, g)
           Bad == {n \in Nat : \A g : ~ Good(n, g)}
<1>1. Bad = {}
  <2> SUFFICES ASSUME Bad # {} PROVE FALSE
    OBVIOUS
  <2>1. PICK m \in Bad : \A n \in Bad : m <= n
    <3>1. Bad \in SUBSET Nat
      OBVIOUS
    <3> HIDE DEF Bad
    <3> QED
      BY <3>1, LeastNatural
  <2>2. CASE m = 0
    <3> DEFINE g == [d \in D |-> s0]
    <3>1. g \in [D -> S]
      OBVIOUS
    <3>2. \A d \in D : ~ rank[d] < 0
      BY <1>0
    <3> HIDE DEF g
    <3>3. Good(0, g)
      BY <3>1, <3>2 DEF Obeys
    <3> QED
      BY <2>1, <2>2, <3>3
  <2>3. CASE m # 0
    <3>1. m - 1 \in Nat /\ m - 1 \notin Bad
      <4>1. m \in Nat
        BY <2>1
      <4> HIDE DEF Bad
      <4> QED
        BY <2>1, <2>3, <4>1
    <3>2. PICK g : Good(m - 1, g)
      BY <3>1
    <3> DEFINE h == [d \in D |-> IF rank[d] < m - 1 THEN g[d] ELSE F[<<d, g>>]]
    <3>3. h \in [D -> S]
      BY <1>0, <3>2
    <3>4. /\ \A d \in D : rank[d] < m - 1 => h[d] = g[d]
          /\ \A d \in D : ~ rank[d] < m - 1 => h[d] = F[<<d, g>>]
      OBVIOUS
    <3> HIDE DEF h
    <3>5. ASSUME NEW d \in D, rank[d] < m PROVE h[d] = F[<<d, h>>]
      <4>1. rank[d] \in Nat /\ m \in Nat /\ rank[d] <= m - 1
        BY <1>0, <2>1, <3>5
      <4>2. \A e \in D : rank[e] < rank[d] => rank[e] < m - 1
        BY <1>0, <4>1
      <4>3. \A e \in D : rank[e] < rank[d] => g[e] = h[e]
        BY <3>4, <4>2
      <4>4. F[<<d, g>>] = F[<<d, h>>]
        BY <1>0, <3>2, <3>3, <4>3 DEF LooksDown
      <4>5. CASE rank[d] < m - 1
        BY <3>2, <3>4, <4>4, <4>5 DEF Obeys
      <4>6. CASE ~ rank[d] < m - 1
        BY <3>4, <4>4, <4>6
      <4> QED
        BY <4>5, <4>6
    <3> QED
      BY <2>1, <3>3, <3>5 DEF Obeys
  <2> QED
    BY <2>2, <2>3
<1>2. \A n \in Nat : \E g : Good(n, g)
  BY <1>1
<1> HIDE DEF Bad
<1> DEFINE G == [d \in D |-> CHOOSE g : Good(rank[d] + 1, g)]
           f == [d \in D |-> G[d][d]]
<1>3. \A d \in D : Good(rank[d] + 1, G[d])
  <2> SUFFICES ASSUME NEW d \in D PROVE Good(rank[d] + 1, G[d])
    OBVIOUS
  <2>1. rank[d] + 1 \in Nat
    BY <1>0
  <2>2. \E g : Good(rank[d] + 1, g)
    BY <1>2, <2>1
  <2> HIDE DEF Good
  <2>3. G[d] = CHOOSE g : Good(rank[d] + 1, g)
    OBVIOUS
  <2> QED
    BY <2>2, <2>3
<1> HIDE DEF G
<1>4. f \in [D -> S] /\ \A d \in D : f[d] = G[d][d]
  BY <1>3
<1> HIDE DEF f
<1>5. ASSUME NEW d \in D PROVE f[d] = F[<<d, f>>]
  <2>1. /\ G[d] \in [D -> S] /\ rank[d] \in Nat
        /\ Obeys(D, rank, F, rank[d] + 1, G[d])
    BY <1>0, <1>3
  <2>2. ASSUME NEW e \in D, rank[e] < rank[d] PROVE f[e] = G[d][e]
    <3> DEFINE n == rank[e] + 1
    <3>1. n \in Nat /\ rank[e] < n /\ G[e] \in [D -> S] /\ Obeys(D, rank, F, n, G[e])
      BY <1>0, <1>3
    <3>2. \A c \in D : rank[c] < n => rank[c] < rank[d] + 1
      BY <1>0, <2>1, <2>2
    <3> HIDE DEF n
    <3>3. Obeys(D, rank, F, n, G[d])
      BY <2>1, <3>2 DEF Obeys
    <3>4. \A c \in D : rank[c] < n => G[e][c] = G[d][c]
      BY <1>0, <2>1, <3>1, <3>3, RecursionAgrees
    <3> QED
      BY <1>4, <3>1, <3>4
  <2>3. F[<<d, f>>] = F[<<d, G[d]>>]
    BY <1>0, <1>4, <2>1, <2>2 DEF LooksDown
  <2>4. G[d][d] = F[<<d, G[d]>>]
    <3>1. rank[d] < rank[d] + 1
      BY <2>1
    <3> QED
      BY <2>1, <3>1 DEF Obeys
  <2> QED
    BY <1>4, <2>3, <2>4
<1> QED
  BY <1>4, <1>5 DEF Solvable

-----------------------------------------------------------------------------
\* Sums over finite sets

\* The element a fold takes out of a set next.
Pick(s) == CHOOSE x \in s : TRUE

\* g is the function by which the fold of f over S is defined.
IsSum(g, f, S) ==
  g = [s \in SUBSET S |-> IF s = {} THEN 0 ELSE f[Pick(s)] + g[s \ {Pick(s)}]]

LEMMA PickMember ==
  ASSUME NEW s, s # {}
  PROVE  Pick(s) \in s
BY DEF Pick

\* The recursion of a fold defines a function: one for the sets of up to n elements
\* can be extended to those of n + 1.
LEMMA SumExists ==
  ASSUME NEW f, NEW S, IsFiniteSet(S)
  PROVE  \E g : IsSum(g, f, S)
<1> DEFINE
      Upto(n) == {s \in SUBSET S : Cardinality(s) <= n}
      Good(n, g) == g = [s \in Upto(n) |->
                           IF s = {} THEN 0 ELSE f[Pick(s)] + g[s \ {Pick(s)}]]
      Bad == {n \in Nat : \A g : ~ Good(n, g)}
<1>0. \A s \in SUBSET S : IsFiniteSet(s) /\ Cardinality(s) \in Nat
  BY FS_Subset, FS_CardinalityType
<1>1. Bad = {}
  <2> SUFFICES ASSUME Bad # {} PROVE FALSE
    OBVIOUS
  <2>1. PICK m \in Bad : \A n \in Bad : m <= n
    <3>1. Bad \in SUBSET Nat
      OBVIOUS
    <3> HIDE DEF Bad
    <3> QED
      BY <3>1, LeastNatural
  <2>2. CASE m = 0
    <3> DEFINE g == [s \in Upto(0) |-> 0]
    <3>1. \A s \in Upto(0) : s = {}
      BY <1>0, FS_EmptySet
    <3>2. Good(0, g)
      BY <3>1
    <3> QED
      BY <2>1, <2>2, <3>2
  <2>3. CASE m # 0
    <3>1. m - 1 \in Nat /\ m - 1 \notin Bad
      <4>1. m \in Nat
        BY <2>1
      <4> HIDE DEF Bad
      <4> QED
        BY <2>1, <2>3, <4>1
    <3>2. PICK g : Good(m - 1, g)
      BY <3>1
    <3> DEFINE h == [s \in Upto(m) |->
                       IF s = {} THEN 0 ELSE f[Pick(s)] + g[s \ {Pick(s)}]]
    <3>3. \A s \in Upto(m - 1) : h[s] = g[s]
      <4>1. \A s \in Upto(m - 1) : s \in Upto(m)
        BY <1>0, <2>1
      <4> QED
        BY <3>2, <4>1
    <3>4. ASSUME NEW s \in Upto(m), s # {}
          PROVE  s \ {Pick(s)} \in Upto(m - 1)
      BY <1>0, <2>1, <3>4, PickMember, FS_RemoveElement
    <3>5. Good(m, h)
      BY <3>3, <3>4
    <3> QED
      BY <2>1, <3>5
  <2> QED
    BY <2>2, <2>3
<1>2. PICK g : Good(Cardinality(S), g)
  <2>1. Cardinality(S) \in Nat /\ Cardinality(S) \notin Bad
    BY <1>1, FS_CardinalityType
  <2> HIDE DEF Good
  <2> QED
    BY <2>1
<1>3. Upto(Cardinality(S)) = SUBSET S
  BY FS_Subset
<1> QED
  BY <1>2, <1>3 DEF IsSum

\* A sum depends on the values of the summands only, and not on the set it is a
\* part of.
LEMMA SumsAgree ==
  ASSUME NEW f, NEW e, NEW S, NEW T, IsFiniteSet(S), NEW g, NEW h,
         IsSum(g, f, S), IsSum(h, e, T),
         \A x \in S \intersect T : f[x] = e[x]
  PROVE  \A s \in SUBSET (S \intersect T) : g[s] = h[s]
<1> DEFINE
      Differ(s) == s \in SUBSET (S \intersect T) /\ g[s] # h[s]
      Bad == {n \in Nat : \E s \in SUBSET S : Differ(s) /\ Cardinality(s) = n}
<1>0. \A s \in SUBSET S : IsFiniteSet(s) /\ Cardinality(s) \in Nat
  BY FS_Subset, FS_CardinalityType
<1> SUFFICES ASSUME Bad # {} PROVE FALSE
  BY <1>0
<1>1. PICK m \in Bad : \A n \in Bad : m <= n
  <2>1. Bad \in SUBSET Nat
    OBVIOUS
  <2> HIDE DEF Bad
  <2> QED
    BY <2>1, LeastNatural
<1>2. PICK s \in SUBSET S : Differ(s) /\ Cardinality(s) = m
  BY <1>1
<1>3. s # {}
  BY <1>2 DEF IsSum
<1> DEFINE t == s \ {Pick(s)}
<1>4. Pick(s) \in s /\ t \in SUBSET (S \intersect T)
  BY <1>2, <1>3, PickMember
<1>5. Cardinality(t) = m - 1
  BY <1>0, <1>2, <1>4, FS_RemoveElement
<1>6. g[t] = h[t]
  BY <1>0, <1>1, <1>4, <1>5
<1>7. g[s] = f[Pick(s)] + g[t] /\ h[s] = e[Pick(s)] + h[t]
  <2>1. s \in SUBSET S /\ s \in SUBSET T
    BY <1>2
  <2> QED
    BY <1>3, <2>1 DEF IsSum
<1> QED
  BY <1>2, <1>4, <1>6, <1>7

\* What SumFunctionOnSet computes, in two equations that leave open in which order.
LEMMA SumDefined ==
  ASSUME NEW f, NEW S, IsFiniteSet(S)
  PROVE  \E g : IsSum(g, f, S) /\ SumFunctionOnSet(f, S) = g[S]
<1>1. SumFunctionOnSet(f, S) = (CHOOSE g : IsSum(g, f, S))[S]
  BY DEF SumFunctionOnSet, FoldFunctionOnSet, MapThenFoldSet, IsSum, Pick
<1> QED
  BY <1>1, SumExists

LEMMA SumEmpty ==
  ASSUME NEW f
  PROVE  SumFunctionOnSet(f, {}) = 0
<1>1. PICK g : IsSum(g, f, {}) /\ SumFunctionOnSet(f, {}) = g[{}]
  BY SumDefined, FS_EmptySet
<1> QED
  BY <1>1 DEF IsSum

\* Every element may be taken out first.
LEMMA SumTakesAny ==
  ASSUME NEW f, NEW S, IsFiniteSet(S), \A x \in S : f[x] \in Nat,
         NEW g, IsSum(g, f, S)
  PROVE  \A s \in SUBSET S : /\ g[s] \in Nat
                            /\ \A x \in s : g[s] = f[x] + g[s \ {x}]
<1> DEFINE
      Fails(s) == ~ (g[s] \in Nat /\ \A x \in s : g[s] = f[x] + g[s \ {x}])
      Bad == {n \in Nat : \E s \in SUBSET S : Fails(s) /\ Cardinality(s) = n}
<1>0. \A s \in SUBSET S : IsFiniteSet(s) /\ Cardinality(s) \in Nat
  BY FS_Subset, FS_CardinalityType
<1> SUFFICES ASSUME Bad # {} PROVE FALSE
  BY <1>0
<1>1. PICK m \in Bad : \A n \in Bad : m <= n
  <2>1. Bad \in SUBSET Nat
    OBVIOUS
  <2> HIDE DEF Bad
  <2> QED
    BY <2>1, LeastNatural
<1>2. PICK s \in SUBSET S : Fails(s) /\ Cardinality(s) = m
  BY <1>1
<1>3. \A t \in SUBSET S : t # {} => g[t] = f[Pick(t)] + g[t \ {Pick(t)}]
  BY DEF IsSum
<1>4. ASSUME NEW t \in SUBSET S, Cardinality(t) < m
      PROVE  g[t] \in Nat /\ \A x \in t : g[t] = f[x] + g[t \ {x}]
  BY <1>0, <1>1, <1>4
<1>5. g[{}] = 0
  BY DEF IsSum
<1>6. s # {}
  BY <1>2, <1>5
<1> DEFINE y == Pick(s)
<1>7. y \in s
  BY <1>6, PickMember
<1>8. ASSUME NEW x \in s
      PROVE  s \ {x} \in SUBSET S /\ Cardinality(s \ {x}) < m
  BY <1>0, <1>2, FS_RemoveElement
<1> HIDE DEF y, Bad
<1>9. g[s] = f[y] + g[s \ {y}] /\ g[s \ {y}] \in Nat /\ f[y] \in Nat
  BY <1>3, <1>4, <1>6, <1>7, <1>8 DEF y
<1>10. ASSUME NEW x \in s, x # y
       PROVE  g[s] = f[x] + g[s \ {x}]
  <2>1. g[s \ {y}] = f[x] + g[(s \ {y}) \ {x}]
    BY <1>4, <1>7, <1>8, <1>10
  <2>2. g[s \ {x}] = f[y] + g[(s \ {x}) \ {y}] /\ g[s \ {x}] \in Nat
    BY <1>4, <1>7, <1>8, <1>10
  <2>3. (s \ {y}) \ {x} = (s \ {x}) \ {y}
    OBVIOUS
  <2>4. g[(s \ {x}) \ {y}] \in Nat
    <3>1. (s \ {x}) \ {y} \in SUBSET S
      OBVIOUS
    <3>2. Cardinality((s \ {x}) \ {y}) < m
      <4>1. IsFiniteSet(s \ {x}) /\ Cardinality(s \ {x}) < m
            /\ Cardinality(s \ {x}) \in Nat /\ m \in Nat
        BY <1>0, <1>2, <1>8
      <4>2. Cardinality((s \ {x}) \ {y}) <= Cardinality(s \ {x})
            /\ Cardinality((s \ {x}) \ {y}) \in Nat
        BY <1>0, <3>1, <4>1, FS_Subset
      <4> QED
        BY <4>1, <4>2
    <3> QED
      BY <1>4, <3>1, <3>2
  <2>5. f[x] \in Nat /\ f[y] \in Nat
    BY <1>9
  <2> DEFINE c == g[(s \ {x}) \ {y}]
             b == g[s \ {x}]
             a == g[s \ {y}]
  <2>6. a = f[x] + c /\ b = f[y] + c /\ g[s] = f[y] + a /\ c \in Nat
    BY <1>9, <2>1, <2>2, <2>3, <2>4
  <2> HIDE DEF a, b, c
  <2>7. g[s] = f[x] + b
    BY <2>5, <2>6
  <2> QED
    BY <2>7 DEF b
<1>11. g[s] \in Nat
  BY <1>9
<1>12. \A x \in s : g[s] = f[x] + g[s \ {x}]
  BY <1>9, <1>10
<1> QED
  BY <1>2, <1>11, <1>12

THEOREM SumTakeOne ==
  ASSUME NEW f, NEW S, IsFiniteSet(S), \A x \in S : f[x] \in Nat, NEW x \in S
  PROVE  SumFunctionOnSet(f, S) = f[x] + SumFunctionOnSet(f, S \ {x})
<1>1. PICK g : IsSum(g, f, S) /\ SumFunctionOnSet(f, S) = g[S]
  BY SumDefined
<1>2. IsFiniteSet(S \ {x})
  BY FS_RemoveElement
<1>3. PICK h : IsSum(h, f, S \ {x}) /\ SumFunctionOnSet(f, S \ {x}) = h[S \ {x}]
  BY <1>2, SumDefined
<1>4. g[S \ {x}] = h[S \ {x}]
  BY <1>1, <1>3, SumsAgree
<1> QED
  BY <1>1, <1>3, <1>4, SumTakesAny

THEOREM SumNatural ==
  ASSUME NEW f, NEW S, IsFiniteSet(S), \A x \in S : f[x] \in Nat
  PROVE  SumFunctionOnSet(f, S) \in Nat
<1>1. PICK g : IsSum(g, f, S) /\ SumFunctionOnSet(f, S) = g[S]
  BY SumDefined
<1> QED
  BY <1>1, SumTakesAny

\* The sum does not depend on what the function is elsewhere.
THEOREM SumEqual ==
  ASSUME NEW f, NEW e, NEW S, IsFiniteSet(S), \A x \in S : f[x] = e[x]
  PROVE  SumFunctionOnSet(f, S) = SumFunctionOnSet(e, S)
<1>1. PICK g : IsSum(g, f, S) /\ SumFunctionOnSet(f, S) = g[S]
  BY SumDefined
<1>2. PICK h : IsSum(h, e, S) /\ SumFunctionOnSet(e, S) = h[S]
  BY SumDefined
<1>3. S \in SUBSET (S \intersect S)
  OBVIOUS
<1>4. \A s \in SUBSET (S \intersect S) : g[s] = h[s]
  BY <1>1, <1>2, SumsAgree
<1> QED
  BY <1>1, <1>2, <1>3, <1>4

-----------------------------------------------------------------------------
\* Lists without repetition

Distinct(q) == \A i, j \in 1 .. Len(q) : q[i] = q[j] => i = j

LEMMA ToSetMembers ==
  ASSUME NEW S, NEW q \in Seq(S)
  PROVE  /\ ToSet(q) \subseteq S
         /\ \A x : x \in ToSet(q) <=> \E i \in 1 .. Len(q) : q[i] = x
BY DEF ToSet

\* A sequence over a set is one over any larger set.
LEMMA SeqWider ==
  ASSUME NEW S, NEW T, S \subseteq T, NEW s \in Seq(S)
  PROVE  s \in Seq(T)
OBVIOUS

\* A list without repetition is as long as its set of elements is large.
LEMMA DistinctCardinality ==
  ASSUME NEW S, NEW q \in Seq(S)
  PROVE  /\ IsFiniteSet(ToSet(q))
         /\ Distinct(q) => Cardinality(ToSet(q)) = Len(q)
<1>1. Len(q) \in Nat /\ IsFiniteSet(1 .. Len(q)) /\ Cardinality(1 .. Len(q)) = Len(q)
  <2>1. Len(q) \in Nat
    BY LenProperties
  <2>2. IsFiniteSet(1 .. Len(q)) /\ Cardinality(1 .. Len(q)) = Len(q)
    BY <2>1, FS_Interval
  <2> QED
    BY <2>1, <2>2
<1>2. q \in Surjection(1 .. Len(q), ToSet(q))
  BY ToSetMembers, LenProperties DEF Surjection
<1>3. IsFiniteSet(ToSet(q))
  BY <1>1, <1>2, FS_Surjection
<1>4. ASSUME Distinct(q) PROVE q \in Injection(1 .. Len(q), ToSet(q))
  BY <1>2, <1>4 DEF Surjection, Injection, IsInjective, Distinct
<1> QED
  BY <1>1, <1>2, <1>3, <1>4, FS_Surjection

LEMMA DistinctAppend ==
  ASSUME NEW S, NEW q \in Seq(S), NEW e \in S
  PROVE  /\ Append(q, e) \in Seq(S)
         /\ Len(Append(q, e)) = Len(q) + 1
         /\ \A i \in 1 .. Len(q) : Append(q, e)[i] = q[i]
         /\ Append(q, e)[Len(q) + 1] = e
         /\ ToSet(Append(q, e)) = ToSet(q) \union {e}
         /\ Distinct(q) /\ e \notin ToSet(q) => Distinct(Append(q, e))
<1>1. /\ Append(q, e) \in Seq(S)
      /\ Len(Append(q, e)) = Len(q) + 1
      /\ \A i \in 1 .. Len(q) : Append(q, e)[i] = q[i]
      /\ Append(q, e)[Len(q) + 1] = e
      /\ Len(q) \in Nat
  BY AppendProperties, LenProperties
<1> DEFINE r == Append(q, e)
<1> HIDE DEF r
<1>m. /\ r \in Seq(S) /\ Len(r) = Len(q) + 1 /\ r[Len(q) + 1] = e
      /\ \A i \in 1 .. Len(q) : r[i] = q[i]
  BY <1>1 DEF r
<1>t. /\ \A x : x \in ToSet(r) <=> \E i \in 1 .. Len(q) + 1 : r[i] = x
      /\ \A x : x \in ToSet(q) <=> \E i \in 1 .. Len(q) : q[i] = x
  BY <1>m, ToSetMembers
<1>i. \A i : i \in 1 .. Len(q) + 1 <=> i \in 1 .. Len(q) \/ i = Len(q) + 1
  BY <1>1
<1>2. \A x : x \in ToSet(Append(q, e)) <=> x \in ToSet(q) \/ x = e
  <2>1. \A x : x \in ToSet(r) <=> x \in ToSet(q) \/ x = e
    BY <1>m, <1>t, <1>i
  <2> QED
    BY <2>1 DEF r
<1>3. ASSUME Distinct(q), e \notin ToSet(q) PROVE Distinct(Append(q, e))
  BY <1>1, <1>3, ToSetMembers DEF Distinct
<1> QED
  BY <1>1, <1>2, <1>3

\* r is q without its k-th element: the rest keeps its order.
Shortened(r, q, k) ==
  /\ Len(r) = Len(q) - 1
  /\ \A i \in 1 .. Len(q) - 1 : r[i] = IF i < k THEN q[i] ELSE q[i + 1]

LEMMA RemoveFirstShape ==
  ASSUME NEW S, NEW q \in Seq(S), NEW e, NEW n \in 1 .. Len(q), q[n] = e
  PROVE  /\ RemoveFirst(q, e) \in Seq(S)
         /\ \E k \in 1 .. Len(q) : q[k] = e /\ Shortened(RemoveFirst(q, e), q, k)
<1> DEFINE I == {i \in 1 .. Len(q) : q[i] = e}
           k == Min(I)
<1>1. k \in 1 .. Len(q) /\ q[k] = e
  <2>1. I \in SUBSET Nat /\ I # {}
    OBVIOUS
  <2>2. k \in I
    BY <2>1, MinOfNaturals
  <2> QED
    BY <2>2
<1>2. RemoveFirst(q, e) = SubSeq(q, 1, k - 1) \o SubSeq(q, k + 1, Len(q))
  BY DEF RemoveFirst, RemoveAt, SelectInSeq
<1> HIDE DEF k
<1>3. /\ k \in Int /\ k - 1 \in Int /\ k + 1 \in Int /\ Len(q) \in Nat
      /\ \A i \in 1 .. Len(q) : q[i] \in S
  BY <1>1, LenProperties, ElementOfSeq
<1> DEFINE a == SubSeq(q, 1, k - 1)
           b == SubSeq(q, k + 1, Len(q))
<1>4. a \in Seq(S) /\ Len(a) = k - 1 /\ \A i \in 1 .. k - 1 : a[i] = q[i]
  <2>1. \A i \in 1 .. k - 1 : q[i] \in S
    BY <1>1, <1>3
  <2>2. /\ a \in Seq(S)
        /\ Len(a) = IF 1 <= k - 1 THEN k - 1 - 1 + 1 ELSE 0
        /\ \A i \in 1 .. k - 1 - 1 + 1 : a[i] = q[1 + i - 1]
    BY <1>3, <2>1, SubSeqProperties
  <2> QED
    BY <1>1, <1>3, <2>2
<1>5. b \in Seq(S) /\ Len(b) = Len(q) - k /\ \A i \in 1 .. Len(q) - k : b[i] = q[k + i]
  <2>1. \A i \in k + 1 .. Len(q) : q[i] \in S
    BY <1>1, <1>3
  <2>2. /\ b \in Seq(S)
        /\ Len(b) = IF k + 1 <= Len(q) THEN Len(q) - (k + 1) + 1 ELSE 0
        /\ \A i \in 1 .. Len(q) - (k + 1) + 1 : b[i] = q[k + 1 + i - 1]
    BY <1>3, <2>1, SubSeqProperties
  <2> QED
    BY <1>1, <1>3, <2>2
<1> HIDE DEF a, b
<1>6. /\ a \o b \in Seq(S) /\ Len(a \o b) = Len(a) + Len(b)
      /\ \A i \in 1 .. Len(a) + Len(b) :
           (a \o b)[i] = IF i <= Len(a) THEN a[i] ELSE b[i - Len(a)]
  BY <1>4, <1>5, ConcatProperties
<1>7. \A i \in 1 .. Len(q) - 1 : (a \o b)[i] = IF i < k THEN q[i] ELSE q[i + 1]
  <2> TAKE i \in 1 .. Len(q) - 1
  <2>1. (a \o b)[i] = IF i <= k - 1 THEN a[i] ELSE b[i - (k - 1)]
    BY <1>1, <1>3, <1>4, <1>5, <1>6
  <2>2. CASE i < k
    BY <1>1, <1>3, <1>4, <2>1, <2>2
  <2>3. CASE ~ i < k
    <3>1. i - (k - 1) \in 1 .. Len(q) - k /\ k + (i - (k - 1)) = i + 1
      BY <1>1, <1>3, <2>3
    <3> QED
      BY <1>1, <1>3, <1>5, <2>1, <2>3, <3>1
  <2> QED
    BY <2>2, <2>3
<1>8. RemoveFirst(q, e) = a \o b
  BY <1>2 DEF a, b
<1>9. Len(a \o b) = Len(q) - 1
  BY <1>1, <1>3, <1>4, <1>5, <1>6
<1>10. /\ RemoveFirst(q, e) \in Seq(S)
       /\ Shortened(RemoveFirst(q, e), q, k)
  BY <1>6, <1>7, <1>8, <1>9 DEF Shortened
<1> QED
  BY <1>1, <1>10

LEMMA RemoveFirstAbsent ==
  ASSUME NEW q, NEW e, \A i \in 1 .. Len(q) : q[i] # e
  PROVE  RemoveFirst(q, e) = q
BY DEF RemoveFirst

\* Removing an element from a sequence leaves a sequence over the same set.
LEMMA RemoveFirstType ==
  ASSUME NEW S, NEW q \in Seq(S), NEW e
  PROVE  RemoveFirst(q, e) \in Seq(S)
<1>1. ASSUME NEW n \in 1 .. Len(q), q[n] = e PROVE RemoveFirst(q, e) \in Seq(S)
  BY <1>1, RemoveFirstShape
<1>2. CASE \A i \in 1 .. Len(q) : q[i] # e
  BY <1>2, RemoveFirstAbsent
<1> QED
  BY <1>1, <1>2

\* From a list without repetition it takes the element out of the set as well.
LEMMA DistinctRemove ==
  ASSUME NEW S, NEW q \in Seq(S), Distinct(q), NEW e \in ToSet(q)
  PROVE  /\ Distinct(RemoveFirst(q, e))
         /\ ToSet(RemoveFirst(q, e)) = ToSet(q) \ {e}
<1>1. PICK p \in 1 .. Len(q) : q[p] = e
  BY ToSetMembers
<1>0. /\ RemoveFirst(q, e) \in Seq(S)
      /\ \E k \in 1 .. Len(q) : q[k] = e /\ Shortened(RemoveFirst(q, e), q, k)
  BY <1>1, RemoveFirstShape
<1> DEFINE r == RemoveFirst(q, e)
<1>2. PICK k \in 1 .. Len(q) :
        /\ q[k] = e
        /\ r \in Seq(S)
        /\ Len(r) = Len(q) - 1
        /\ \A i \in 1 .. Len(q) - 1 : r[i] = IF i < k THEN q[i] ELSE q[i + 1]
  BY <1>0 DEF Shortened
<1> HIDE DEF r
<1>3. Len(q) \in Nat
  BY LenProperties
<1>4. Distinct(r)
  <2> SUFFICES ASSUME NEW i \in 1 .. Len(r), NEW j \in 1 .. Len(r), r[i] = r[j]
               PROVE  i = j
    BY DEF Distinct
  <2>1. i + 1 \in 1 .. Len(q) /\ j + 1 \in 1 .. Len(q)
        /\ i \in 1 .. Len(q) /\ j \in 1 .. Len(q)
        /\ i \in 1 .. Len(q) - 1 /\ j \in 1 .. Len(q) - 1
    BY <1>2, <1>3
  <2>2. /\ r[i] = IF i < k THEN q[i] ELSE q[i + 1]
        /\ r[j] = IF j < k THEN q[j] ELSE q[j + 1]
    BY <1>2, <2>1
  <2>3. \A m, n \in 1 .. Len(q) : q[m] = q[n] => m = n
    BY DEF Distinct
  <2>4. CASE i < k /\ j < k
    BY <2>1, <2>2, <2>3, <2>4
  <2>5. CASE ~ i < k /\ ~ j < k
    <3>1. i + 1 = j + 1
      BY <2>1, <2>2, <2>3, <2>5
    <3> QED
      BY <1>3, <2>1, <3>1
  <2>6. CASE i < k /\ ~ j < k
    <3>1. i = j + 1
      BY <2>1, <2>2, <2>3, <2>6
    <3> QED
      BY <1>2, <1>3, <2>1, <2>6, <3>1
  <2>7. CASE ~ i < k /\ j < k
    <3>1. i + 1 = j
      BY <2>1, <2>2, <2>3, <2>7
    <3> QED
      BY <1>2, <1>3, <2>1, <2>7, <3>1
  <2> QED
    BY <2>4, <2>5, <2>6, <2>7
<1>5. ASSUME NEW x \in ToSet(r) PROVE x \in ToSet(q) \ {e}
  <2>1. PICK i \in 1 .. Len(r) : r[i] = x
    BY <1>2, ToSetMembers
  <2>2. /\ i \in 1 .. Len(q) - 1 /\ i \in 1 .. Len(q) /\ i + 1 \in 1 .. Len(q)
        /\ i + 1 # k \/ i < k
    BY <1>2, <1>3
  <2>3. x = IF i < k THEN q[i] ELSE q[i + 1]
    BY <1>2, <2>1, <2>2
  <2>4. PICK m \in 1 .. Len(q) : x = q[m] /\ m # k
    BY <1>2, <1>3, <2>2, <2>3
  <2> QED
    BY <1>2, <2>4, ToSetMembers DEF Distinct
<1>6. ASSUME NEW x \in ToSet(q) \ {e} PROVE x \in ToSet(r)
  <2>1. PICK m \in 1 .. Len(q) : q[m] = x
    BY ToSetMembers
  <2>2. CASE m < k
    <3>1. m \in 1 .. Len(q) - 1 /\ m \in 1 .. Len(r)
      BY <1>2, <1>3, <2>2
    <3>2. r[m] = x
      BY <1>2, <2>1, <2>2, <3>1
    <3> QED
      BY <1>2, <3>1, <3>2, ToSetMembers
  <2>3. CASE m > k
    <3>1. m - 1 \in 1 .. Len(q) - 1 /\ m - 1 \in 1 .. Len(r) /\ ~ (m - 1 < k)
          /\ (m - 1) + 1 = m
      BY <1>2, <1>3, <2>3
    <3>2. r[m - 1] = x
      BY <1>2, <2>1, <3>1
    <3> QED
      BY <1>2, <3>1, <3>2, ToSetMembers
  <2> QED
    BY <1>2, <2>1, <2>2, <2>3
<1> QED
  BY <1>4, <1>5, <1>6 DEF r

\* An element is in a list at most once.
Once(x, q) == \A i, j \in 1 .. Len(q) : q[i] = x /\ q[j] = x => i = j

\* What an appended element does to that, in a list that may repeat others.
LEMMA OnceAppend ==
  ASSUME NEW S, NEW q \in Seq(S), NEW e \in S, NEW x, Once(x, q),
         x # e \/ e \notin ToSet(q)
  PROVE  Once(x, Append(q, e))
<1>1. /\ Len(q) \in Nat /\ Len(Append(q, e)) = Len(q) + 1
      /\ \A i \in 1 .. Len(q) : Append(q, e)[i] = q[i]
      /\ Append(q, e)[Len(q) + 1] = e
  BY AppendProperties, LenProperties
<1> DEFINE r == Append(q, e)
<1> HIDE DEF r
<1>2. /\ Len(r) = Len(q) + 1 /\ r[Len(q) + 1] = e
      /\ \A i \in 1 .. Len(q) : r[i] = q[i]
  BY <1>1 DEF r
<1>3. SUFFICES ASSUME NEW i \in 1 .. Len(r), NEW j \in 1 .. Len(r), r[i] = x, r[j] = x
               PROVE  i = j
  BY DEF Once, r
<1>4. /\ i \in 1 .. Len(q) \/ i = Len(q) + 1
      /\ j \in 1 .. Len(q) \/ j = Len(q) + 1
  BY <1>1, <1>2
<1>5. CASE x # e
  BY <1>2, <1>3, <1>4, <1>5 DEF Once
<1>6. CASE e \notin ToSet(q)
  <2>1. \A m \in 1 .. Len(q) : q[m] # e
    BY <1>6, ToSetMembers
  <2> QED
    BY <1>2, <1>3, <1>4, <2>1 DEF Once
<1> QED
  BY <1>5, <1>6

\* Removing an element keeps the others; if it was there once, it is there no more.
LEMMA OnceGone ==
  ASSUME NEW S, NEW q \in Seq(S), NEW e
  PROVE  /\ \A x : x \in ToSet(RemoveFirst(q, e)) => x \in ToSet(q)
         /\ \A x : x \in ToSet(q) /\ x # e => x \in ToSet(RemoveFirst(q, e))
         /\ \A x : Once(x, q) => Once(x, RemoveFirst(q, e))
         /\ Once(e, q) => e \notin ToSet(RemoveFirst(q, e))
<1>1. CASE \A i \in 1 .. Len(q) : q[i] # e
  <2>1. RemoveFirst(q, e) = q /\ e \notin ToSet(q)
    BY <1>1, RemoveFirstAbsent, ToSetMembers
  <2> QED
    BY <2>1
<1>2. ASSUME NEW p \in 1 .. Len(q), q[p] = e
      PROVE  /\ \A x : x \in ToSet(RemoveFirst(q, e)) => x \in ToSet(q)
             /\ \A x : x \in ToSet(q) /\ x # e => x \in ToSet(RemoveFirst(q, e))
             /\ \A x : Once(x, q) => Once(x, RemoveFirst(q, e))
             /\ Once(e, q) => e \notin ToSet(RemoveFirst(q, e))
  <2> DEFINE r == RemoveFirst(q, e)
  <2>1. PICK k \in 1 .. Len(q) : q[k] = e /\ r \in Seq(S) /\ Shortened(r, q, k)
    BY <1>2, RemoveFirstShape
  <2> HIDE DEF r
  <2>2. Len(q) \in Nat /\ Len(r) = Len(q) - 1
    BY <2>1, LenProperties DEF Shortened
  <2> DEFINE m(i) == IF i < k THEN i ELSE i + 1
  <2>3. ASSUME NEW i \in 1 .. Len(r)
        PROVE  m(i) \in 1 .. Len(q) /\ m(i) # k /\ r[i] = q[m(i)]
    <3>1. i \in 1 .. Len(q) - 1
      BY <2>2
    <3>2. r[i] = IF i < k THEN q[i] ELSE q[i + 1]
      BY <2>1, <3>1 DEF Shortened
    <3> QED
      BY <2>2, <3>1, <3>2
  <2>4. \A i, j \in 1 .. Len(r) : m(i) = m(j) => i = j
    BY <2>2
  <2>5. ASSUME NEW n \in 1 .. Len(q), n # k PROVE \E i \in 1 .. Len(r) : m(i) = n
    <3>1. CASE n < k
      BY <2>2, <2>5, <3>1
    <3>2. CASE n > k
      <4>1. n - 1 \in 1 .. Len(r) /\ m(n - 1) = n
        BY <2>2, <3>2
      <4> QED
        BY <4>1
    <3> QED
      BY <2>5, <3>1, <3>2
  <2> HIDE DEF m
  <2>6. /\ \A x : x \in ToSet(q) <=> \E i \in 1 .. Len(q) : q[i] = x
        /\ \A x : x \in ToSet(r) <=> \E i \in 1 .. Len(r) : r[i] = x
    BY <2>1, ToSetMembers
  <2>7. \A x : x \in ToSet(r) => x \in ToSet(q)
    BY <2>3, <2>6
  <2>8. ASSUME NEW x \in ToSet(q), x # e PROVE x \in ToSet(r)
    <3>1. PICK n \in 1 .. Len(q) : q[n] = x
      BY <2>6
    <3>2. n # k
      BY <2>1, <2>8, <3>1
    <3>3. PICK i \in 1 .. Len(r) : m(i) = n
      BY <2>5, <3>2
    <3>4. r[i] = x
      BY <2>3, <3>1, <3>3
    <3> QED
      BY <2>6, <3>4
  <2>9. ASSUME NEW x, Once(x, q) PROVE Once(x, r)
    BY <2>3, <2>4, <2>9 DEF Once
  <2>10. Once(e, q) => e \notin ToSet(r)
    BY <2>1, <2>3, <2>6 DEF Once
  <2> QED
    BY <2>7, <2>8, <2>9, <2>10 DEF r
<1> QED
  BY <1>1, <1>2

\* Taking the first element out of a list that is not empty.
LEMMA DistinctTail ==
  ASSUME NEW S, NEW q \in Seq(S), q # << >>, Distinct(q)
  PROVE  /\ Tail(q) \in Seq(S) /\ Distinct(Tail(q))
         /\ Head(q) \in ToSet(q) /\ ToSet(Tail(q)) = ToSet(q) \ {Head(q)}
<1>1. /\ Len(q) \in Nat \ {0} /\ Tail(q) \in Seq(S) /\ Len(Tail(q)) = Len(q) - 1
      /\ \A i \in 1 .. Len(q) - 1 : Tail(q)[i] = q[i + 1]
      /\ Head(q) = q[1]
  BY HeadTailProperties, LenProperties, EmptySeq
<1> DEFINE r == Tail(q)
<1>2. r \in Seq(S) /\ Len(r) = Len(q) - 1
      /\ \A i \in 1 .. Len(q) - 1 : r[i] = q[i + 1]
  BY <1>1
<1> HIDE DEF r
<1>3. Distinct(r)
  <2> SUFFICES ASSUME NEW i \in 1 .. Len(r), NEW j \in 1 .. Len(r), r[i] = r[j]
               PROVE  i = j
    BY DEF Distinct
  <2>1. /\ i + 1 \in 1 .. Len(q) /\ j + 1 \in 1 .. Len(q)
        /\ i \in 1 .. Len(q) - 1 /\ j \in 1 .. Len(q) - 1
    BY <1>1, <1>2
  <2>2. q[i + 1] = q[j + 1]
    BY <1>2, <2>1
  <2>3. i + 1 = j + 1
    BY <2>1, <2>2 DEF Distinct
  <2> QED
    BY <2>1, <2>3
<1>4. \A x : x \in ToSet(q) <=> \E i \in 1 .. Len(q) : q[i] = x
  BY ToSetMembers
<1>5. \A x : x \in ToSet(r) <=> \E i \in 1 .. Len(r) : r[i] = x
  BY <1>2, ToSetMembers
<1>6. Head(q) \in ToSet(q)
  BY <1>1, <1>4
<1>7. ASSUME NEW x \in ToSet(r) PROVE x \in ToSet(q) /\ x # Head(q)
  <2>1. PICK i \in 1 .. Len(r) : r[i] = x
    BY <1>5
  <2>2. i \in 1 .. Len(q) - 1 /\ i + 1 \in 1 .. Len(q) /\ i + 1 # 1 /\ 1 \in 1 .. Len(q)
    BY <1>1, <1>2
  <2>3. q[i + 1] = x
    BY <1>2, <2>1, <2>2
  <2> QED
    BY <1>1, <1>4, <2>2, <2>3 DEF Distinct
<1>8. ASSUME NEW x \in ToSet(q), x # Head(q) PROVE x \in ToSet(r)
  <2>1. PICK i \in 1 .. Len(q) : q[i] = x
    BY <1>4
  <2>2. /\ i - 1 \in 1 .. Len(q) - 1 /\ i - 1 \in 1 .. Len(r) /\ (i - 1) + 1 = i
    BY <1>1, <1>2, <1>8, <2>1
  <2>3. r[i - 1] = x
    BY <1>2, <2>1, <2>2
  <2> QED
    BY <1>5, <2>2, <2>3
<1> QED
  BY <1>2, <1>3, <1>6, <1>7, <1>8 DEF r

\* A finite set, listed, is listed whole.
LEMMA SetToSeqLists ==
  ASSUME NEW S, IsFiniteSet(S)
  PROVE  SetToSeq(S) \in Seq(S) /\ ToSet(SetToSeq(S)) = S
<1> DEFINE n == Cardinality(S)
           l == SetToSeq(S)
<1>1. n \in Nat /\ IsFiniteSet(1 .. n) /\ Cardinality(1 .. n) = n
  BY FS_CardinalityType, FS_Interval
<1>2. \E f \in [1 .. n -> S] : IsInjective(f)
  BY FS_CardinalityType DEF ExistsBijection, Bijection, Injection
<1>3. l \in [1 .. n -> S] /\ IsInjective(l)
  BY <1>2 DEF SetToSeq
<1> HIDE DEF l
<1>4. l \in Injection(1 .. n, S)
  BY <1>3 DEF Injection
<1>5. l \in Surjection(1 .. n, S)
  BY <1>1, <1>4, FS_Injection
<1>6. l \in Seq(S) /\ Len(l) = n
  BY <1>1, <1>3
<1>7. \A x : x \in ToSet(l) <=> \E i \in 1 .. n : l[i] = x
  BY <1>6, ToSetMembers
<1>8. ToSet(l) = S
  BY <1>5, <1>7 DEF Surjection
<1> QED
  BY <1>6, <1>8 DEF l

-----------------------------------------------------------------------------
\* The places where a value occurs in a queue

Places(q, e) == {k \in DOMAIN q : q[k] = e}

LEMMA PlacesFinite ==
  ASSUME NEW S, NEW q \in Seq(S), NEW e
  PROVE  /\ IsFiniteSet(Places(q, e)) /\ Cardinality(Places(q, e)) \in Nat
         /\ (Cardinality(Places(q, e)) = 0) <=> (\A k \in 1 .. Len(q) : q[k] # e)
<1>1. DOMAIN q = 1 .. Len(q) /\ Len(q) \in Nat
  BY LenProperties
<1>2. IsFiniteSet(1 .. Len(q))
  BY <1>1, FS_Interval
<1>3. IsFiniteSet(Places(q, e))
  BY <1>1, <1>2, FS_Subset DEF Places
<1>4. Cardinality(Places(q, e)) \in Nat
  BY <1>3, FS_CardinalityType
<1>5. (Cardinality(Places(q, e)) = 0) <=> (Places(q, e) = {})
  BY <1>3, FS_EmptySet
<1> QED
  BY <1>1, <1>3, <1>4, <1>5 DEF Places

\* One more at the end.
LEMMA PlacesAppend ==
  ASSUME NEW S, NEW q \in Seq(S), NEW x \in S, NEW e
  PROVE  Cardinality(Places(Append(q, x), e)) =
           Cardinality(Places(q, e)) + IF x = e THEN 1 ELSE 0
<1> DEFINE n == Len(q) + 1
<1>1. /\ DOMAIN q = 1 .. Len(q) /\ Len(q) \in Nat
      /\ DOMAIN Append(q, x) = 1 .. n
      /\ \A i \in 1 .. Len(q) : Append(q, x)[i] = q[i]
      /\ Append(q, x)[n] = x
  BY AppendProperties, LenProperties
<1>2. Places(Append(q, x), e) = Places(q, e) \union (IF x = e THEN {n} ELSE {})
  BY <1>1 DEF Places
<1>3. n \notin Places(q, e)
  BY <1>1 DEF Places
<1>4. CASE x = e
  BY <1>2, <1>3, <1>4, PlacesFinite, FS_AddElement
<1>5. CASE x # e
  BY <1>2, <1>5, PlacesFinite
<1> QED
  BY <1>4, <1>5

\* One less at the front.
LEMMA PlacesTail ==
  ASSUME NEW S, NEW q \in Seq(S), q # << >>, NEW e
  PROVE  Cardinality(Places(q, e)) =
           Cardinality(Places(Tail(q), e)) + IF Head(q) = e THEN 1 ELSE 0
<1>1. /\ Len(q) \in Nat \ {0} /\ DOMAIN q = 1 .. Len(q)
      /\ Tail(q) \in Seq(S) /\ Len(Tail(q)) = Len(q) - 1
      /\ DOMAIN Tail(q) = 1 .. Len(q) - 1
      /\ \A i \in 1 .. Len(q) - 1 : Tail(q)[i] = q[i + 1]
      /\ Head(q) = q[1]
  BY HeadTailProperties, LenProperties, EmptySeq
<1> DEFINE later == Places(q, e) \ {1}
           up == [i \in Places(Tail(q), e) |-> i + 1]
<1>2. ExistsBijection(Places(Tail(q), e), later)
  <2>1. \A i \in Places(Tail(q), e) : i + 1 \in later
    BY <1>1 DEF Places
  <2>2. \A k \in later : k - 1 \in Places(Tail(q), e) /\ (k - 1) + 1 = k
    BY <1>1 DEF Places
  <2>3. \A i, j \in Places(Tail(q), e) : i + 1 = j + 1 => i = j
    BY <1>1 DEF Places
  <2>4. up \in Bijection(Places(Tail(q), e), later)
    BY <2>1, <2>2, <2>3 DEF Bijection, Injection, Surjection, IsInjective
  <2> QED
    BY <2>4 DEF ExistsBijection
<1>3. Cardinality(later) = Cardinality(Places(Tail(q), e))
  BY <1>1, <1>2, PlacesFinite, FS_Bijection
<1>4. 1 \in Places(q, e) <=> Head(q) = e
  BY <1>1 DEF Places
<1>5. Cardinality(later) = IF 1 \in Places(q, e) THEN Cardinality(Places(q, e)) - 1
                                                 ELSE Cardinality(Places(q, e))
  BY PlacesFinite, FS_RemoveElement
<1> QED
  BY <1>1, <1>3, <1>4, <1>5, PlacesFinite

\* A value that occurs at most once, or nowhere.
LEMMA PlacesOnce ==
  ASSUME NEW S, NEW q \in Seq(S), NEW i \in 1 .. Len(q), NEW j \in 1 .. Len(q),
         q[i] = q[j], Cardinality(Places(q, q[i])) <= 1
  PROVE  i = j
<1> DEFINE P == Places(q, q[i])
<1>1. i \in P /\ j \in P
  BY LenProperties DEF Places
<1>2. IsFiniteSet(P) /\ Cardinality(P) \in Nat
  BY PlacesFinite
<1>3. IsFiniteSet(P \ {i}) /\ Cardinality(P \ {i}) = Cardinality(P) - 1
  BY <1>1, <1>2, FS_RemoveElement
<1>4. Cardinality(P \ {i}) = 0
  BY <1>2, <1>3, FS_CardinalityType
<1>5. P \ {i} = {}
  BY <1>3, <1>4, FS_EmptySet
<1> QED
  BY <1>1, <1>5

\* Two sets that differ in one element at most.
LEMMA CardinalityChange ==
  ASSUME NEW S, NEW T, IsFiniteSet(S), NEW x, S \ {x} = T \ {x}
  PROVE  /\ IsFiniteSet(T) /\ Cardinality(S) \in Nat /\ Cardinality(T) \in Nat
         /\ Cardinality(T) + (IF x \in S THEN 1 ELSE 0) =
              Cardinality(S) + (IF x \in T THEN 1 ELSE 0)
<1> DEFINE R == S \ {x}
<1>1. /\ IsFiniteSet(R) /\ Cardinality(R) \in Nat /\ Cardinality(S) \in Nat
      /\ Cardinality(R) = IF x \in S THEN Cardinality(S) - 1 ELSE Cardinality(S)
  BY FS_RemoveElement, FS_CardinalityType
<1>2. x \in T => T = R \union {x}
  OBVIOUS
<1>3. x \notin T => T = R
  OBVIOUS
<1>4. x \notin R
  OBVIOUS
<1>5. CASE x \in T
  <2>1. IsFiniteSet(T) /\ Cardinality(T) = Cardinality(R) + 1
    BY <1>1, <1>2, <1>4, <1>5, FS_AddElement
  <2> QED
    BY <1>1, <1>5, <2>1
<1>6. CASE x \notin T
  <2>1. Cardinality(T) = Cardinality(R) /\ IsFiniteSet(T)
    BY <1>1, <1>3, <1>6
  <2> HIDE DEF R
  <2> QED
    BY <1>1, <1>6, <2>1
<1> QED
  BY <1>5, <1>6
=============================================================================
