-------------------------------- MODULE Sums --------------------------------
(***************************************************************************)
(* Lemmas about SumFunctionOnSet, the sum of a function's values over a    *)
(* finite set.  The fold is a recursive function; the lemmas say what it   *)
(* comes to without recursion, by counting: a sum of numbers of things is  *)
(* the number of all the things.                                           *)
(***************************************************************************)
EXTENDS Integers, FiniteSets, Functions, FiniteSetTheorems,
        WellFoundedInduction, TLAPS

\* Every set of natural numbers that is not empty has a least one.
LEMMA LeastNumber ==
  ASSUME NEW T, T \subseteq Nat, T # {}
  PROVE  \E n \in T : \A m \in T : n <= m
<1> DEFINE R == OpToRel(<, Nat)
<1>1. IsWellFoundedOn(R, Nat)
  BY NatLessThanWellFounded
<1>2. \A m, n \in Nat : m < n => <<m, n>> \in R
  BY DEF OpToRel
<1> HIDE DEF R
<1>3. PICK n \in T : \A m \in T : ~ (<<m, n>> \in R)
  BY <1>1, WFMin
<1>4. \A m \in T : m \in Nat /\ n \in Nat /\ ~ (m < n)
  BY <1>2, <1>3
<1> QED
  BY <1>4

\* What is one of the set, and what is left of it, as the fold chooses.
Unfolds(iter, f, S) ==
  iter = [s \in SUBSET S |->
            IF s = {} THEN 0
            ELSE f[CHOOSE x \in s : TRUE] + iter[s \ {CHOOSE x \in s : TRUE}]]

\* The fold is the value at S of a function that unfolds so.
LEMMA FoldIs ==
  ASSUME NEW S, NEW f
  PROVE  SumFunctionOnSet(f, S) = (CHOOSE iter : Unfolds(iter, f, S))[S]
  BY DEF SumFunctionOnSet, FoldFunctionOnSet, MapThenFoldSet, Unfolds

\* A function that satisfies the recursion in every order is the only one.
LEMMA UnfoldsOnce ==
  ASSUME NEW S, IsFiniteSet(S), NEW f, NEW iter, Unfolds(iter, f, S),
         NEW C, C[{}] = 0,
         \A s \in SUBSET S : \A x \in s : C[s] = f[x] + C[s \ {x}]
  PROVE  iter[S] = C[S]
<1> DEFINE Wrong == {s \in SUBSET S : iter[s] # C[s]}
           Sizes == {Cardinality(s) : s \in Wrong}
<1>1. \A s \in SUBSET S : IsFiniteSet(s) /\ Cardinality(s) \in Nat
  BY FS_Subset, FS_CardinalityType
<1>2. ASSUME NEW s \in Wrong, \A t \in Wrong : Cardinality(s) <= Cardinality(t)
      PROVE  FALSE
  <2>1. iter[s] = IF s = {} THEN 0
                  ELSE f[CHOOSE x \in s : TRUE] + iter[s \ {CHOOSE x \in s : TRUE}]
    BY DEF Unfolds
  <2>2. s # {}
    BY <2>1
  <2> DEFINE x == CHOOSE x \in s : TRUE
  <2>3. x \in s
    BY <2>2
  <2> HIDE DEF x
  <2>4. Cardinality(s \ {x}) = Cardinality(s) - 1 /\ s \ {x} \in SUBSET S
    BY <1>1, <2>3, FS_RemoveElement
  <2>5. iter[s \ {x}] = C[s \ {x}]
    BY <1>1, <1>2, <2>4
  <2>6. iter[s] = f[x] + iter[s \ {x}]
    BY <2>1, <2>2 DEF x
  <2> QED
    BY <2>3, <2>5, <2>6
<1>3. ASSUME Wrong # {} PROVE FALSE
  <2>1. Sizes \subseteq Nat /\ Sizes # {}
    BY <1>1, <1>3
  <2>2. PICK n \in Sizes : \A m \in Sizes : n <= m
    BY <2>1, LeastNumber
  <2>3. PICK s \in Wrong : n = Cardinality(s)
    BY <2>2
  <2> QED
    BY <1>2, <2>2, <2>3
<1> QED
  BY <1>3

-----------------------------------------------------------------------------
\* What the sets of a family hold together.
Everything(P, S) == UNION {P[x] : x \in S}

\* The numbers of things in the sets of a disjoint family add up to the
\* number of all the things.
LEMMA SumIsCount ==
  ASSUME NEW S, IsFiniteSet(S), NEW P, NEW f,
         \A x \in S : IsFiniteSet(P[x]) /\ f[x] = Cardinality(P[x]),
         \A x, y \in S : x # y => P[x] \cap P[y] = {}
  PROVE  /\ IsFiniteSet(Everything(P, S))
         /\ SumFunctionOnSet(f, S) = Cardinality(Everything(P, S))
<1> DEFINE C == [s \in SUBSET S |-> Cardinality(Everything(P, s))]
<1>1. ASSUME NEW s \in SUBSET S PROVE IsFiniteSet(Everything(P, s))
  <2>1. IsFiniteSet(s)
    BY FS_Subset
  <2> DEFINE Q == {P[x] : x \in s}
  <2>2. IsFiniteSet(Q)
    <3> DEFINE g == [x \in s |-> P[x]]
    <3>1. g \in Surjection(s, Q)
      BY DEF Surjection
    <3> QED
      BY <2>1, <3>1, FS_Surjection
  <2> QED
    BY <2>2, FS_UNION DEF Everything
<1>2. C[{}] = 0
  <2>1. Everything(P, {}) = {}
    BY DEF Everything
  <2> QED
    BY <2>1, FS_EmptySet
<1>3. ASSUME NEW s \in SUBSET S, NEW x \in s PROVE C[s] = f[x] + C[s \ {x}]
  <2>1. Everything(P, s) = P[x] \cup Everything(P, s \ {x})
    BY DEF Everything
  <2>2. P[x] \cap Everything(P, s \ {x}) = {}
    BY DEF Everything
  <2>3. IsFiniteSet(P[x]) /\ IsFiniteSet(Everything(P, s \ {x}))
    BY <1>1
  <2> DEFINE rest == Everything(P, s \ {x})
  <2> HIDE DEF rest
  <2>4. Cardinality(P[x] \cup rest)
          = Cardinality(P[x]) + Cardinality(rest) - Cardinality(P[x] \cap rest)
    BY <2>3, FS_Union DEF rest
  <2>5. Cardinality(P[x]) \in Nat /\ Cardinality(rest) \in Nat
    BY <2>3, FS_CardinalityType DEF rest
  <2>6. Cardinality(P[x] \cap rest) = 0
    BY <2>2, FS_EmptySet DEF rest
  <2>7. Cardinality(Everything(P, s)) = f[x] + Cardinality(rest)
    BY <2>1, <2>4, <2>5, <2>6 DEF rest
  <2> QED
    BY <2>7 DEF rest
<1>4. Unfolds(C, f, S)
  <2>1. ASSUME NEW s \in SUBSET S, s # {}
        PROVE  C[s] = f[CHOOSE x \in s : TRUE] + C[s \ {CHOOSE x \in s : TRUE}]
    <3>1. (CHOOSE x \in s : TRUE) \in s
      BY <2>1
    <3> QED
      BY <1>3, <3>1
  <2> HIDE DEF C
  <2>2. C = [s \in SUBSET S |-> C[s]]
    BY DEF C
  <2> QED
    BY <1>2, <2>1, <2>2 DEF Unfolds
<1> HIDE DEF C
<1> DEFINE fold == CHOOSE iter : Unfolds(iter, f, S)
<1>5. Unfolds(fold, f, S)
  BY <1>4
<1>6. SumFunctionOnSet(f, S) = fold[S]
  BY FoldIs
<1> HIDE DEF fold
<1>7. fold[S] = C[S]
  BY <1>2, <1>3, <1>5, UnfoldsOnce
<1> QED
  BY <1>1, <1>6, <1>7 DEF C
-----------------------------------------------------------------------------
\* A function of numbers as a family: the units of each number, marked.
Units(f, S) == [x \in S |-> {x} \X (1..f[x])]

\* A sum of natural numbers is the number of their units.
LEMMA SumIsUnits ==
  ASSUME NEW S, IsFiniteSet(S), NEW f, \A x \in S : f[x] \in Nat
  PROVE  LET all == {u \in S \X Nat : u[2] \in 1..f[u[1]]}
         IN  IsFiniteSet(all) /\ SumFunctionOnSet(f, S) = Cardinality(all)
<1> DEFINE P == Units(f, S)
           all == {u \in S \X Nat : u[2] \in 1..f[u[1]]}
<1>1. ASSUME NEW x \in S PROVE IsFiniteSet(P[x]) /\ f[x] = Cardinality(P[x])
  <2> DEFINE one == {x}
             n == 1..f[x]
  <2>0. P[x] = {x} \X (1..f[x])
    BY DEF Units
  <2>1. P[x] = one \X n
    BY <2>0
  <2>2. IsFiniteSet(n) /\ Cardinality(n) = f[x]
    BY FS_Interval
  <2>3. IsFiniteSet(one) /\ Cardinality(one) = 1
    BY FS_Singleton
  <2> HIDE DEF one, n
  <2>4. IsFiniteSet(one \X n) /\ Cardinality(one \X n) = Cardinality(one) * Cardinality(n)
    BY <2>2, <2>3, FS_Product
  <2> QED
    BY <2>1, <2>2, <2>3, <2>4
<1>2. ASSUME NEW x \in S, NEW u
      PROVE  u \in P[x] <=> u \in S \X Nat /\ u[2] \in 1..f[u[1]] /\ u[1] = x
  <2>1. P[x] = {x} \X (1..f[x])
    BY DEF Units
  <2>2. 1..f[x] \subseteq Nat
    OBVIOUS
  <2>3. ASSUME u \in {x} \X (1..f[x])
        PROVE  u \in S \X Nat /\ u[2] \in 1..f[u[1]] /\ u[1] = x
    <3>1. PICK n \in 1..f[x] : u = <<x, n>>
      BY <2>3
    <3> QED
      BY <2>2, <3>1
  <2>4. ASSUME u \in S \X Nat, u[2] \in 1..f[u[1]], u[1] = x
        PROVE  u \in {x} \X (1..f[x])
    <3>1. u = <<u[1], u[2]>>
      BY <2>4
    <3> QED
      BY <2>4, <3>1
  <2> QED
    BY <2>1, <2>3, <2>4
<1> HIDE DEF P
<1>3. \A x, y \in S : x # y => P[x] \cap P[y] = {}
  BY <1>2
<1>4. Everything(P, S) = all
  BY <1>2 DEF Everything
<1>5. IsFiniteSet(Everything(P, S)) /\ SumFunctionOnSet(f, S) = Cardinality(Everything(P, S))
  BY <1>1, <1>3, SumIsCount
<1> QED
  BY <1>4, <1>5

\* A sum of natural numbers is one.
LEMMA SumType ==
  ASSUME NEW S, IsFiniteSet(S), NEW f, \A x \in S : f[x] \in Nat
  PROVE  SumFunctionOnSet(f, S) \in Nat
<1> DEFINE all == {u \in S \X Nat : u[2] \in 1..f[u[1]]}
<1>1. IsFiniteSet(all) /\ SumFunctionOnSet(f, S) = Cardinality(all)
  BY SumIsUnits
<1> HIDE DEF all
<1> QED
  BY <1>1, FS_CardinalityType

\* The sum over nothing.
LEMMA SumOfNone ==
  ASSUME NEW f
  PROVE  SumFunctionOnSet(f, {}) = 0
<1>1. IsFiniteSet({}) /\ \A x \in {} : f[x] \in Nat
  BY FS_EmptySet
<1> DEFINE all == {u \in {} \X Nat : u[2] \in 1..f[u[1]]}
<1>2. SumFunctionOnSet(f, {}) = Cardinality(all)
  BY <1>1, SumIsUnits
<1>3. all = {}
  OBVIOUS
<1> QED
  BY <1>2, <1>3, FS_EmptySet

\* Functions that agree on a set have one sum over it.
LEMMA SumAgrees ==
  ASSUME NEW S, IsFiniteSet(S), NEW f, NEW g,
         \A x \in S : f[x] \in Nat /\ g[x] = f[x]
  PROVE  SumFunctionOnSet(f, S) = SumFunctionOnSet(g, S)
<1> DEFINE all(h) == {u \in S \X Nat : u[2] \in 1..h[u[1]]}
<1>1. SumFunctionOnSet(f, S) = Cardinality(all(f))
  BY SumIsUnits
<1>2. \A x \in S : g[x] \in Nat
  OBVIOUS
<1>3. SumFunctionOnSet(g, S) = Cardinality(all(g))
  BY <1>2, SumIsUnits
<1>4. all(f) = all(g)
  OBVIOUS
<1> QED
  BY <1>1, <1>3, <1>4

\* The sum over two sets that share nothing.
LEMMA SumSplits ==
  ASSUME NEW S, IsFiniteSet(S), NEW T, IsFiniteSet(T), S \cap T = {},
         NEW f, \A x \in S \cup T : f[x] \in Nat
  PROVE  SumFunctionOnSet(f, S \cup T) = SumFunctionOnSet(f, S) + SumFunctionOnSet(f, T)
<1> DEFINE all(R) == {u \in R \X Nat : u[2] \in 1..f[u[1]]}
<1>1. IsFiniteSet(all(S)) /\ SumFunctionOnSet(f, S) = Cardinality(all(S))
  BY SumIsUnits
<1>2. IsFiniteSet(all(T)) /\ SumFunctionOnSet(f, T) = Cardinality(all(T))
  BY SumIsUnits
<1>3. SumFunctionOnSet(f, S \cup T) = Cardinality(all(S \cup T))
  <2>1. IsFiniteSet(S \cup T)
    BY FS_Union
  <2> QED
    BY <2>1, SumIsUnits
<1>4. all(S \cup T) = all(S) \cup all(T) /\ all(S) \cap all(T) = {}
  OBVIOUS
<1> DEFINE a == all(S)
           b == all(T)
<1>5. IsFiniteSet(a) /\ IsFiniteSet(b) /\ a \cap b = {}
  BY <1>1, <1>2, <1>4
<1>6. SumFunctionOnSet(f, S \cup T) = Cardinality(a \cup b)
  BY <1>3, <1>4
<1> HIDE DEF a, b
<1>7. /\ Cardinality(a \cup b) = Cardinality(a) + Cardinality(b) - Cardinality(a \cap b)
      /\ Cardinality(a) \in Nat /\ Cardinality(b) \in Nat
  BY <1>5, FS_Union, FS_CardinalityType
<1>8. Cardinality(a \cap b) = 0
  BY <1>5, FS_EmptySet
<1>9. SumFunctionOnSet(f, S \cup T) = Cardinality(a) + Cardinality(b)
  BY <1>6, <1>7, <1>8
<1> QED
  BY <1>1, <1>2, <1>9 DEF a, b

\* A greater function has no smaller sum.
LEMMA SumMonotonic ==
  ASSUME NEW S, IsFiniteSet(S), NEW f, NEW g,
         \A x \in S : f[x] \in Nat /\ g[x] \in Nat /\ f[x] <= g[x]
  PROVE  SumFunctionOnSet(f, S) <= SumFunctionOnSet(g, S)
<1> DEFINE all(h) == {u \in S \X Nat : u[2] \in 1..h[u[1]]}
<1>1. IsFiniteSet(all(f)) /\ SumFunctionOnSet(f, S) = Cardinality(all(f))
  BY SumIsUnits
<1>2. IsFiniteSet(all(g)) /\ SumFunctionOnSet(g, S) = Cardinality(all(g))
  BY SumIsUnits
<1>3. all(f) \in SUBSET all(g)
  OBVIOUS
<1> HIDE DEF all
<1> QED
  BY <1>1, <1>2, <1>3, FS_Subset

\* A sum of zeros.
LEMMA SumOfZeros ==
  ASSUME NEW S, IsFiniteSet(S), NEW f, \A x \in S : f[x] = 0
  PROVE  SumFunctionOnSet(f, S) = 0
<1> DEFINE all == {u \in S \X Nat : u[2] \in 1..f[u[1]]}
<1>1. SumFunctionOnSet(f, S) = Cardinality(all)
  BY SumIsUnits
<1>2. all = {}
  OBVIOUS
<1> QED
  BY <1>1, <1>2, FS_EmptySet

\* One summand apart from the others.
LEMMA SumTakesOne ==
  ASSUME NEW S, IsFiniteSet(S), NEW f, \A x \in S : f[x] \in Nat, NEW y \in S
  PROVE  SumFunctionOnSet(f, S) = f[y] + SumFunctionOnSet(f, S \ {y})
<1> DEFINE rest == S \ {y}
           one == {y}
<1>1. IsFiniteSet(rest) /\ IsFiniteSet(one) /\ rest \cap one = {} /\ S = one \cup rest
  BY FS_Subset, FS_Singleton
<1>2. SumFunctionOnSet(f, S) = SumFunctionOnSet(f, one) + SumFunctionOnSet(f, rest)
  <2> HIDE DEF rest, one
  <2> QED
    BY <1>1, SumSplits
<1>3. SumFunctionOnSet(f, one) = f[y]
  <2> DEFINE all == {u \in one \X Nat : u[2] \in 1..f[u[1]]}
             units == 1..f[y]
  <2>1. SumFunctionOnSet(f, one) = Cardinality(all)
    BY <1>1, SumIsUnits
  <2>2. IsFiniteSet(units) /\ Cardinality(units) = f[y]
    BY FS_Interval
  <2>3. all = one \X units
    OBVIOUS
  <2>4. Cardinality(one \X units) = Cardinality(one) * Cardinality(units)
    <3> HIDE DEF one, units
    <3> QED
      BY <1>1, <2>2, FS_Product
  <2>5. Cardinality(one) = 1
    BY FS_Singleton
  <2> HIDE DEF all, one, units
  <2> QED
    BY <2>1, <2>2, <2>3, <2>4, <2>5
<1> QED
  BY <1>2, <1>3

\* The sum of two functions' sums.
LEMMA SumAdds ==
  ASSUME NEW S, IsFiniteSet(S), NEW f, NEW g, NEW h,
         \A x \in S : f[x] \in Nat /\ g[x] \in Nat /\ h[x] = f[x] + g[x]
  PROVE  SumFunctionOnSet(h, S) = SumFunctionOnSet(f, S) + SumFunctionOnSet(g, S)
<1> DEFINE all(k) == {u \in S \X Nat : u[2] \in 1..k[u[1]]}
           a == all(f)
           b == all(g)
           c == all(h)
           P == [x \in S |-> {x} \X (1..f[x])]
<1>1. IsFiniteSet(a) /\ SumFunctionOnSet(f, S) = Cardinality(a)
  BY SumIsUnits
<1>2. IsFiniteSet(b) /\ SumFunctionOnSet(g, S) = Cardinality(b)
  BY SumIsUnits
<1>3. IsFiniteSet(c) /\ SumFunctionOnSet(h, S) = Cardinality(c)
  <2>1. \A x \in S : h[x] \in Nat
    OBVIOUS
  <2> QED
    BY <2>1, SumIsUnits
\* The units of h past those of f are as many as those of g.
<1>4. a \subseteq c /\ ExistsBijection(b, c \ a)
  <2> DEFINE shift == [u \in b |-> <<u[1], u[2] + f[u[1]]>>]
             back == [u \in c \ a |-> <<u[1], u[2] - f[u[1]]>>]
  <2>1. a \subseteq c
    OBVIOUS
  <2>2. \A u \in b : u = <<u[1], u[2]>> /\ u[1] \in S /\ u[2] \in Nat /\ 1 <= u[2] /\ u[2] <= g[u[1]]
    OBVIOUS
  <2>3. \A u \in c \ a : /\ u = <<u[1], u[2]>> /\ u[1] \in S /\ u[2] \in Nat
                         /\ f[u[1]] < u[2] /\ u[2] <= f[u[1]] + g[u[1]]
    OBVIOUS
  <2>4. ASSUME NEW u \in b PROVE shift[u] \in c \ a
    <3>1. PICK x \in S, n \in Nat : u = <<x, n>> /\ 1 <= n /\ n <= g[x]
      BY <2>2
    <3>2. /\ f[x] \in Nat /\ g[x] \in Nat /\ h[x] = f[x] + g[x]
          /\ n + f[x] \in Nat /\ n + f[x] \in 1..h[x] /\ n + f[x] \notin 1..f[x]
      BY <3>1
    <3>3. <<x, n + f[x]>> \in S \X Nat
      BY <3>2
    <3>4. shift[u] = <<x, n + f[x]>>
      BY <3>1
    <3> HIDE DEF shift
    <3> QED
      BY <3>2, <3>3, <3>4
  <2>5. \A u \in c \ a : back[u] \in b /\ shift[back[u]] = u
    BY <2>3
  <2>6. ASSUME NEW u \in b, NEW v \in b, shift[u] = shift[v] PROVE u = v
    <3>1. /\ u = <<u[1], u[2]>> /\ u[1] \in S /\ u[2] \in Nat
          /\ v = <<v[1], v[2]>> /\ v[1] \in S /\ v[2] \in Nat
      BY <2>2
    <3>2. <<u[1], u[2] + f[u[1]]>> = <<v[1], v[2] + f[v[1]]>>
      BY <2>6
    <3>3. u[1] = v[1] /\ u[2] + f[u[1]] = v[2] + f[v[1]]
      BY <3>2
    <3>4. f[u[1]] \in Nat
      BY <3>1
    <3> QED
      BY <3>1, <3>3, <3>4
  <2>7. shift \in Bijection(b, c \ a)
    <3> HIDE DEF a, b, c, back
    <3>1. shift \in [b -> c \ a]
      BY <2>4
    <3> HIDE DEF shift
    <3>2. shift \in Injection(b, c \ a)
      BY <2>6, <3>1 DEF Injection, IsInjective
    <3>3. shift \in Surjection(b, c \ a)
      BY <2>5, <3>1 DEF Surjection
    <3> QED
      BY <3>2, <3>3 DEF Bijection
  <2> HIDE DEF a, b, c, shift
  <2> QED
    BY <2>1, <2>7 DEF ExistsBijection
<1> HIDE DEF a, b, c
<1>5. IsFiniteSet(c \ a) /\ Cardinality(c \ a) = Cardinality(b)
  BY <1>2, <1>4, FS_Bijection
<1>6. Cardinality(c \ a) = Cardinality(c) - Cardinality(c \cap a) /\ c \cap a = a
  BY <1>3, <1>4, FS_Difference
<1>7. Cardinality(c \cap a) = Cardinality(a)
  BY <1>6
<1>8. Cardinality(a) \in Nat /\ Cardinality(b) \in Nat /\ Cardinality(c) \in Nat
  BY <1>1, <1>2, <1>3, FS_CardinalityType
<1> QED
  BY <1>1, <1>2, <1>3, <1>5, <1>6, <1>7, <1>8
=============================================================================
