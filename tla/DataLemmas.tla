------------------------------ MODULE DataLemmas ------------------------------
(***************************************************************************)
(* Facts about numbers, finite sets and recursive functions that the       *)
(* proofs of the other modules use.  Induction is by least counterexample: *)
(* a set of natural numbers that is not empty has a least element.         *)
(***************************************************************************)
EXTENDS Integers, Sequences, FiniteSets, FiniteSetTheorems, WellFoundedInduction, TLAPS

\* The least-number principle.
LEMMA LeastNumber ==
  ASSUME NEW T \in SUBSET Nat, T # {}
  PROVE  \E n \in T : \A m \in T : n <= m
<1>1. \E x \in T : \A y \in T : ~(<<y, x>> \in OpToRel(<, Nat))
  BY NatLessThanWellFounded, WFMin, Zenon
<1>2. \A x, y \in Nat : <<y, x>> \in OpToRel(<, Nat) <=> y < x
  BY DEF OpToRel
<1>3. \E x \in T : \A y \in T : ~(y < x)
  BY <1>1, <1>2, Zenon
<1> QED BY <1>3

\* A finite set of numbers that is not empty has a greatest element.
LEMMA GreatestNumber ==
  ASSUME NEW S \in SUBSET Nat, IsFiniteSet(S), S # {}
  PROVE  \E n \in S : \A m \in S : m <= n
<1> DEFINE Bad(U) == IsFiniteSet(U) /\ U # {} /\ ~\E n \in U : \A m \in U : m <= n
           T == {c \in Nat : \E U \in SUBSET Nat : Bad(U) /\ Cardinality(U) = c}
<1> SUFFICES ASSUME Bad(S) PROVE FALSE
  OBVIOUS
<1>1. Cardinality(S) \in T
  BY FS_CardinalityType
<1>2. PICK c \in T : \A d \in T : c <= d
  BY <1>1, LeastNumber
<1>3. PICK U \in SUBSET Nat : Bad(U) /\ Cardinality(U) = c
  BY <1>2
<1>4. PICK x \in U : TRUE
  BY <1>3
<1>5. IsFiniteSet(U \ {x}) /\ Cardinality(U \ {x}) = c - 1
  BY <1>3, <1>4, FS_RemoveElement
<1>6. ~Bad(U \ {x})
  <2>1. c \in Nat /\ Cardinality(U \ {x}) \in Nat
    BY <1>2, <1>5, FS_CardinalityType
  <2>2. c - 1 \notin T
    BY <1>2, <2>1
  <2> QED BY <1>3, <1>5, <2>1, <2>2
<1>7. CASE U \ {x} = {}
  BY <1>3, <1>4, <1>7
<1>8. CASE U \ {x} # {}
  <2>1. PICK n \in U \ {x} : \A m \in U \ {x} : m <= n
    BY <1>5, <1>6, <1>8
  <2>2. \A m \in U : m <= IF x <= n THEN n ELSE x
    BY <2>1, <1>4
  <2> QED BY <2>1, <2>2, <1>3, <1>4
<1> QED BY <1>7, <1>8

\* f starts with c and takes each value, up to n, from the one before by step.
Iterates(f, n, V, c, step) ==
  /\ f \in [0 .. n -> V]
  /\ f[0] = c
  /\ \A i \in 1 .. n : f[i] = step[<<i, f[i - 1]>>]

\* Recursion over 0 .. n: there is such a function.
LEMMA Recursion ==
  ASSUME NEW n \in Nat, NEW V, NEW c \in V, NEW step \in [(1 .. n) \X V -> V]
  PROVE  \E f : Iterates(f, n, V, c, step)
<1> DEFINE Good(k, f) == f[0] = c /\ \A i \in 1 .. k : f[i] = step[<<i, f[i - 1]>>]
           T == {k \in Nat : k <= n /\ ~\E f \in [0 .. k -> V] : Good(k, f)}
<1> SUFFICES ASSUME n \in T PROVE FALSE
  BY DEF Iterates
<1>1. PICK k \in T : \A m \in T : k <= m
  <2> T \in SUBSET Nat /\ T # {}
    OBVIOUS
  <2> HIDE DEF T
  <2> QED BY LeastNumber
<1>2. k # 0
  <2>1. [i \in 0 .. 0 |-> c] \in [0 .. 0 -> V] /\ Good(0, [i \in 0 .. 0 |-> c])
    OBVIOUS
  <2> QED BY <2>1
<1>3. k - 1 \notin T /\ k - 1 \in Nat /\ k \in Nat /\ k <= n
  BY <1>1, <1>2
<1>4. PICK f \in [0 .. k - 1 -> V] : Good(k - 1, f)
  BY <1>3
<1> DEFINE g == [i \in 0 .. k |-> IF i = k THEN step[<<k, f[k - 1]>>] ELSE f[i]]
<1>5. step[<<k, f[k - 1]>>] \in V
  BY <1>2, <1>3, <1>4
<1>6. g \in [0 .. k -> V]
  BY <1>4, <1>5, <1>3
<1>7. Good(k, g)
  <2>1. g[0] = c
    BY <1>2, <1>3, <1>4
  <2>2. ASSUME NEW i \in 1 .. k PROVE g[i] = step[<<i, g[i - 1]>>]
    <3>1. g[i - 1] = f[i - 1]
      BY <1>3
    <3>2. CASE i = k
      <4>1. k \in 0 .. k
        BY <1>3
      <4>2. g[k] = step[<<k, f[k - 1]>>]
        BY <4>1, Zenon
      <4> HIDE DEF g
      <4> QED BY <4>2, <3>1, <3>2
    <3>3. CASE i # k
      <4>1. i \in 1 .. k - 1 /\ i \in 0 .. k
        BY <3>3, <1>3
      <4>2. g[i] = f[i]
        BY <4>1, <3>3
      <4> QED BY <4>1, <4>2, <3>1, <1>4
    <3> QED BY <3>2, <3>3
  <2> HIDE DEF g
  <2> QED BY <2>1, <2>2
<1> QED BY <1>1, <1>6, <1>7

\* f and g agree at 0, and at each i up to n if they agree just before it.
Lockstep(f, g, n) ==
  /\ f[0] = g[0]
  /\ \A i \in 1 .. n : f[i - 1] = g[i - 1] => f[i] = g[i]

\* Induction over 0 .. n: such functions agree.
LEMMA SameSteps ==
  ASSUME NEW n \in Nat, NEW f, NEW g, Lockstep(f, g, n)
  PROVE  \A i \in 0 .. n : f[i] = g[i]
<1> DEFINE T == {i \in Nat : i <= n /\ f[i] # g[i]}
<1>1. T = {}
  <2> SUFFICES ASSUME T # {} PROVE FALSE
    OBVIOUS
  <2>1. PICK i \in T : \A m \in T : i <= m
    <3> T \in SUBSET Nat
      OBVIOUS
    <3> HIDE DEF T
    <3> QED BY LeastNumber
  <2>2. i \in 1 .. n /\ i - 1 \in Nat /\ i - 1 \notin T
    BY <2>1 DEF Lockstep
  <2> QED BY <2>1, <2>2 DEF Lockstep
<1> QED BY <1>1

\* f starts with c and takes each value from the one before by step.
NatIterates(f, V, c, step) ==
  /\ f \in [Nat -> V]
  /\ f[0] = c
  /\ \A i \in Nat \ {0} : f[i] = step[<<i, f[i - 1]>>]

\* Recursion over all natural numbers.
LEMMA NatRecursion ==
  ASSUME NEW V, NEW c \in V, NEW step \in [Nat \X V -> V]
  PROVE  \E f : NatIterates(f, V, c, step)
<1> DEFINE Steps(n) == [p \in (1 .. n) \X V |-> step[p]]
           F(n) == CHOOSE f : Iterates(f, n, V, c, Steps(n))
           f == [n \in Nat |-> F(n)[n]]
<1>1. ASSUME NEW n \in Nat PROVE Iterates(F(n), n, V, c, Steps(n))
  <2>1. Steps(n) \in [(1 .. n) \X V -> V]
    OBVIOUS
  <2> HIDE DEF Steps
  <2>2. \E g : Iterates(g, n, V, c, Steps(n))
    BY <2>1, Recursion
  <2> QED BY <2>2
<1>2. ASSUME NEW n \in Nat
      PROVE  /\ F(n) \in [0 .. n -> V] /\ F(n)[0] = c
             /\ \A i \in 1 .. n : F(n)[i] = step[<<i, F(n)[i - 1]>>]
  <2>1. F(n) \in [0 .. n -> V] /\ F(n)[0] = c
    BY <1>1 DEF Iterates
  <2>2. ASSUME NEW i \in 1 .. n PROVE F(n)[i] = step[<<i, F(n)[i - 1]>>]
    <3>1. F(n)[i] = Steps(n)[<<i, F(n)[i - 1]>>]
      BY <1>1 DEF Iterates
    <3>2. F(n)[i - 1] \in V
      <4> HIDE DEF F
      <4> QED BY <2>1
    <3> HIDE DEF F
    <3> QED BY <3>1, <3>2
  <2> QED BY <2>1, <2>2
<1> HIDE DEF F
<1>3. f \in [Nat -> V] /\ f[0] = c
  BY <1>2
<1>4. ASSUME NEW i \in Nat \ {0} PROVE f[i] = step[<<i, f[i - 1]>>]
  <2>1. i - 1 \in Nat /\ i \in 1 .. i
    OBVIOUS
  <2>2. Lockstep(F(i), F(i - 1), i - 1)
    <3>1. F(i)[0] = F(i - 1)[0]
      BY <1>2, <2>1
    <3>2. ASSUME NEW j \in 1 .. i - 1, F(i)[j - 1] = F(i - 1)[j - 1]
          PROVE  F(i)[j] = F(i - 1)[j]
      <4>1. j \in 1 .. i
        BY <2>1
      <4>2. F(i)[j] = step[<<j, F(i)[j - 1]>>]
        BY <1>2, <4>1
      <4>3. F(i - 1)[j] = step[<<j, F(i - 1)[j - 1]>>]
        BY <1>2, <2>1
      <4> QED BY <4>2, <4>3, <3>2
    <3> QED BY <3>1, <3>2 DEF Lockstep
  <2>3. F(i)[i - 1] = F(i - 1)[i - 1]
    <3>1. i - 1 \in 0 .. i - 1
      BY <2>1
    <3> QED BY <3>1, <2>1, <2>2, SameSteps
  <2> QED BY <1>2, <2>1, <2>3
<1> HIDE DEF f
<1> QED BY <1>3, <1>4 DEF NatIterates

\* Division with remainder.
LEMMA Division ==
    ASSUME NEW x \in Int, NEW d \in Nat \ {0}
    PROVE  /\ x \div d \in Int /\ x % d \in 0 .. d - 1
           /\ x = d * (x \div d) + (x % d)
  OBVIOUS

\* Products with a number that is not negative grow.
LEMMA ProductsGrow ==
    ASSUME NEW d \in Nat, NEW a \in Int, NEW b \in Int, a <= b
    PROVE  d * a <= d * b /\ a * d <= b * d
  OBVIOUS

\* The quotient is the only number of its kind.
LEMMA Quotient ==
    ASSUME NEW x \in Int, NEW d \in Nat \ {0}, NEW q \in Int, d * q <= x, x < d * q + d
    PROVE  x \div d = q /\ x % d = x - d * q
<1> DEFINE e == x \div d
           r == x % d
<1>1. e \in Int /\ r \in 0 .. d - 1 /\ x = d * e + r
  BY Division
<1> HIDE DEF e, r
<1>2. CASE q >= e + 1
  <2>1. d * (e + 1) <= d * q
    BY <1>1, <1>2, ProductsGrow
  <2>2. d * (e + 1) = d * e + d
    BY <1>1
  <2>3. d * e \in Int /\ d * q \in Int
    BY <1>1
  <2> QED BY <1>1, <2>1, <2>2, <2>3
<1>3. CASE q + 1 <= e
  <2>1. d * (q + 1) <= d * e
    BY <1>1, <1>3, ProductsGrow
  <2>2. d * (q + 1) = d * q + d
    OBVIOUS
  <2>3. d * e \in Int /\ d * q \in Int
    BY <1>1
  <2> QED BY <1>1, <2>1, <2>2, <2>3
<1>4. q = e
  BY <1>1, <1>2, <1>3
<1>5. r = x - d * q
  BY <1>1, <1>4
<1> QED BY <1>4, <1>5 DEF e, r

\* Numbers with the same remainder differ by a multiple.
LEMMA SameRemainder ==
    ASSUME NEW x \in Int, NEW y \in Int, NEW n \in Nat \ {0}
    PROVE  x % n = y % n <=> \E z \in Int : x = y + z * n
<1> DEFINE a == x \div n
           b == y \div n
           r == x % n
           t == y % n
<1>1. a \in Int /\ r \in 0 .. n - 1 /\ x = n * a + r
  BY Division
<1>2. b \in Int /\ t \in 0 .. n - 1 /\ y = n * b + t
  BY Division
<1> HIDE DEF a, b, r, t
<1>3. ASSUME r = t PROVE \E z \in Int : x = y + z * n
  <2>1. x = y + (a - b) * n
    BY <1>1, <1>2, <1>3
  <2>2. a - b \in Int
    BY <1>1, <1>2
  <2> QED BY <2>1, <2>2, Zenon
<1>4. ASSUME NEW z \in Int, x = y + z * n PROVE r = t
  <2>1. x = n * (b + z) + t
    BY <1>1, <1>2, <1>4
  <2> DEFINE q == b + z
  <2>2. q \in Int /\ n * q \in Int
    BY <1>2
  <2> HIDE DEF q
  <2>3. n * q <= x /\ x < n * q + n /\ x - n * q = t
    BY <1>2, <2>1, <2>2 DEF q
  <2>4. x % n = x - n * q
    BY <2>2, <2>3, Quotient
  <2> QED BY <2>3, <2>4 DEF r
<1> QED BY <1>3, <1>4 DEF r, t

\* Equal modulo n.
Same(x, y, n) == x % n = y % n

\* A number and its remainder.
LEMMA SameMod ==
    ASSUME NEW x \in Int, NEW n \in Nat \ {0}
    PROVE  x % n \in 0 .. n - 1 /\ x % n \in Int /\ Same(x % n, x, n)
<1> DEFINE a == x \div n
           r == x % n
<1>1. a \in Int /\ r \in 0 .. n - 1 /\ x = n * a + r
  BY Division
<1> HIDE DEF a, r
<1>2. x = r + a * n
  BY <1>1
<1>3. r % n = x % n
  BY <1>1, <1>2, SameRemainder
<1> QED BY <1>1, <1>3 DEF r, Same

\* Remainders are the numbers below n.
LEMMA SmallMod ==
    ASSUME NEW n \in Nat \ {0}, NEW x \in 0 .. n - 1
    PROVE  x % n = x
<1>1. PICK q \in Int : q = 0
  OBVIOUS
<1>2. n * q <= x /\ x < n * q + n /\ n * q = 0
  BY <1>1
<1>3. x \in Int
  OBVIOUS
<1>4. x % n = x - n * q
  BY <1>2, <1>3, Quotient
<1> QED BY <1>2, <1>4

\* Sums, products and opposites keep equality modulo n.
LEMMA SameOperations ==
    ASSUME NEW n \in Nat \ {0}, NEW a \in Int, NEW b \in Int, NEW c \in Int, NEW d \in Int,
           Same(a, b, n), Same(c, d, n)
    PROVE  /\ Same(a + c, b + d, n) /\ Same(a * c, b * d, n)
           /\ Same(-a, -b, n) /\ Same(a - c, b - d, n)
<1>1. PICK z \in Int : a = b + z * n
  BY SameRemainder DEF Same
<1>2. PICK w \in Int : c = d + w * n
  BY SameRemainder DEF Same
<1>3. a + c = (b + d) + (z + w) * n /\ a - c = (b - d) + (z - w) * n /\ -a = -b + (-z) * n
  BY <1>1, <1>2
<1>4. a * c = b * d + (z * d + b * w + z * w * n) * n
  BY <1>1, <1>2
<1>5. z + w \in Int /\ z - w \in Int /\ -z \in Int /\ z * d + b * w + z * w * n \in Int
  OBVIOUS
<1>6. a + c \in Int /\ b + d \in Int /\ a - c \in Int /\ b - d \in Int /\ -a \in Int /\ -b \in Int
      /\ a * c \in Int /\ b * d \in Int
  OBVIOUS
<1>7. ASSUME NEW x \in Int, NEW y \in Int, NEW k \in Int, x = y + k * n
      PROVE  Same(x, y, n)
  BY <1>7, SameRemainder DEF Same
<1>8. Same(a + c, b + d, n) /\ Same(a - c, b - d, n)
  BY <1>3, <1>5, <1>6, <1>7, Zenon
<1>9. Same(-a, -b, n)
  BY <1>3, <1>5, <1>6, <1>7, Zenon
<1>10. Same(a * c, b * d, n)
  BY <1>4, <1>5, <1>6, <1>7, Zenon
<1> QED BY <1>7, <1>8, <1>9, <1>10

\* One sequence of numbers after another.
LEMMA Concatenation ==
    ASSUME NEW s \in Seq(Nat), NEW t \in Seq(Nat)
    PROVE  /\ s \o t \in Seq(Nat) /\ Len(s \o t) = Len(s) + Len(t)
           /\ \A i \in 1 .. Len(s) : (s \o t)[i] = s[i]
           /\ \A i \in 1 .. Len(t) : (s \o t)[Len(s) + i] = t[i]
  OBVIOUS

\* The places of the elements of a finite set, in the order of a rank that tells
\* them apart: for each i one element, and only one, has i - 1 elements before it.
LEMMA Ranking ==
  ASSUME NEW S, IsFiniteSet(S), NEW rank \in [S -> Int],
         \A x, y \in S : rank[x] = rank[y] => x = y
  PROVE  \A i \in 1 .. Cardinality(S) :
           \E x \in S : Cardinality({y \in S : rank[y] < rank[x]}) = i - 1
<1> DEFINE Before(x) == {y \in S : rank[y] < rank[x]}
           n == Cardinality(S)
           f == [x \in S |-> Cardinality(Before(x)) + 1]
<1>1. n \in Nat
  BY FS_CardinalityType
<1>2. ASSUME NEW x \in S
      PROVE  /\ IsFiniteSet(Before(x))
             /\ Cardinality(Before(x)) \in Nat
             /\ Cardinality(Before(x)) <= n - 1
  <2>1. Before(x) \in SUBSET (S \ {x})
    OBVIOUS
  <2>2. IsFiniteSet(S \ {x}) /\ Cardinality(S \ {x}) = n - 1
    BY FS_RemoveElement
  <2> QED BY <2>1, <2>2, FS_Subset, FS_CardinalityType
<1>3. ASSUME NEW x \in S, NEW y \in S, rank[x] < rank[y]
      PROVE  Cardinality(Before(x)) < Cardinality(Before(y))
  <2>1. Before(x) \in SUBSET (Before(y) \ {x}) /\ x \in Before(y)
    BY <1>3
  <2>2. IsFiniteSet(Before(y) \ {x}) /\ Cardinality(Before(y) \ {x}) = Cardinality(Before(y)) - 1
    BY <1>2, <2>1, FS_RemoveElement
  <2>3. Cardinality(Before(x)) <= Cardinality(Before(y)) - 1
    <3> HIDE DEF Before
    <3> QED BY <2>1, <2>2, FS_Subset
  <2> HIDE DEF Before
  <2> QED BY <1>2, <2>3
<1>4. f \in Injection(S, 1 .. n)
  <2>1. f \in [S -> 1 .. n]
    <3> HIDE DEF Before, n
    <3> QED BY <1>1, <1>2
  <2>2. ASSUME NEW x \in S, NEW y \in S, f[x] = f[y] PROVE x = y
    <3>1. Cardinality(Before(x)) = Cardinality(Before(y))
      <4> HIDE DEF Before
      <4> QED BY <1>2, <2>2
    <3>2. ~(rank[x] < rank[y]) /\ ~(rank[y] < rank[x])
      <4> HIDE DEF Before
      <4> QED BY <1>2, <1>3, <3>1
    <3> QED BY <3>2
  <2> HIDE DEF f
  <2> QED BY <2>1, <2>2 DEF Injection, IsInjective
<1>5. IsFiniteSet(1 .. n) /\ Cardinality(1 .. n) = n
  BY <1>1, FS_Interval
<1>6. f \in Surjection(S, 1 .. n)
  BY <1>4, <1>5, FS_Injection, Zenon
<1>7. ASSUME NEW i \in 1 .. n PROVE \E x \in S : Cardinality(Before(x)) = i - 1
  <2>1. PICK x \in S : f[x] = i
    BY <1>6 DEF Surjection
  <2> HIDE DEF Before
  <2> QED BY <1>2, <2>1
<1> QED BY <1>7
===============================================================================
