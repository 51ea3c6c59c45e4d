-------------------------- MODULE MimblewimbleProofs --------------------------
(***************************************************************************)
(* Proofs about transactions and blocks, for any orders, keys, amounts,    *)
(* heights and any number of exchanges, blocks and merges.                 *)
(***************************************************************************)
EXTENDS Mimblewimble, DataLemmas, SequenceTheorems

------------------------------------------------------------------------------
(* Sums *)

\* P gives the sums of the first numbers of s: P[i] of the first i of them.
Adds(P, s) ==
  /\ P[0] = 0
  /\ \A i \in 1 .. Len(s) : P[i] = P[i - 1] + s[i]
  /\ \A i \in 0 .. Len(s) : P[i] \in Int

\* Such sums are what Sum computes.
LEMMA SumIs ==
  ASSUME NEW s, Len(s) \in Nat, NEW P, Adds(P, s)
  PROVE  Sum(s) = P[Len(s)]
<1> DEFINE n == Len(s)
           F(g) == [i \in 0 .. n |-> IF i = 0 THEN 0 ELSE g[i - 1] + s[i]]
           g == CHOOSE g : g = F(g)
           h == [i \in 0 .. n |-> P[i]]
<1>1. Sum(s) = g[n]
  BY DEF Sum
<1>2. h = F(h)
  <2>1. ASSUME NEW i \in 0 .. n PROVE h[i] = F(h)[i]
    <3>1. CASE i = 0
      BY <3>1 DEF Adds
    <3>2. CASE i # 0
      <4>1. i \in 1 .. n /\ i - 1 \in 0 .. n
        BY <3>2
      <4> QED BY <3>2, <4>1 DEF Adds
    <3> QED BY <3>1, <3>2
  <2> QED BY <2>1
<1>3. g = F(g)
  BY <1>2
<1> HIDE DEF g
<1>4. Lockstep(g, P, n)
  <2>1. g[0] = P[0]
    BY <1>3 DEF Adds
  <2>2. ASSUME NEW i \in 1 .. n PROVE g[i] = g[i - 1] + s[i]
    BY <1>3
  <2> QED BY <2>1, <2>2 DEF Adds, Lockstep
<1>5. n \in Nat
  OBVIOUS
<1> HIDE DEF n, F, h
<1>6. \A i \in 0 .. n : g[i] = P[i]
  BY <1>4, <1>5, SameSteps
<1> QED BY <1>1, <1>5, <1>6 DEF n

\* Any numbers have such sums.
LEMMA SumExists ==
  ASSUME NEW s \in Seq(Int)
  PROVE  \E P : Adds(P, s) /\ Sum(s) = P[Len(s)]
<1> DEFINE n == Len(s)
           step == [x \in (1 .. n) \X Int |-> x[2] + s[x[1]]]
<1>1. step \in [(1 .. n) \X Int -> Int]
  OBVIOUS
<1>2. \A i \in 1 .. n, x \in Int : step[<<i, x>>] = x + s[i]
  OBVIOUS
<1> HIDE DEF step, n
<1>3. n \in Nat /\ 0 \in Int
  BY DEF n
<1>4. PICK f \in [0 .. n -> Int] : f[0] = 0 /\ \A i \in 1 .. n : f[i] = step[<<i, f[i - 1]>>]
  <2> DEFINE V == Int
             c == 0
  <2>1. c \in V /\ step \in [(1 .. n) \X V -> V]
    BY <1>1
  <2> HIDE DEF V, c
  <2>2. \E f : Iterates(f, n, V, c, step)
    BY <1>3, <2>1, Recursion
  <2> QED BY <2>2 DEF V, c, Iterates
<1>5. ASSUME NEW i \in 1 .. n PROVE f[i] = f[i - 1] + s[i]
  <2>1. i - 1 \in 0 .. n
    BY <1>3
  <2>2. f[i - 1] \in Int
    BY <1>4, <2>1
  <2>3. step[<<i, f[i - 1]>>] = f[i - 1] + s[i]
    BY <1>2, <2>2
  <2> QED BY <1>4, <2>3
<1>6. Adds(f, s)
  BY <1>3, <1>4, <1>5 DEF Adds, n
<1> QED BY <1>3, <1>6, SumIs DEF n

\* The sum of integers is one; that of none is 0.
LEMMA SumType == ASSUME NEW s \in Seq(Int) PROVE Sum(s) \in Int
<1>1. PICK P : Adds(P, s) /\ Sum(s) = P[Len(s)]
  BY SumExists
<1>2. Len(s) \in 0 .. Len(s)
  OBVIOUS
<1> QED BY <1>1, <1>2 DEF Adds

\* No numbers add up to zero.
LEMMA SumEmpty == Sum(<<>>) = 0
<1>1. <<>> \in Seq(Int) /\ Len(<<>>) = 0
  OBVIOUS
<1>2. PICK P : Adds(P, <<>>) /\ Sum(<<>>) = P[Len(<<>>)]
  BY <1>1, SumExists
<1> QED BY <1>1, <1>2 DEF Adds

\* One more number.
LEMMA SumAppend ==
  ASSUME NEW s \in Seq(Int), NEW x \in Int
  PROVE  Sum(Append(s, x)) = Sum(s) + x
<1> DEFINE t == Append(s, x)
           n == Len(s)
<1>1. PICK P : Adds(P, s) /\ Sum(s) = P[n]
  BY SumExists
<1>2. n \in Nat /\ Len(t) = n + 1 /\ t[n + 1] = x /\ \A i \in 1 .. n : t[i] = s[i]
  OBVIOUS
<1> DEFINE Q == [i \in 0 .. n + 1 |-> IF i = n + 1 THEN P[n] + x ELSE P[i]]
<1> HIDE DEF t
<1>3. Adds(Q, t)
  <2>1. Q[0] = 0
    BY <1>1, <1>2 DEF Adds
  <2>2. ASSUME NEW i \in 1 .. n + 1 PROVE Q[i] = Q[i - 1] + t[i]
    <3>1. CASE i = n + 1
      BY <1>2, <3>1
    <3>2. CASE i # n + 1
      <4>1. i \in 1 .. n /\ i - 1 # n + 1 /\ i - 1 \in 0 .. n + 1 /\ i \in 0 .. n + 1
        BY <1>2, <3>2
      <4>2. Q[i] = P[i] /\ Q[i - 1] = P[i - 1]
        BY <3>2, <4>1
      <4>3. P[i] = P[i - 1] + s[i]
        BY <1>1, <4>1 DEF Adds
      <4> HIDE DEF Q
      <4> QED BY <1>2, <4>1, <4>2, <4>3
    <3> QED BY <3>1, <3>2
  <2>3. ASSUME NEW i \in 0 .. n + 1 PROVE Q[i] \in Int
    <3>1. P[n] \in Int /\ (i # n + 1 => P[i] \in Int)
      BY <1>1, <1>2 DEF Adds
    <3> QED BY <3>1
  <2> HIDE DEF Q, n
  <2> QED BY <1>2, <2>1, <2>2, <2>3 DEF Adds
<1>4. Sum(t) = Q[n + 1]
  BY <1>2, <1>3, SumIs
<1>5. Q[n + 1] = P[n] + x
  BY <1>2
<1> HIDE DEF Q, n
<1> QED BY <1>1, <1>4, <1>5 DEF t

\* Zeros add up to zero.
LEMMA SumZeros ==
  ASSUME NEW s \in Seq(Int), \A i \in DOMAIN s : s[i] = 0
  PROVE  Sum(s) = 0
<1> DEFINE P == [i \in 0 .. Len(s) |-> 0]
<1>1. Adds(P, s)
  BY DEF Adds
<1>2. P[Len(s)] = 0 /\ Len(s) \in Nat
  OBVIOUS
<1> HIDE DEF P
<1> QED BY <1>1, <1>2, SumIs

\* The sum of numbers between 0 and q.
LEMMA SumBound ==
  ASSUME NEW q \in Nat, NEW s \in Seq(0 .. q)
  PROVE  Sum(s) \in Nat /\ Sum(s) <= Len(s) * q
<1>1. s \in Seq(Int)
  OBVIOUS
<1>2. PICK P : Adds(P, s) /\ Sum(s) = P[Len(s)]
  BY <1>1, SumExists
<1> DEFINE n == Len(s)
           T == {i \in Nat : i <= n /\ ~(0 <= P[i] /\ P[i] <= i * q)}
<1>3. T = {}
  <2> SUFFICES ASSUME T # {} PROVE FALSE
    OBVIOUS
  <2>1. PICK i \in T : \A m \in T : i <= m
    <3> T \in SUBSET Nat
      OBVIOUS
    <3> HIDE DEF T
    <3> QED BY LeastNumber
  <2>2. i # 0
    BY <1>2, <2>1 DEF Adds
  <2>3. i - 1 \notin T /\ i - 1 \in Nat /\ i \in 1 .. n /\ i - 1 \in 0 .. n /\ i \in 0 .. n
    BY <2>1, <2>2
  <2>4. 0 <= P[i - 1] /\ P[i - 1] <= (i - 1) * q
    BY <2>3
  <2>5. P[i] = P[i - 1] + s[i] /\ P[i] \in Int /\ P[i - 1] \in Int /\ s[i] \in 0 .. q
    BY <1>2, <2>3 DEF Adds
  <2>6. (i - 1) * q + q = i * q
    BY <2>3
  <2>7. (i - 1) * q \in Int /\ i * q \in Int
    BY <2>3
  <2>8. 0 <= P[i] /\ P[i] <= i * q
    BY <2>4, <2>5, <2>6, <2>7
  <2> QED BY <2>1, <2>8
<1>4. n \in Nat /\ n \notin T
  BY <1>3
<1>5. P[n] \in Int
  BY <1>2, <1>4 DEF Adds
<1> QED BY <1>2, <1>4, <1>5

------------------------------------------------------------------------------
(* Sequences *)

\* The elements of a sequence with one more.
LEMMA ToSetAppend ==
  ASSUME NEW X, NEW s \in Seq(X), NEW x
  PROVE  ToSet(Append(s, x)) = ToSet(s) \cup {x}
<1>1. /\ DOMAIN Append(s, x) = 1 .. Len(s) + 1 /\ DOMAIN s = 1 .. Len(s) /\ Len(s) \in Nat
      /\ Append(s, x)[Len(s) + 1] = x /\ \A i \in 1 .. Len(s) : Append(s, x)[i] = s[i]
  OBVIOUS
<1>2. 1 .. Len(s) + 1 = (1 .. Len(s)) \cup {Len(s) + 1}
  BY <1>1
<1> DEFINE t == Append(s, x)
<1> HIDE DEF t
<1>3. DOMAIN t = DOMAIN s \cup {Len(s) + 1} /\ t[Len(s) + 1] = x /\ \A i \in DOMAIN s : t[i] = s[i]
  BY <1>1, <1>2 DEF t
<1>4. ToSet(t) = ToSet(s) \cup {x}
  BY <1>3, Zenon DEF ToSet
<1> QED BY <1>4 DEF t

\* The elements of two sequences.
LEMMA ToSetConcat ==
  ASSUME NEW X, NEW s \in Seq(X), NEW t \in Seq(X)
  PROVE  s \o t \in Seq(X) /\ ToSet(s \o t) = ToSet(s) \cup ToSet(t)
<1> DEFINE u == s \o t
           m == Len(s)
           n == Len(t)
<1>1. /\ u \in Seq(X) /\ DOMAIN u = 1 .. m + n /\ DOMAIN s = 1 .. m /\ DOMAIN t = 1 .. n
      /\ m \in Nat /\ n \in Nat
      /\ \A i \in 1 .. m + n : u[i] = IF i <= m THEN s[i] ELSE t[i - m]
  OBVIOUS
<1> HIDE DEF u, m, n
<1>2. ASSUME NEW i \in 1 .. m + n PROVE u[i] \in ToSet(s) \cup ToSet(t)
  <2>1. CASE i <= m
    <3>1. i \in 1 .. m
      BY <1>1, <2>1
    <3> QED BY <1>1, <2>1, <3>1 DEF ToSet
  <2>2. CASE ~(i <= m)
    <3>1. i - m \in 1 .. n
      BY <1>1, <2>2
    <3> QED BY <1>1, <2>2, <3>1 DEF ToSet
  <2> QED BY <2>1, <2>2
<1>3. ASSUME NEW i \in 1 .. m PROVE s[i] \in ToSet(u)
  <2>1. i \in 1 .. m + n /\ i <= m
    BY <1>1
  <2> QED BY <1>1, <2>1 DEF ToSet
<1>4. ASSUME NEW i \in 1 .. n PROVE t[i] \in ToSet(u)
  <2>1. i + m \in 1 .. m + n /\ ~(i + m <= m) /\ (i + m) - m = i
    BY <1>1
  <2>2. u[i + m] = t[i]
    BY <1>1, <2>1
  <2> QED BY <1>1, <2>1, <2>2 DEF ToSet
<1>5. ToSet(u) = {u[i] : i \in 1 .. m + n} /\ ToSet(s) = {s[i] : i \in 1 .. m}
      /\ ToSet(t) = {t[i] : i \in 1 .. n}
  BY <1>1 DEF ToSet
<1>6. ToSet(u) = ToSet(s) \cup ToSet(t)
  BY <1>2, <1>3, <1>4, <1>5, Zenon
<1> QED BY <1>1, <1>6 DEF u

\* Keep returns the elements that are in S.
LEMMA KeepIs ==
  ASSUME NEW X, NEW s \in Seq(X), NEW S
  PROVE  Keep(s, S) \in Seq(X) /\ ToSet(Keep(s, S)) = ToSet(s) \cap S
<1> DEFINE n == Len(s)
           V == Seq(X)
           c == <<>>
           step == [x \in (1 .. n) \X V |-> IF s[x[1]] \in S THEN Append(x[2], s[x[1]]) ELSE x[2]]
           F(g) == [i \in 0 .. n |->
                      IF i = 0 THEN <<>>
                      ELSE IF s[i] \in S THEN Append(g[i - 1], s[i]) ELSE g[i - 1]]
           g == CHOOSE g : g = F(g)
<1>1. Keep(s, S) = g[n]
  BY DEF Keep
<1>2. n \in Nat /\ c \in V /\ (\A i \in 1 .. n : s[i] \in X) /\ DOMAIN s = 1 .. n
  OBVIOUS
<1>3. \A x \in (1 .. n) \X V : Append(x[2], s[x[1]]) \in V
  BY <1>2
<1>4. step \in [(1 .. n) \X V -> V]
  <2> HIDE DEF V
  <2> QED BY <1>3
<1>5. \A i \in 1 .. n, t \in V : step[<<i, t>>] = IF s[i] \in S THEN Append(t, s[i]) ELSE t
  <2> HIDE DEF V
  <2> QED OBVIOUS
<1> HIDE DEF step, V, n, c
<1>6. PICK f \in [0 .. n -> V] : f[0] = c /\ \A i \in 1 .. n : f[i] = step[<<i, f[i - 1]>>]
  <2>1. \E f : Iterates(f, n, V, c, step)
    BY <1>2, <1>4, Recursion
  <2> QED BY <2>1 DEF Iterates
<1>7. ASSUME NEW i \in 1 .. n
      PROVE  f[i] = (IF s[i] \in S THEN Append(f[i - 1], s[i]) ELSE f[i - 1]) /\ f[i - 1] \in V
  <2>1. i - 1 \in 0 .. n
    BY <1>2
  <2> QED BY <1>5, <1>6, <2>1
<1>8. f = F(f)
  <2>1. ASSUME NEW i \in 0 .. n PROVE f[i] = F(f)[i]
    <3>1. CASE i = 0
      BY <1>6, <3>1 DEF c
    <3>2. CASE i # 0
      <4>1. i \in 1 .. n
        BY <1>2, <3>2
      <4> QED BY <1>7, <3>2, <4>1
    <3> QED BY <3>1, <3>2
  <2>2. DOMAIN f = 0 .. n /\ DOMAIN F(f) = 0 .. n
    OBVIOUS
  <2>3. f = [i \in 0 .. n |-> f[i]]
    BY <1>6
  <2>4. F(f) = [i \in 0 .. n |-> F(f)[i]]
    OBVIOUS
  <2> HIDE DEF F
  <2> QED BY <2>1, <2>3, <2>4
<1>9. g = F(g)
  BY <1>8
<1> HIDE DEF g
<1>10. Lockstep(g, f, n)
  <2>1. g[0] = f[0]
    BY <1>2, <1>6, <1>9 DEF c
  <2>2. ASSUME NEW i \in 1 .. n
        PROVE  g[i] = IF s[i] \in S THEN Append(g[i - 1], s[i]) ELSE g[i - 1]
    <3>1. i \in 0 .. n /\ i # 0
      BY <1>2
    <3>2. g[i] = F(g)[i]
      BY <1>9
    <3> QED BY <3>1, <3>2
  <2> QED BY <1>7, <2>1, <2>2 DEF Lockstep
<1> HIDE DEF F
<1>11. \A i \in 0 .. n : g[i] = f[i]
  BY <1>2, <1>10, SameSteps
<1>12. Keep(s, S) = f[n] /\ f[n] \in V
  BY <1>1, <1>2, <1>6, <1>11
<1> DEFINE First(i) == {s[j] : j \in 1 .. i} \cap S
           T == {i \in Nat : i <= n /\ ToSet(f[i]) # First(i)}
<1>13. T = {}
  <2> SUFFICES ASSUME T # {} PROVE FALSE
    OBVIOUS
  <2>1. PICK i \in T : \A m \in T : i <= m
    <3> T \in SUBSET Nat
      OBVIOUS
    <3> HIDE DEF T
    <3> QED BY LeastNumber
  <2>2. i # 0
    <3>1. ToSet(<<>>) = {} /\ First(0) = {}
      BY DEF ToSet
    <3> QED BY <1>6, <2>1, <3>1 DEF c
  <2>3. i - 1 \notin T /\ i - 1 \in Nat /\ i \in 1 .. n
    BY <2>1, <2>2
  <2>4. ToSet(f[i - 1]) = First(i - 1)
    BY <2>3, <1>2
  <2>5. 1 .. i = (1 .. i - 1) \cup {i}
    BY <2>3
  <2>6. First(i) = IF s[i] \in S THEN First(i - 1) \cup {s[i]} ELSE First(i - 1)
    BY <2>5, Zenon
  <2>7. ToSet(f[i]) = IF s[i] \in S THEN ToSet(f[i - 1]) \cup {s[i]} ELSE ToSet(f[i - 1])
    BY <1>7, <2>3, ToSetAppend DEF V
  <2> QED BY <2>1, <2>4, <2>6, <2>7
<1>14. First(n) = ToSet(s) \cap S
  BY <1>2 DEF ToSet
<1> HIDE DEF First
<1>15. ToSet(f[n]) = First(n)
  BY <1>2, <1>13
<1> QED BY <1>12, <1>14, <1>15 DEF V

\* FlattenSeq returns the elements of all of the sequences.
LEMMA FlattenIs ==
  ASSUME NEW X, NEW q \in Seq(Seq(X))
  PROVE  /\ FlattenSeq(q) \in Seq(X)
         /\ ToSet(FlattenSeq(q)) = UNION {ToSet(q[i]) : i \in DOMAIN q}
<1> DEFINE n == Len(q)
           V == Seq(X)
           c == <<>>
           step == [x \in (1 .. n) \X V |-> x[2] \o q[x[1]]]
           F(g) == [i \in 1 .. n |-> IF i = 1 THEN q[i] ELSE g[i - 1] \o q[i]]
           g == CHOOSE g : g = F(g)
<1>1. CASE n = 0
  <2>1. q = <<>> /\ FlattenSeq(q) = q
    BY <1>1 DEF FlattenSeq
  <2>2. DOMAIN q = {} /\ q \in Seq(X)
    BY <2>1
  <2>3. ToSet(q) = {} /\ UNION {ToSet(q[i]) : i \in DOMAIN q} = {}
    BY <2>2, Zenon DEF ToSet
  <2> QED BY <2>1, <2>2, <2>3
<1>2. CASE n # 0
  <2>1. FlattenSeq(q) = g[n]
    BY <1>2 DEF FlattenSeq
  <2>2. n \in Nat /\ c \in V /\ (\A i \in 1 .. n : q[i] \in V) /\ DOMAIN q = 1 .. n
    OBVIOUS
  <2>3. \A x \in (1 .. n) \X V : x[2] \o q[x[1]] \in V
    BY <2>2
  <2>4. step \in [(1 .. n) \X V -> V]
    <3> HIDE DEF V
    <3> QED BY <2>3
  <2>5. \A i \in 1 .. n, t \in V : step[<<i, t>>] = t \o q[i]
    <3> HIDE DEF V
    <3> QED OBVIOUS
  <2>6. \A t \in V : c \o t = t
    OBVIOUS
  <2> HIDE DEF step, V, n, c
  <2>7. PICK f \in [0 .. n -> V] : f[0] = c /\ \A i \in 1 .. n : f[i] = step[<<i, f[i - 1]>>]
    <3>1. \E f : Iterates(f, n, V, c, step)
      BY <2>2, <2>4, Recursion
    <3> QED BY <3>1 DEF Iterates
  <2>8. ASSUME NEW i \in 1 .. n PROVE f[i] = f[i - 1] \o q[i] /\ f[i - 1] \in V /\ f[i] \in V
    <3>1. i - 1 \in 0 .. n /\ i \in 0 .. n
      BY <2>2
    <3> QED BY <2>5, <2>7, <3>1
  <2> DEFINE h == [i \in 1 .. n |-> f[i]]
  <2>9. h = F(h)
    <3>1. ASSUME NEW i \in 1 .. n PROVE f[i] = IF i = 1 THEN q[i] ELSE h[i - 1] \o q[i]
      <4>1. CASE i = 1
        <5>1. i - 1 = 0 /\ q[i] \in V
          BY <2>2, <4>1
        <5>2. f[i] = f[0] \o q[i]
          BY <2>8, <5>1
        <5> QED BY <2>6, <2>7, <4>1, <5>1, <5>2
      <4>2. CASE i # 1
        <5>1. i - 1 \in 1 .. n
          BY <2>2, <4>2
        <5> QED BY <2>8, <4>2, <5>1
      <4> QED BY <4>1, <4>2
    <3> QED BY <3>1
  <2>10. g = F(g)
    BY <2>9
  <2> HIDE DEF g, h
  <2>11. ASSUME NEW i \in 1 .. n PROVE g[i] = IF i = 1 THEN q[i] ELSE g[i - 1] \o q[i]
    BY <2>10
  <2> HIDE DEF F
  <2> DEFINE First(i) == UNION {ToSet(q[j]) : j \in 1 .. i}
             T == {i \in Nat : 1 <= i /\ i <= n /\ ~(g[i] \in V /\ ToSet(g[i]) = First(i))}
  <2>12. T = {}
    <3> SUFFICES ASSUME T # {} PROVE FALSE
      OBVIOUS
    <3>1. PICK i \in T : \A m \in T : i <= m
      <4> T \in SUBSET Nat
        OBVIOUS
      <4> HIDE DEF T
      <4> QED BY LeastNumber
    <3>2. i \in 1 .. n /\ i \in Nat
      BY <2>2, <3>1
    <3>3. CASE i = 1
      <4>1. First(1) = ToSet(q[1])
        <5>1. 1 .. 1 = {1}
          OBVIOUS
        <5> QED BY <5>1, Zenon
      <4>2. g[1] = q[1] /\ q[1] \in V
        BY <2>2, <2>11, <3>2, <3>3
      <4> QED BY <3>1, <3>3, <4>1, <4>2
    <3>4. CASE i # 1
      <4> HIDE DEF First
      <4>1. i - 1 \in Nat /\ 1 <= i - 1 /\ i - 1 <= n /\ ~(i <= i - 1)
        BY <2>2, <3>2, <3>4
      <4>0. i - 1 \notin T
        <5> HIDE DEF T
        <5> QED BY <3>1, <4>1
      <4>2. g[i - 1] \in V /\ ToSet(g[i - 1]) = First(i - 1)
        BY <4>0, <4>1
      <4>3. g[i] = g[i - 1] \o q[i] /\ q[i] \in V
        BY <2>2, <2>11, <3>2, <3>4
      <4>4. g[i] \in V /\ ToSet(g[i]) = ToSet(g[i - 1]) \cup ToSet(q[i])
        BY <4>2, <4>3, ToSetConcat DEF V
      <4>5. 1 .. i = (1 .. i - 1) \cup {i}
        BY <3>2
      <4>6. First(i) = First(i - 1) \cup ToSet(q[i])
        BY <4>5, Zenon DEF First
      <4> QED BY <3>1, <4>2, <4>4, <4>6
    <3> QED BY <3>3, <3>4
  <2>13. g[n] \in V /\ ToSet(g[n]) = First(n)
    <3> HIDE DEF First
    <3>1. n \in Nat /\ 1 <= n /\ n <= n /\ n \notin T
      BY <1>2, <2>2, <2>12 DEF n
    <3> QED BY <3>1
  <2> QED BY <2>1, <2>2, <2>13 DEF V
<1> QED BY <1>1, <1>2

------------------------------------------------------------------------------
(* Commitments *)

\* Blinding factors: sums of derived keys.
Factors == [Keys -> Int]

\* What Commit, commit_value and commit_sum return.
Commitments == [value : Int, blind : Factors]

\* The outputs of transactions, whose keys are not the miners'.
PlainOutputs ==
  [features : {"DefaultOutput"},
   commit : [value : 0 .. MaxUlong, blind : {Derived_key(k) : k \in Keys \ MinerKeys}]]

\* The outputs of rewards.
RewardOutputs ==
  [features : {"CoinbaseOutput"},
   commit : [value : 0 .. MaxUlong, blind : {Derived_key(k) : k \in MinerKeys}]]

\* A derived key is a blinding factor, not zero, and tells its key.
LEMMA DerivedKey ==
  ASSUME NEW k \in Keys
  PROVE  /\ Derived_key(k) \in Factors
         /\ Derived_key(k)[k] = 1
         /\ \A j \in Keys : j # k => Derived_key(k)[j] = 0
         /\ Derived_key(k) # NoBlind
         /\ \A j \in Keys : Derived_key(j) = Derived_key(k) => j = k
  BY DEF Derived_key, NoBlind, Factors

\* Both kinds of outputs commit to something.
LEMMA OutputsCommit ==
  ASSUME NEW o \in PlainOutputs \cup RewardOutputs
  PROVE  o.commit \in Commitments
<1>1. PICK k \in Keys : o.commit.blind = Derived_key(k)
  BY OrdersAssumption DEF PlainOutputs, RewardOutputs
<1>2. o.commit.value \in Int /\ o.commit = [value |-> o.commit.value, blind |-> o.commit.blind]
  BY TransactionAssumption DEF PlainOutputs, RewardOutputs
<1> QED BY <1>1, <1>2, DerivedKey DEF Commitments

\* A reward's commitment is none of a transaction's outputs.
LEMMA RewardsDiffer ==
  ASSUME NEW o \in PlainOutputs, NEW r \in RewardOutputs
  PROVE  o.commit # r.commit
<1>1. PICK j \in Keys \ MinerKeys : o.commit.blind = Derived_key(j)
  BY DEF PlainOutputs
<1>2. PICK k \in MinerKeys : r.commit.blind = Derived_key(k)
  BY DEF RewardOutputs
<1> QED BY <1>1, <1>2, OrdersAssumption, DerivedKey

\* The commitments of outputs, with one more.
LEMMA CommitsAre ==
  ASSUME NEW s \in Seq(PlainOutputs \cup RewardOutputs)
  PROVE  /\ Commits(s) \in Seq(Commitments)
         /\ Len(Commits(s)) = Len(s)
         /\ ToSet(Commits(s)) = {o.commit : o \in ToSet(s)}
         /\ \A o \in PlainOutputs \cup RewardOutputs :
              Commits(Append(s, o)) = Append(Commits(s), o.commit)
<1> DEFINE X == PlainOutputs \cup RewardOutputs
<1>1. DOMAIN s = 1 .. Len(s) /\ Len(s) \in Nat /\ \A i \in 1 .. Len(s) : s[i] \in X
  OBVIOUS
<1>2. \A i \in 1 .. Len(s) : s[i].commit \in Commitments
  BY <1>1, OutputsCommit
<1>3. Commits(s) = [i \in 1 .. Len(s) |-> s[i].commit]
  BY <1>1 DEF Commits
<1>4. Commits(s) \in Seq(Commitments) /\ Len(Commits(s)) = Len(s)
  BY <1>1, <1>2, <1>3
<1>5. ToSet(Commits(s)) = {o.commit : o \in ToSet(s)}
  BY <1>1, <1>3, Zenon DEF ToSet
<1>6. ASSUME NEW o \in X PROVE Commits(Append(s, o)) = Append(Commits(s), o.commit)
  <2> DEFINE t == Append(s, o)
             n == Len(s)
  <2>1. DOMAIN t = 1 .. n + 1 /\ n \in Nat /\ t[n + 1] = o /\ \A i \in 1 .. n : t[i] = s[i]
    OBVIOUS
  <2>2. /\ DOMAIN Append(Commits(s), o.commit) = 1 .. n + 1
        /\ Append(Commits(s), o.commit)[n + 1] = o.commit
        /\ \A i \in 1 .. n : Append(Commits(s), o.commit)[i] = Commits(s)[i]
    BY <1>4
  <2>3. Append(Commits(s), o.commit)
          = [i \in 1 .. n + 1 |-> Append(Commits(s), o.commit)[i]]
    BY <1>4
  <2> HIDE DEF t, n
  <2>4. ASSUME NEW i \in 1 .. n + 1 PROVE t[i].commit = Append(Commits(s), o.commit)[i]
    <3>1. CASE i = n + 1
      BY <2>1, <2>2, <3>1
    <3>2. CASE i # n + 1
      <4>1. i \in 1 .. n
        BY <2>1, <3>2
      <4>2. t[i] = s[i] /\ Commits(s)[i] = s[i].commit
        BY <1>3, <2>1, <4>1 DEF n
      <4> QED BY <2>2, <4>1, <4>2
    <3> QED BY <3>1, <3>2
  <2>5. Commits(t) = [i \in 1 .. n + 1 |-> t[i].commit]
    BY <2>1 DEF Commits
  <2> QED BY <2>3, <2>4, <2>5 DEF t
<1> QED BY <1>4, <1>5, <1>6

\* The sums of commitments, with one more.
LEMMA SumsAre ==
  ASSUME NEW s \in Seq(Commitments)
  PROVE  /\ Values(s) \in Int /\ Blinds(s) \in Factors
         /\ \A c \in Commitments : /\ Values(Append(s, c)) = Values(s) + c.value
                                   /\ Blinds(Append(s, c)) = Plus(Blinds(s), c.blind)
<1> DEFINE Vs(t) == [i \in DOMAIN t |-> t[i].value]
           Bs(t, k) == [i \in DOMAIN t |-> t[i].blind[k]]
<1>1. DOMAIN s = 1 .. Len(s) /\ Len(s) \in Nat /\ \A i \in 1 .. Len(s) : s[i] \in Commitments
  OBVIOUS
<1>2. Vs(s) \in Seq(Int) /\ \A k \in Keys : Bs(s, k) \in Seq(Int)
  <2>1. \A i \in 1 .. Len(s) : s[i].value \in Int /\ \A k \in Keys : s[i].blind[k] \in Int
    BY <1>1 DEF Commitments, Factors
  <2>2. Vs(s) = [i \in 1 .. Len(s) |-> s[i].value]
    BY <1>1
  <2>3. \A k \in Keys : Bs(s, k) = [i \in 1 .. Len(s) |-> s[i].blind[k]]
    BY <1>1
  <2>4. \A k \in Keys : Bs(s, k) \in [1 .. Len(s) -> Int]
    BY <2>1, <2>3
  <2>5. Vs(s) \in [1 .. Len(s) -> Int]
    BY <2>1, <2>2
  <2> HIDE DEF Vs, Bs
  <2> QED BY <1>1, <2>4, <2>5
<1>3. ASSUME NEW c \in Commitments
      PROVE  /\ Vs(Append(s, c)) = Append(Vs(s), c.value)
             /\ \A k \in Keys : Bs(Append(s, c), k) = Append(Bs(s, k), c.blind[k])
  <2> DEFINE t == Append(s, c)
             n == Len(s)
  <2>1. DOMAIN t = 1 .. n + 1 /\ n \in Nat /\ t[n + 1] = c /\ \A i \in 1 .. n : t[i] = s[i]
    OBVIOUS
  <2>2. /\ Len(Vs(s)) = n /\ \A k \in Keys : Len(Bs(s, k)) = n
    BY <1>1, <1>2
  <2>3. ASSUME NEW i \in 1 .. n + 1, i # n + 1 PROVE i \in 1 .. n
    BY <2>1, <2>3
  <2>4. Vs(t) = Append(Vs(s), c.value)
    <3> DEFINE u == Append(Vs(s), c.value)
    <3>1. u = [i \in 1 .. n + 1 |-> IF i = n + 1 THEN c.value ELSE Vs(s)[i]]
      BY <1>2, <2>2
    <3>2. \A i \in 1 .. n : Vs(s)[i] = s[i].value
      BY <1>1
    <3> HIDE DEF t, n, u
    <3>3. Vs(t) = [i \in 1 .. n + 1 |-> t[i].value]
      BY <2>1
    <3> HIDE DEF Vs
    <3>4. \A i \in 1 .. n + 1 : t[i].value = IF i = n + 1 THEN c.value ELSE Vs(s)[i]
      BY <2>1, <2>3, <3>2
    <3> QED BY <3>1, <3>3, <3>4 DEF u
  <2>5. ASSUME NEW k \in Keys PROVE Bs(t, k) = Append(Bs(s, k), c.blind[k])
    <3> DEFINE u == Append(Bs(s, k), c.blind[k])
    <3>1. u = [i \in 1 .. n + 1 |-> IF i = n + 1 THEN c.blind[k] ELSE Bs(s, k)[i]]
      BY <1>2, <2>2
    <3>2. \A i \in 1 .. n : Bs(s, k)[i] = s[i].blind[k]
      BY <1>1
    <3> HIDE DEF t, n, u
    <3>3. Bs(t, k) = [i \in 1 .. n + 1 |-> t[i].blind[k]]
      BY <2>1
    <3> HIDE DEF Bs
    <3>4. \A i \in 1 .. n + 1 : t[i].blind[k] = IF i = n + 1 THEN c.blind[k] ELSE Bs(s, k)[i]
      BY <2>1, <2>3, <3>2
    <3> QED BY <3>1, <3>3, <3>4 DEF u
  <2> QED BY <2>4, <2>5
<1>4. \A t : Values(t) = Sum(Vs(t)) /\ Blinds(t) = [k \in Keys |-> Sum(Bs(t, k))]
  BY DEF Values, Blinds
<1> HIDE DEF Vs, Bs
<1>5. Values(s) \in Int /\ Blinds(s) \in Factors
  BY <1>2, <1>4, SumType DEF Factors
<1>6. ASSUME NEW c \in Commitments
      PROVE  Values(Append(s, c)) = Values(s) + c.value /\ Blinds(Append(s, c)) = Plus(Blinds(s), c.blind)
  <2>1. c.value \in Int /\ \A k \in Keys : c.blind[k] \in Int
    BY DEF Commitments, Factors
  <2>2. Values(Append(s, c)) = Values(s) + c.value
    BY <1>2, <1>3, <1>4, <2>1, SumAppend
  <2>3. \A k \in Keys : Sum(Bs(Append(s, c), k)) = Sum(Bs(s, k)) + c.blind[k]
    BY <1>2, <1>3, <2>1, SumAppend
  <2>4. \A k \in Keys : Blinds(s)[k] = Sum(Bs(s, k))
    BY <1>4
  <2>5. Blinds(Append(s, c)) = [k \in Keys |-> Sum(Bs(Append(s, c), k))]
    BY <1>4
  <2> QED BY <2>2, <2>3, <2>4, <2>5 DEF Plus
<1> QED BY <1>5, <1>6

\* The sums of no commitments.
LEMMA NoSums == Values(<<>>) = 0 /\ Blinds(<<>>) = NoBlind
<1>1. [i \in DOMAIN <<>> |-> <<>>[i].value] = <<>>
  OBVIOUS
<1>2. \A k : [i \in DOMAIN <<>> |-> <<>>[i].blind[k]] = <<>>
  OBVIOUS
<1>3. Values(<<>>) = 0
  BY <1>1, SumEmpty DEF Values
<1>4. Blinds(<<>>) = [k \in Keys |-> 0]
  BY <1>2, SumEmpty DEF Blinds
<1> QED BY <1>3, <1>4 DEF NoBlind

------------------------------------------------------------------------------
(* The builder *)

\* Transactions with that lock height and signature.
Txs(lockHeight, sig) ==
  [inputs : Seq(Commitments), outputs : Seq(PlainOutputs),
   fee : {f \in 0 .. MaxUlong \div 2 : f <= MaxUlong \div MaxBlockWeight},
   lock_height : {lockHeight}, excess_sig : {sig}]

\* Contexts whose sum is the blinding factor of what was put into the transaction.
Builds(lockHeight, sig) ==
  {b \in [tx : Txs(lockHeight, sig), sum : Factors] :
     b.sum = Minus(Blinds(Commits(b.tx.outputs)), Blinds(b.tx.inputs))}

\* An input keeps the sum right.
LEMMA InputBuilds ==
  ASSUME NEW l, NEW sig, NEW b \in Builds(l, sig), NEW v \in 0 .. MaxUlong, NEW k \in Keys
  PROVE  Input(b, v, k) \in Builds(l, sig)
<1> DEFINE c == Commit(v, k)
           B == Input(b, v, k)
<1>1. c \in Commitments /\ c.blind = Derived_key(k)
  BY TransactionAssumption, DerivedKey DEF Commit, Commitments
<1>2. /\ b.tx \in Txs(l, sig) /\ b.sum \in Factors
      /\ b.sum = Minus(Blinds(Commits(b.tx.outputs)), Blinds(b.tx.inputs))
  BY DEF Builds
<1>3. B = [tx |-> [b.tx EXCEPT !.inputs = Append(b.tx.inputs, c)], sum |-> Minus(b.sum, Derived_key(k))]
  BY DEF Input, with_input
<1>4. b.tx.inputs \in Seq(Commitments) /\ b.tx.outputs \in Seq(PlainOutputs)
  BY <1>2 DEF Txs
<1> HIDE DEF c, B
<1>5. Append(b.tx.inputs, c) \in Seq(Commitments)
  BY <1>1, <1>4
<1>6. /\ B.tx \in Txs(l, sig) /\ B.tx.inputs = Append(b.tx.inputs, c) /\ B.tx.outputs = b.tx.outputs
      /\ B.sum = Minus(b.sum, Derived_key(k))
      /\ B = [tx |-> B.tx, sum |-> B.sum]
  BY <1>2, <1>3, <1>5 DEF Txs
<1>7. b.tx.outputs \in Seq(PlainOutputs \cup RewardOutputs)
  BY <1>4
<1>8. Commits(b.tx.outputs) \in Seq(Commitments)
  BY <1>7, CommitsAre
<1> DEFINE O == Blinds(Commits(b.tx.outputs))
           I == Blinds(b.tx.inputs)
           D == Derived_key(k)
<1>9. O \in Factors /\ I \in Factors /\ D \in Factors /\ Blinds(Append(b.tx.inputs, c)) = Plus(I, D)
  BY <1>1, <1>4, <1>8, SumsAre, DerivedKey
<1> HIDE DEF O, I, D
<1>10. b.sum = Minus(O, I) /\ B.sum = Minus(b.sum, D)
  BY <1>2, <1>6 DEF O, I, D
<1>11. B.sum = Minus(O, Plus(I, D)) /\ B.sum \in Factors
  BY <1>9, <1>10 DEF Minus, Plus, Factors
<1> QED BY <1>6, <1>9, <1>11 DEF Builds, O, B

\* So does an output.
LEMMA OutputBuilds ==
  ASSUME NEW l, NEW sig, NEW b \in Builds(l, sig), NEW v \in 0 .. MaxUlong,
         NEW k \in Keys \ MinerKeys
  PROVE  Output(b, v, k) \in Builds(l, sig)
<1> DEFINE c == Commit(v, k)
           o == [features |-> "DefaultOutput", commit |-> c]
           B == Output(b, v, k)
<1>1. o \in PlainOutputs /\ o.commit = c /\ c.blind = Derived_key(k) /\ c \in Commitments
  BY TransactionAssumption, DerivedKey DEF Commit, PlainOutputs, Commitments
<1>2. /\ b.tx \in Txs(l, sig) /\ b.sum \in Factors
      /\ b.sum = Minus(Blinds(Commits(b.tx.outputs)), Blinds(b.tx.inputs))
  BY DEF Builds
<1>3. B = [tx |-> [b.tx EXCEPT !.outputs = Append(b.tx.outputs, o)], sum |-> Plus(b.sum, Derived_key(k))]
  BY DEF Output, with_output
<1>4. b.tx.inputs \in Seq(Commitments) /\ b.tx.outputs \in Seq(PlainOutputs)
  BY <1>2 DEF Txs
<1> HIDE DEF c, B, o
<1>5. Append(b.tx.outputs, o) \in Seq(PlainOutputs)
  BY <1>1, <1>4
<1>6. /\ B.tx \in Txs(l, sig) /\ B.tx.inputs = b.tx.inputs /\ B.tx.outputs = Append(b.tx.outputs, o)
      /\ B.sum = Plus(b.sum, Derived_key(k))
      /\ B = [tx |-> B.tx, sum |-> B.sum]
  BY <1>2, <1>3, <1>5 DEF Txs
<1>7. b.tx.outputs \in Seq(PlainOutputs \cup RewardOutputs)
  BY <1>4
<1>8. /\ Commits(b.tx.outputs) \in Seq(Commitments)
      /\ Commits(Append(b.tx.outputs, o)) = Append(Commits(b.tx.outputs), c)
  BY <1>1, <1>7, CommitsAre
<1> DEFINE O == Blinds(Commits(b.tx.outputs))
           I == Blinds(b.tx.inputs)
           D == Derived_key(k)
<1>9. /\ O \in Factors /\ I \in Factors /\ D \in Factors
      /\ Blinds(Append(Commits(b.tx.outputs), c)) = Plus(O, D)
  BY <1>1, <1>4, <1>8, SumsAre, DerivedKey
<1> HIDE DEF O, I, D
<1>10. b.sum = Minus(O, I) /\ B.sum = Plus(b.sum, D)
  BY <1>2, <1>6 DEF O, I, D
<1>11. B.sum = Minus(Plus(O, D), I) /\ B.sum \in Factors
  BY <1>9, <1>10 DEF Minus, Plus, Factors
<1> QED BY <1>6, <1>8, <1>9, <1>11 DEF Builds, I, B

\* An input for each coin.
LEMMA InputAllBuilds ==
  ASSUME NEW l, NEW sig, NEW b \in Builds(l, sig),
         NEW coins \in Seq([value : 0 .. MaxUlong, key : Keys])
  PROVE  InputAll(b, coins) \in Builds(l, sig)
<1> DEFINE n == Len(coins)
           V == Builds(l, sig)
           step == [x \in (1 .. n) \X V |-> Input(x[2], coins[x[1]].value, coins[x[1]].key)]
           F(g) == [i \in 0 .. n |->
                      IF i = 0 THEN b ELSE Input(g[i - 1], coins[i].value, coins[i].key)]
           g == CHOOSE g : g = F(g)
<1>1. InputAll(b, coins) = g[n]
  BY DEF InputAll
<1>2. n \in Nat /\ b \in V
      /\ \A i \in 1 .. n : coins[i].value \in 0 .. MaxUlong /\ coins[i].key \in Keys
  <2>1. \A i \in 1 .. n : coins[i] \in [value : 0 .. MaxUlong, key : Keys]
    BY ElementOfSeq
  <2> QED BY <2>1
<1>3. \A i \in 1 .. n, t \in V : Input(t, coins[i].value, coins[i].key) \in V
  BY <1>2, InputBuilds
<1> HIDE DEF V, n
<1>4. step \in [(1 .. n) \X V -> V]
  BY <1>3
<1>5. \A i \in 1 .. n, t \in V : step[<<i, t>>] = Input(t, coins[i].value, coins[i].key)
  OBVIOUS
<1> HIDE DEF step
<1>6. PICK f \in [0 .. n -> V] : f[0] = b /\ \A i \in 1 .. n : f[i] = step[<<i, f[i - 1]>>]
  <2>1. \E f : Iterates(f, n, V, b, step)
    BY <1>2, <1>4, Recursion
  <2> QED BY <2>1 DEF Iterates
<1>7. ASSUME NEW i \in 1 .. n PROVE f[i] = Input(f[i - 1], coins[i].value, coins[i].key)
  <2>1. i - 1 \in 0 .. n
    BY <1>2
  <2> QED BY <1>5, <1>6, <2>1
<1>8. f = F(f)
  <2>1. ASSUME NEW i \in 0 .. n PROVE f[i] = F(f)[i]
    <3>1. CASE i = 0
      BY <1>6, <3>1
    <3>2. CASE i # 0
      <4>1. i \in 1 .. n
        BY <1>2, <3>2
      <4> QED BY <1>7, <3>2, <4>1
    <3> QED BY <3>1, <3>2
  <2>2. f = [i \in 0 .. n |-> f[i]] /\ F(f) = [i \in 0 .. n |-> F(f)[i]]
    OBVIOUS
  <2> HIDE DEF F
  <2> QED BY <2>1, <2>2
<1>9. g = F(g)
  BY <1>8
<1> HIDE DEF g
<1>10. Lockstep(g, f, n)
  <2>1. g[0] = f[0]
    BY <1>2, <1>6, <1>9
  <2>2. ASSUME NEW i \in 1 .. n PROVE g[i] = Input(g[i - 1], coins[i].value, coins[i].key)
    <3>1. i \in 0 .. n /\ i # 0
      BY <1>2
    <3>2. g[i] = F(g)[i]
      BY <1>9
    <3> QED BY <3>1, <3>2
  <2> QED BY <1>7, <2>1, <2>2 DEF Lockstep
<1> HIDE DEF F
<1>11. \A i \in 0 .. n : g[i] = f[i]
  BY <1>2, <1>10, SameSteps
<1> QED BY <1>1, <1>2, <1>6, <1>11 DEF V

\* An output for each coin.
LEMMA OutputAllBuilds ==
  ASSUME NEW l, NEW sig, NEW b \in Builds(l, sig),
         NEW coins \in Seq([value : 0 .. MaxUlong, key : Keys \ MinerKeys])
  PROVE  OutputAll(b, coins) \in Builds(l, sig)
<1> DEFINE n == Len(coins)
           V == Builds(l, sig)
           step == [x \in (1 .. n) \X V |-> Output(x[2], coins[x[1]].value, coins[x[1]].key)]
           F(g) == [i \in 0 .. n |->
                      IF i = 0 THEN b ELSE Output(g[i - 1], coins[i].value, coins[i].key)]
           g == CHOOSE g : g = F(g)
<1>1. OutputAll(b, coins) = g[n]
  BY DEF OutputAll
<1>2. n \in Nat /\ b \in V
      /\ \A i \in 1 .. n : coins[i].value \in 0 .. MaxUlong /\ coins[i].key \in Keys \ MinerKeys
  <2>1. \A i \in 1 .. n : coins[i] \in [value : 0 .. MaxUlong, key : Keys \ MinerKeys]
    BY ElementOfSeq
  <2> QED BY <2>1
<1>3. \A i \in 1 .. n, t \in V : Output(t, coins[i].value, coins[i].key) \in V
  BY <1>2, OutputBuilds
<1> HIDE DEF V, n
<1>4. step \in [(1 .. n) \X V -> V]
  BY <1>3
<1>5. \A i \in 1 .. n, t \in V : step[<<i, t>>] = Output(t, coins[i].value, coins[i].key)
  OBVIOUS
<1> HIDE DEF step
<1>6. PICK f \in [0 .. n -> V] : f[0] = b /\ \A i \in 1 .. n : f[i] = step[<<i, f[i - 1]>>]
  <2>1. \E f : Iterates(f, n, V, b, step)
    BY <1>2, <1>4, Recursion
  <2> QED BY <2>1 DEF Iterates
<1>7. ASSUME NEW i \in 1 .. n PROVE f[i] = Output(f[i - 1], coins[i].value, coins[i].key)
  <2>1. i - 1 \in 0 .. n
    BY <1>2
  <2> QED BY <1>5, <1>6, <2>1
<1>8. f = F(f)
  <2>1. ASSUME NEW i \in 0 .. n PROVE f[i] = F(f)[i]
    <3>1. CASE i = 0
      BY <1>6, <3>1
    <3>2. CASE i # 0
      <4>1. i \in 1 .. n
        BY <1>2, <3>2
      <4> QED BY <1>7, <3>2, <4>1
    <3> QED BY <3>1, <3>2
  <2>2. f = [i \in 0 .. n |-> f[i]] /\ F(f) = [i \in 0 .. n |-> F(f)[i]]
    OBVIOUS
  <2> HIDE DEF F
  <2> QED BY <2>1, <2>2
<1>9. g = F(g)
  BY <1>8
<1> HIDE DEF g
<1>10. Lockstep(g, f, n)
  <2>1. g[0] = f[0]
    BY <1>2, <1>6, <1>9
  <2>2. ASSUME NEW i \in 1 .. n PROVE g[i] = Output(g[i - 1], coins[i].value, coins[i].key)
    <3>1. i \in 0 .. n /\ i # 0
      BY <1>2
    <3>2. g[i] = F(g)[i]
      BY <1>9
    <3> QED BY <3>1, <3>2
  <2> QED BY <1>7, <2>1, <2>2 DEF Lockstep
<1> HIDE DEF F
<1>11. \A i \in 0 .. n : g[i] = f[i]
  BY <1>2, <1>10, SameSteps
<1> QED BY <1>1, <1>2, <1>6, <1>11 DEF V

------------------------------------------------------------------------------
(* Transactions *)

\* What Build.Transaction returned: its signature is by the sum of the blinding
\* factors in it.
Made(e) ==
  /\ e.tx \in Txs(e.tx.lock_height, Sign(kernel_sig_msg(e.tx.fee, e.tx.lock_height), e.blind))
  /\ e.blind \in Factors \ {NoBlind}
  /\ e.blind = Minus(Blinds(Commits(e.tx.outputs)), Blinds(e.tx.inputs))

\* The states of an exchange that has a transaction.
Underway == {"partial", "final"}

\* The inductive invariant of exchanges.
ExchangeInv ==
  /\ DOMAIN exchange = Orders
  /\ \A o \in Orders : exchange[o].state \in Underway => Made(exchange[o])

\* sum_commitments adds the overage to the outputs' side.
LEMMA SumCommitments ==
  ASSUME NEW ins \in Seq(Commitments), NEW outs \in Seq(PlainOutputs \cup RewardOutputs),
         NEW over \in Int
  PROVE  sum_commitments(ins, outs, over)
           = [value |-> Values(Commits(outs)) - Values(ins) + over,
              blind |-> Minus(Blinds(Commits(outs)), Blinds(ins))]
<1> DEFINE O == Commits(outs)
           c == commit_value(over)
           d == commit_value(-over)
<1>1. O \in Seq(Commitments)
  BY CommitsAre
<1>2. NoBlind \in Factors /\ \A f \in Factors : Plus(f, NoBlind) = f
  BY DEF NoBlind, Factors, Plus
<1>3. /\ c \in Commitments /\ c.value = over /\ c.blind = NoBlind
      /\ d \in Commitments /\ d.value = -over /\ d.blind = NoBlind
  BY <1>2 DEF commit_value, Commitments
<1> HIDE DEF O, c, d
<1>4. /\ O \o <<c>> = Append(O, c) /\ ins \o <<d>> = Append(ins, d)
      /\ O \o <<>> = O /\ ins \o <<>> = ins
  BY <1>1, <1>3, AppendIsConcat, ConcatEmptySeq
<1>5. /\ Values(O) \in Int /\ Values(ins) \in Int /\ Blinds(O) \in Factors /\ Blinds(ins) \in Factors
      /\ Values(Append(O, c)) = Values(O) + over /\ Blinds(Append(O, c)) = Blinds(O)
      /\ Values(Append(ins, d)) = Values(ins) + (-over) /\ Blinds(Append(ins, d)) = Blinds(ins)
  BY <1>1, <1>2, <1>3, SumsAre
<1>6. CASE over < 0
  <2>1. sum_commitments(ins, outs, over) = commit_sum(O \o <<>>, ins \o <<d>>)
    BY <1>6 DEF sum_commitments, O, d
  <2>2. commit_sum(O \o <<>>, ins \o <<d>>)
          = [value |-> Values(O) - (Values(ins) + (-over)), blind |-> Minus(Blinds(O), Blinds(ins))]
    BY <1>4, <1>5 DEF commit_sum
  <2>3. Values(O) - (Values(ins) + (-over)) = Values(O) - Values(ins) + over
    BY <1>5
  <2> QED BY <2>1, <2>2, <2>3 DEF O
<1>7. CASE ~(over < 0)
  <2>1. sum_commitments(ins, outs, over) = commit_sum(O \o <<c>>, ins \o <<>>)
    BY <1>7 DEF sum_commitments, O, c
  <2>2. commit_sum(Append(O, c), ins)
          = [value |-> Values(Append(O, c)) - Values(ins),
             blind |-> Minus(Blinds(Append(O, c)), Blinds(ins))]
    BY DEF commit_sum
  <2>3. Values(Append(O, c)) - Values(ins) = Values(O) - Values(ins) + over
    BY <1>5
  <2>4. sum_commitments(ins, outs, over) = commit_sum(Append(O, c), ins)
    BY <1>4, <2>1
  <2> QED BY <1>5, <2>2, <2>3, <2>4 DEF O
<1> QED BY <1>6, <1>7

\* The excess of a transaction.
LEMMA ExcessIs ==
  ASSUME NEW l, NEW sig, NEW tx \in Txs(l, sig)
  PROVE  /\ Excess(tx) = [value |-> Values(Commits(tx.outputs)) - Values(tx.inputs) + tx.fee,
                          blind |-> Minus(Blinds(Commits(tx.outputs)), Blinds(tx.inputs))]
         /\ Excess(tx) \in Commitments
         /\ Values(Commits(tx.outputs)) \in Int /\ Values(tx.inputs) \in Int /\ tx.fee \in Int
<1>1. /\ tx.inputs \in Seq(Commitments) /\ tx.outputs \in Seq(PlainOutputs)
      /\ tx.fee \in 0 .. MaxUlong \div 2
  BY DEF Txs
<1>2. tx.outputs \in Seq(PlainOutputs \cup RewardOutputs)
  BY <1>1
<1>3. AsLong(tx.fee) = tx.fee /\ tx.fee \in Int
  BY <1>1, TransactionAssumption DEF AsLong
<1>4. Commits(tx.outputs) \in Seq(Commitments)
  BY <1>2, CommitsAre
<1>5. /\ Values(Commits(tx.outputs)) \in Int /\ Values(tx.inputs) \in Int
      /\ Blinds(Commits(tx.outputs)) \in Factors /\ Blinds(tx.inputs) \in Factors
  BY <1>1, <1>4, SumsAre
<1>6. Minus(Blinds(Commits(tx.outputs)), Blinds(tx.inputs)) \in Factors
  BY <1>5 DEF Minus, Factors
<1>7. Excess(tx) = [value |-> Values(Commits(tx.outputs)) - Values(tx.inputs) + tx.fee,
                    blind |-> Minus(Blinds(Commits(tx.outputs)), Blinds(tx.inputs))]
  BY <1>1, <1>2, <1>3, SumCommitments DEF Excess
<1> QED BY <1>3, <1>5, <1>6, <1>7 DEF Commitments

\* A transaction that Build.Transaction made verifies if and only if it balances.
LEMMA MadeVerifies ==
  ASSUME NEW e, Made(e)
  PROVE  verify_sig(e.tx) <=> Values(e.tx.inputs) = Values(Commits(e.tx.outputs)) + e.tx.fee
<1> DEFINE tx == e.tx
           msg == kernel_sig_msg(tx.fee, tx.lock_height)
           sig == Sign(msg, e.blind)
           x == Excess(tx)
<1>1. tx \in Txs(tx.lock_height, sig) /\ e.blind \in Factors /\ e.blind # NoBlind
  BY DEF Made
<1>2. tx.excess_sig = sig /\ sig.msg = msg /\ sig.blind = e.blind
  BY <1>1 DEF Txs, Sign
<1>3. /\ x.value = Values(Commits(tx.outputs)) - Values(tx.inputs) + tx.fee
      /\ x.blind = e.blind
      /\ Values(Commits(tx.outputs)) \in Int /\ Values(tx.inputs) \in Int /\ tx.fee \in Int
  BY <1>1, ExcessIs DEF Made
<1>4. x # Infinity
  BY <1>1, <1>3 DEF Infinity, commit_value
<1>5. ASSUME NEW i \in DOMAIN tx.outputs PROVE Verify_proof(tx.outputs[i])
  <2>1. tx.outputs \in Seq(PlainOutputs)
    BY <1>1 DEF Txs
  <2>2. tx.outputs[i] \in PlainOutputs
    BY <2>1
  <2> QED BY <2>2 DEF Verify_proof, PlainOutputs
<1>6. verify_from_commit(msg, tx.excess_sig, x) <=> x.value = 0
  BY <1>2, <1>3 DEF verify_from_commit
<1>7. verify_sig(tx) <=> x.value = 0
  BY <1>4, <1>5, <1>6 DEF verify_sig
<1> HIDE DEF tx, x
<1>8. x.value = 0 <=> Values(tx.inputs) = Values(Commits(tx.outputs)) + tx.fee
  BY <1>3
<1> QED BY <1>7, <1>8 DEF tx

\* Build.Transaction makes such transactions.
LEMMA BuiltIsMade ==
  ASSUME NEW l, NEW sig, NEW parts \in Builds(l, sig), NEW state \in Underway,
         Built(state, parts).state \in Underway
  PROVE  Made(Built(state, parts))
<1> DEFINE e == Built(state, parts)
           tx == parts.tx
           new == Sign(kernel_sig_msg(tx.fee, tx.lock_height), parts.sum)
<1>1. parts.sum # NoBlind
  BY DEF Built, Failed, Underway, Transaction_throws
<1>2. e.tx = [tx EXCEPT !.excess_sig = new] /\ e.blind = parts.sum
  BY <1>1 DEF Built, Transaction_throws, Transaction
<1>3. /\ tx \in Txs(l, sig) /\ parts.sum \in Factors
      /\ parts.sum = Minus(Blinds(Commits(tx.outputs)), Blinds(tx.inputs))
  BY DEF Builds
<1> HIDE DEF e, tx, new
<1>4. /\ e.tx \in Txs(l, new) /\ e.tx.lock_height = l /\ tx.lock_height = l
      /\ e.tx.fee = tx.fee /\ e.tx.outputs = tx.outputs /\ e.tx.inputs = tx.inputs
  BY <1>2, <1>3 DEF Txs
<1>5. new = Sign(kernel_sig_msg(e.tx.fee, e.tx.lock_height), e.blind)
  BY <1>2, <1>4 DEF new
<1>6. e.tx \in Txs(e.tx.lock_height, Sign(kernel_sig_msg(e.tx.fee, e.tx.lock_height), e.blind))
  BY <1>4, <1>5
<1> QED BY <1>1, <1>2, <1>3, <1>4, <1>6 DEF Made, e

\* The parts of a sender.
LEMMA SenderBuilds ==
  ASSUME NEW o \in Orders
  PROVE  SenderParts(o) \in Builds(o.lock_height, Empty.excess_sig)
<1> DEFINE sig == Empty.excess_sig
           b == with_fee(NewContext, o.fee)
           c == InputAll(b, o.coins)
           d == OutputAll(c, o.change)
<1>1. /\ o.fee \in 0 .. MaxUlong \div 2 /\ o.fee <= MaxUlong \div MaxBlockWeight
      /\ o.coins \in Seq([value : 0 .. MaxUlong, key : Keys])
      /\ o.change \in Seq([value : 0 .. MaxUlong, key : Keys \ MinerKeys])
  BY OrdersAssumption
<1>2. /\ b.tx = [inputs |-> <<>>, outputs |-> <<>>, fee |-> o.fee, lock_height |-> 0, excess_sig |-> sig]
      /\ b.sum = NoBlind /\ b = [tx |-> b.tx, sum |-> b.sum]
  BY DEF with_fee, NewContext, Empty
<1>3. Commits(<<>>) = <<>>
  BY DEF Commits
<1>4. NoBlind \in Factors /\ NoBlind = Minus(NoBlind, NoBlind)
  BY DEF NoBlind, Factors, Minus
<1> HIDE DEF sig, b
<1>5. b.tx \in Txs(0, sig)
  BY <1>1, <1>2 DEF Txs
<1>6. b \in Builds(0, sig)
  BY <1>2, <1>3, <1>4, <1>5, NoSums DEF Builds
<1>7. c \in Builds(0, sig)
  BY <1>1, <1>6, InputAllBuilds
<1> HIDE DEF c
<1>8. d \in Builds(0, sig)
  BY <1>1, <1>7, OutputAllBuilds
<1> HIDE DEF d
<1>9. SenderParts(o) = [d EXCEPT !.tx.lock_height = o.lock_height]
  BY DEF SenderParts, with_lock_height, d, c, b
<1>10. /\ d.tx \in Txs(0, sig) /\ d.sum \in Factors /\ d = [tx |-> d.tx, sum |-> d.sum]
       /\ d.sum = Minus(Blinds(Commits(d.tx.outputs)), Blinds(d.tx.inputs))
  BY <1>8 DEF Builds
<1> DEFINE t == [d.tx EXCEPT !.lock_height = o.lock_height]
<1>11. t \in Txs(o.lock_height, sig) /\ t.outputs = d.tx.outputs /\ t.inputs = d.tx.inputs
  BY <1>10 DEF Txs
<1>12. SenderParts(o) = [tx |-> t, sum |-> d.sum]
  BY <1>9, <1>10
<1> HIDE DEF t
<1> QED BY <1>10, <1>11, <1>12 DEF Builds, sig

\* The parts of a receiver.
LEMMA ReceiverBuilds ==
  ASSUME NEW o \in Orders, NEW e, Made(e)
  PROVE  ReceiverParts(o, e) \in Builds(e.tx.lock_height, e.tx.excess_sig)
<1> DEFINE b == with_excess(initial_tx(NewContext, e.tx), e.blind)
           v == (o.amount - e.tx.fee) % (MaxUlong + 1)
           sig == Sign(kernel_sig_msg(e.tx.fee, e.tx.lock_height), e.blind)
<1>1. /\ e.tx \in Txs(e.tx.lock_height, sig) /\ e.blind \in Factors
      /\ e.blind = Minus(Blinds(Commits(e.tx.outputs)), Blinds(e.tx.inputs))
  BY DEF Made
<1>2. b = [tx |-> e.tx, sum |-> Plus(NoBlind, e.blind)]
  <2>1. initial_tx(NewContext, e.tx) = [tx |-> e.tx, sum |-> NoBlind]
    BY DEF initial_tx, NewContext
  <2> QED BY <2>1 DEF with_excess
<1>3. Plus(NoBlind, e.blind) = e.blind
  BY <1>1 DEF Plus, NoBlind, Factors
<1>4. e.tx.excess_sig = sig /\ e.tx.fee \in Int
  BY <1>1, ExcessIs DEF Txs
<1> HIDE DEF sig, b
<1>5. b \in Builds(e.tx.lock_height, e.tx.excess_sig)
  BY <1>1, <1>2, <1>3, <1>4 DEF Builds
<1>6. o.amount \in Int /\ o.key \in Keys \ MinerKeys /\ MaxUlong + 1 \in Nat \ {0}
  BY OrdersAssumption, TransactionAssumption
<1>7. v \in 0 .. MaxUlong
  BY <1>4, <1>6, TransactionAssumption
<1>8. ReceiverParts(o, e) = Output(b, v, o.key)
  BY DEF ReceiverParts, b
<1> HIDE DEF v
<1> QED BY <1>5, <1>6, <1>7, <1>8, OutputBuilds

------------------------------------------------------------------------------
(* Blocks *)

\* The largest fee of an order, or what it may be.
MaxFee == MaxUlong \div MaxBlockWeight

\* The shape of a block.  It has a kernel, be it only the reward's.
IsBody(b) ==
  /\ b = [height |-> b.height, inputs |-> b.inputs, outputs |-> b.outputs, kernels |-> b.kernels]
  /\ b.inputs \in Seq(Commitments)
  /\ b.outputs \in Seq(PlainOutputs \cup RewardOutputs)
  /\ b.kernels \in Seq(ToSet(b.kernels)) /\ b.kernels # <<>>
  /\ \A k \in ToSet(b.kernels) : k.excess \in Commitments /\ k.fee \in 0 .. MaxFee

\* The fees of a block that is not too heavy fit, and so does twice their sum.
LEMMA FeesFit ==
  ASSUME NEW b, IsBody(b), ~Exceeds_weight(Len(b.inputs), Len(b.outputs), Len(b.kernels))
  PROVE  total_fees(b) \in Nat /\ AsLong(total_fees(b)) = total_fees(b)
<1> DEFINE s == [i \in DOMAIN b.kernels |-> b.kernels[i].fee]
           K == Len(b.kernels)
           W == MaxBlockWeight
           q == MaxFee
           M == MaxUlong
<1>1. /\ K \in Nat /\ DOMAIN b.kernels = 1 .. K
      /\ \A i \in 1 .. K : b.kernels[i] \in ToSet(b.kernels)
  BY DEF IsBody, ToSet
<1>2. \A i \in 1 .. K : b.kernels[i].fee \in 0 .. q
  BY <1>1 DEF IsBody
<1>3. W \in Nat \ {0} /\ M \in Nat
  BY BlockAssumption, TransactionAssumption
<1>4. q \in Nat /\ q * W <= M
  <2>1. M \div W \in Nat /\ (M \div W) * W <= M
    BY <1>3
  <2> QED BY <2>1 DEF MaxFee
<1>5. 2 * K <= W
  <2>1. Len(b.inputs) \in Nat /\ Len(b.outputs) \in Nat
    BY DEF IsBody
  <2>2. ~(Len(b.inputs) + 10 * Len(b.outputs) + 2 * K > W)
    BY DEF Exceeds_weight
  <2> DEFINE m == Len(b.inputs)
             n == Len(b.outputs)
  <2> HIDE DEF m, n, K, W
  <2>3. m \in Nat /\ n \in Nat /\ ~(m + 10 * n + 2 * K > W)
    BY <2>1, <2>2 DEF m, n
  <2> QED BY <1>1, <1>3, <2>3
<1>6. s \in [1 .. K -> 0 .. q]
  <2> HIDE DEF q, K
  <2> QED BY <1>1, <1>2
<1> HIDE DEF q, K, W, M
<1>7. s \in Seq(0 .. q) /\ Len(s) = K
  <2> DEFINE U == 0 .. q
  <2>1. K \in Nat /\ s \in [1 .. K -> U]
    BY <1>1, <1>6
  <2> HIDE DEF s, U
  <2>2. s \in Seq(U) /\ Len(s) = K
    BY <2>1
  <2> QED BY <2>2 DEF U
<1>8. Sum(s) \in Nat /\ Sum(s) <= K * q
  BY <1>4, <1>7, SumBound
<1>9. total_fees(b) = Sum(s) % (M + 1)
  BY DEF total_fees, Fees, M
<1> HIDE DEF s
<1>10. 2 * (K * q) <= M
  <2>1. (2 * K) * q <= W * q
    BY <1>1, <1>3, <1>4, <1>5
  <2>2. (2 * K) * q = 2 * (K * q) /\ W * q = q * W
    BY <1>1, <1>3, <1>4
  <2>3. K * q \in Int /\ q * W \in Int
    BY <1>1, <1>3, <1>4
  <2> QED BY <1>3, <1>4, <2>1, <2>2, <2>3
<1>11. K * q \in Int
  BY <1>1, <1>4
<1>12. Sum(s) <= M \div 2 /\ Sum(s) <= M
  BY <1>3, <1>8, <1>10, <1>11
<1>13. total_fees(b) = Sum(s)
  BY <1>3, <1>8, <1>9, <1>12
<1> QED BY <1>8, <1>12, <1>13 DEF AsLong, M

\* Commitments to nothing have no value together.
LEMMA NoValue ==
  ASSUME NEW X, NEW s \in Seq(X), \A x \in X : x.excess \in Commitments /\ x.excess.value = 0
  PROVE  commit_sum(Excesses(s), <<>>).value = 0
<1> DEFINE e == Excesses(s)
           v == [i \in DOMAIN e |-> e[i].value]
<1>1. DOMAIN s = 1 .. Len(s) /\ Len(s) \in Nat /\ \A i \in 1 .. Len(s) : s[i] \in X
  OBVIOUS
<1>2. e = [i \in 1 .. Len(s) |-> s[i].excess]
  BY <1>1 DEF Excesses
<1>3. DOMAIN e = 1 .. Len(s) /\ \A i \in 1 .. Len(s) : e[i].value = 0
  BY <1>1, <1>2
<1> HIDE DEF e
<1>4. v = [i \in 1 .. Len(s) |-> 0]
  BY <1>3
<1>5. v \in Seq(Int) /\ \A i \in DOMAIN v : v[i] = 0
  BY <1>1, <1>4
<1> HIDE DEF v
<1>6. Sum(v) = 0
  BY <1>5, SumZeros
<1>7. Values(e) = 0
  BY <1>6 DEF Values, v
<1>8. commit_sum(e, <<>>).value = Values(e) - Values(<<>>)
  BY DEF commit_sum
<1> QED BY <1>7, <1>8, NoSums DEF e

\* What Block.Validate has established when it accepts a block.
LEMMA ValidSupply ==
  ASSUME NEW b, IsBody(b), Validate(b) = "ok"
  PROVE  LET outs == Commits(b.outputs)
             cb == Commits(Keep(b.outputs, CoinbaseOutputs(b)))
         IN /\ Values(outs) - Values(b.inputs) = RewardAmount - total_fees(b) \div 2
            /\ Values(cb) = Reward(total_fees(b))
<1> DEFINE F == total_fees(b)
           R == RewardAmount
           r == Reward(F)
           outs == Commits(b.outputs)
           cb == Commits(Keep(b.outputs, CoinbaseOutputs(b)))
           io == sum_commitments(b.inputs, b.outputs, Overage(b))
           proof == commit_sum(Excesses(b.kernels), <<>>)
           adjusted == commit_sum(cb, <<commit_value(r)>>)
           kerns == commit_sum(Excesses(Keep(b.kernels, CoinbaseKernels(b))), <<>>)
<1>1. /\ ~Exceeds_weight(Len(b.inputs), Len(b.outputs), Len(b.kernels))
      /\ verify_coinbase(b) = "ok" /\ verify_kernels(b) = "ok"
  BY DEF Validate
<1>2. F \in Nat /\ AsLong(F) = F /\ R \in Nat /\ MaxUlong \in Nat
  BY <1>1, FeesFit, BlockAssumption, TransactionAssumption
<1>3. Overage(b) = F \div 2 - R /\ r \in Nat
  BY <1>2 DEF Overage, Reward
<1>4. adjusted = kerns
  BY <1>1 DEF verify_coinbase
<1>5. io = proof /\ \A i \in DOMAIN b.kernels : Verify(b.kernels[i])
  BY <1>1 DEF verify_kernels, IsBody
<1>6. ASSUME NEW k \in ToSet(b.kernels) PROVE k.excess \in Commitments /\ k.excess.value = 0
  <2>1. Verify(k)
    BY <1>5 DEF ToSet
  <2> QED BY <2>1 DEF Verify, verify_from_commit, IsBody
<1>7. proof.value = 0
  BY <1>6, NoValue DEF IsBody
<1>8. kerns.value = 0
  <2>1. Keep(b.kernels, CoinbaseKernels(b)) \in Seq(ToSet(b.kernels))
    BY KeepIs DEF IsBody
  <2> QED BY <1>6, <2>1, NoValue
<1>9. io.value = Values(outs) - Values(b.inputs) + (F \div 2 - R)
  <2>1. /\ b.inputs \in Seq(Commitments) /\ b.outputs \in Seq(PlainOutputs \cup RewardOutputs)
        /\ F \div 2 - R \in Int
    BY <1>2 DEF IsBody
  <2> HIDE DEF F, R, outs
  <2>2. io = [value |-> Values(Commits(b.outputs)) - Values(b.inputs) + (F \div 2 - R),
              blind |-> Minus(Blinds(Commits(b.outputs)), Blinds(b.inputs))]
    BY <1>3, <2>1, SumCommitments
  <2> QED BY <2>2 DEF outs
<1>10. Values(outs) \in Int /\ Values(b.inputs) \in Int /\ Values(cb) \in Int
  <2>1. Keep(b.outputs, CoinbaseOutputs(b)) \in Seq(PlainOutputs \cup RewardOutputs)
    BY KeepIs DEF IsBody
  <2>2. outs \in Seq(Commitments) /\ cb \in Seq(Commitments) /\ b.inputs \in Seq(Commitments)
    BY <2>1, CommitsAre DEF IsBody
  <2> HIDE DEF outs, cb
  <2> QED BY <2>2, SumsAre
<1>11. adjusted.value = Values(cb) - r
  <2> DEFINE c == commit_value(r)
  <2>1. c \in Commitments /\ c.value = r
    BY <1>3 DEF commit_value, Commitments, NoBlind, Factors
  <2>2. <<>> \in Seq(Commitments) /\ <<c>> = Append(<<>>, c)
    OBVIOUS
  <2> HIDE DEF c, cb
  <2>3. Values(<<c>>) = r
    <3>1. Values(Append(<<>>, c)) = Values(<<>>) + c.value
      BY <2>1, <2>2, SumsAre
    <3>2. Values(Append(<<>>, c)) = r
      BY <1>3, <2>1, <3>1, NoSums
    <3> QED BY <2>2, <3>2
  <2>4. adjusted.value = Values(cb) - Values(<<c>>)
    BY DEF commit_sum, c
  <2> QED BY <2>3, <2>4
<1> HIDE DEF io, proof, adjusted, kerns, outs, cb, r
<1>12. Values(outs) - Values(b.inputs) + (F \div 2 - R) = 0
  BY <1>5, <1>7, <1>9
<1>13. Values(cb) = r
  BY <1>3, <1>4, <1>8, <1>10, <1>11
<1>14. Values(outs) - Values(b.inputs) = R - F \div 2
  <2> HIDE DEF F, R
  <2> QED BY <1>2, <1>10, <1>12
<1> QED BY <1>13, <1>14 DEF outs, cb, r

------------------------------------------------------------------------------
(* Cut-through *)

\* The commitments of outputs that are no rewards.
Plain(b) == {o.commit : o \in ToSet(b.outputs) \ CoinbaseOutputs(b)}

\* They are those that are not commitments of rewards.
LEMMA PlainIs ==
  ASSUME NEW b, IsBody(b)
  PROVE  Plain(b) = ToSet(Commits(b.outputs)) \ Coinbases(b)
<1> DEFINE X == ToSet(b.outputs)
<1>1. X \subseteq PlainOutputs \cup RewardOutputs
  BY DEF ToSet, IsBody
<1>2. ToSet(Commits(b.outputs)) = {o.commit : o \in X}
  BY CommitsAre DEF IsBody
<1>3. ASSUME NEW o \in X
      PROVE  IF o \in CoinbaseOutputs(b) THEN o \in RewardOutputs ELSE o \in PlainOutputs
  BY <1>1 DEF CoinbaseOutputs, PlainOutputs, RewardOutputs
<1>4. CoinbaseOutputs(b) \subseteq X
  BY DEF CoinbaseOutputs
<1> HIDE DEF X
<1>5. \A o, r \in X : o \notin CoinbaseOutputs(b) /\ r \in CoinbaseOutputs(b) => o.commit # r.commit
  BY <1>3, RewardsDiffer
<1>6. Plain(b) = {o.commit : o \in X \ CoinbaseOutputs(b)}
  BY DEF Plain, X
<1>7. Coinbases(b) = {o.commit : o \in CoinbaseOutputs(b)}
  BY DEF Coinbases
<1> QED BY <1>2, <1>4, <1>5, <1>6, <1>7, Zenon

\* Compact drops what is both spent and created.
LEMMA CompactIs ==
  ASSUME NEW b, IsBody(b)
  PROVE  /\ IsBody(Compact(b))
         /\ ToSet(Compact(b).inputs) = ToSet(b.inputs) \ Plain(b)
         /\ Plain(Compact(b)) = Plain(b) \ ToSet(b.inputs)
<1> DEFINE I == ToSet(b.inputs)
           P == Plain(b)
           C == I \cap P
           ins == Keep(b.inputs, I \ C)
           X == {o \in ToSet(b.outputs) : o.commit \notin C}
           outs == Keep(b.outputs, X)
           c == Compact(b)
<1>1. c = [b EXCEPT !.inputs = ins, !.outputs = outs]
  BY DEF Compact, Plain
<1>2. ins \in Seq(Commitments) /\ ToSet(ins) = I \cap (I \ C)
  BY KeepIs DEF IsBody
<1>3. outs \in Seq(PlainOutputs \cup RewardOutputs) /\ ToSet(outs) = ToSet(b.outputs) \cap X
  BY KeepIs DEF IsBody
<1> HIDE DEF c, ins, outs
<1>4. /\ c.inputs = ins /\ c.outputs = outs /\ c.kernels = b.kernels
      /\ c = [height |-> c.height, inputs |-> c.inputs, outputs |-> c.outputs, kernels |-> c.kernels]
  BY <1>1 DEF IsBody
<1>5. IsBody(c)
  BY <1>2, <1>3, <1>4 DEF IsBody
<1>6. ToSet(c.inputs) = I \ P
  BY <1>2, <1>4
<1>7. ToSet(c.outputs) = X
  BY <1>3, <1>4
<1>8. CoinbaseOutputs(c) = X \cap CoinbaseOutputs(b)
  BY <1>7 DEF CoinbaseOutputs
<1>9. Plain(c) = {o.commit : o \in X \ CoinbaseOutputs(b)}
  BY <1>7, <1>8 DEF Plain
<1>10. X = {o \in ToSet(b.outputs) : o.commit \notin C} /\ C = I \cap P
  OBVIOUS
<1>11. P = {o.commit : o \in ToSet(b.outputs) \ CoinbaseOutputs(b)}
  BY DEF Plain
<1> HIDE DEF X, C, P, I
<1>12. Plain(c) = P \ I
  BY <1>9, <1>10, <1>11, Zenon
<1> QED BY <1>5, <1>6, <1>12 DEF c, P, I

\* A transaction that Build.Transaction can have made.
IsTx(tx) == tx \in Txs(tx.lock_height, tx.excess_sig)

\* The kernel of a transaction.
LEMMA KernelIs ==
  ASSUME NEW tx, IsTx(tx)
  PROVE  Kernel(tx).excess \in Commitments /\ Kernel(tx).fee \in 0 .. MaxFee
<1>1. Excess(tx) \in Commitments
  BY ExcessIs DEF IsTx
<1>2. tx.fee \in 0 .. MaxFee
  BY TransactionAssumption, BlockAssumption DEF IsTx, Txs, MaxFee
<1> QED BY <1>1, <1>2 DEF Kernel

\* The output and the kernel of a reward.
LEMMA RewardIs ==
  ASSUME NEW k \in MinerKeys, NEW F \in Nat
  PROVE  /\ Reward_output(k, F).output \in RewardOutputs
         /\ Reward_output(k, F).kernel.excess \in Commitments
         /\ Reward_output(k, F).kernel.fee = 0
<1> DEFINE r == Reward(F)
           c == Commit(r, k)
           d == commit_value(r)
<1>1. r \in 0 .. MaxUlong
  <2>1. F \div 2 \in Nat
    OBVIOUS
  <2> QED BY <2>1, BlockAssumption, TransactionAssumption DEF Reward
<1>2. k \in Keys
  BY OrdersAssumption
<1>3. /\ c \in Commitments /\ d \in Commitments
      /\ c = [value |-> r, blind |-> Derived_key(k)]
  BY <1>1, <1>2, DerivedKey, TransactionAssumption DEF Commit, commit_value, Commitments, NoBlind, Factors
<1>4. /\ Reward_output(k, F).output = [features |-> "CoinbaseOutput", commit |-> c]
      /\ Reward_output(k, F).kernel.excess = commit_sum(<<c>>, <<d>>)
      /\ Reward_output(k, F).kernel.fee = 0
  BY DEF Reward_output
<1> HIDE DEF r, c, d
<1>5. [features |-> "CoinbaseOutput", commit |-> c] \in RewardOutputs
  BY <1>1, <1>3 DEF RewardOutputs
<1>6. <<c>> \in Seq(Commitments) /\ <<d>> \in Seq(Commitments)
  BY <1>3
<1>7. /\ Values(<<c>>) \in Int /\ Values(<<d>>) \in Int
      /\ Blinds(<<c>>) \in Factors /\ Blinds(<<d>>) \in Factors
  BY <1>6, SumsAre
<1>8. commit_sum(<<c>>, <<d>>) \in Commitments
  BY <1>7 DEF commit_sum, Commitments, Minus, Factors
<1> QED BY <1>4, <1>5, <1>8

\* The fees of transactions.
LEMMA FeesType ==
  ASSUME NEW S, \A tx \in S : IsTx(tx), NEW txs \in Seq(S)
  PROVE  Fees(txs) \in Nat
<1> DEFINE s == [i \in DOMAIN txs |-> txs[i].fee]
<1>1. DOMAIN txs = 1 .. Len(txs) /\ Len(txs) \in Nat /\ \A i \in 1 .. Len(txs) : txs[i] \in S
  OBVIOUS
<1>2. \A i \in 1 .. Len(txs) : txs[i].fee \in Int
  BY <1>1, ExcessIs DEF IsTx
<1>3. s \in [1 .. Len(txs) -> Int]
  BY <1>1, <1>2
<1>4. Fees(txs) = Sum(s) % (MaxUlong + 1)
  BY DEF Fees
<1> HIDE DEF s
<1>5. s \in Seq(Int)
  BY <1>1, <1>3
<1>6. Sum(s) \in Int /\ MaxUlong + 1 \in Nat \ {0}
  BY <1>5, SumType, TransactionAssumption
<1> QED BY <1>4, <1>6

\* Block.New spends and creates what its transactions do, and no more, but for what
\* they both create and spend.
LEMMA NewIs ==
  ASSUME NEW S, \A tx \in S : IsTx(tx), NEW txs \in Seq(S), NEW h, NEW k \in MinerKeys
  PROVE  LET T == ToSet(txs)
             b == New(h, txs, k)
         IN /\ IsBody(b)
            /\ ToSet(b.inputs) = Spent(T) \ Created(T)
            /\ Plain(b) = Created(T) \ Spent(T)
<1> DEFINE T == ToSet(txs)
           F == Fees(txs)
           r == Reward_output(k, F)
           is == [i \in DOMAIN txs |-> txs[i].inputs]
           os == [i \in DOMAIN txs |-> txs[i].outputs]
           ks == [i \in DOMAIN txs |-> Kernel(txs[i])]
           ins == FlattenSeq(is)
           outs == FlattenSeq(os)
           b == [height |-> h + 1, inputs |-> ins, outputs |-> Append(outs, r.output),
                 kernels |-> Append(ks, r.kernel)]
           n == Len(txs)
<1>1. New(h, txs, k) = Compact(b)
  BY DEF New, with_reward
<1>2. DOMAIN txs = 1 .. n /\ n \in Nat /\ (\A i \in 1 .. n : txs[i] \in S) /\ T \subseteq S
  BY DEF ToSet
<1>3. ASSUME NEW tx \in S
      PROVE  tx.inputs \in Seq(Commitments) /\ tx.outputs \in Seq(PlainOutputs)
  BY DEF IsTx, Txs
<1>4. /\ r.output \in RewardOutputs /\ r.kernel.excess \in Commitments
      /\ r.kernel.fee = 0
  <2>1. F \in Nat
    BY FeesType
  <2> HIDE DEF F
  <2> QED BY <2>1, RewardIs
<1>5. /\ ins \in Seq(Commitments)
      /\ ToSet(ins) = Spent(T)
  <2>1. is \in [1 .. n -> Seq(Commitments)]
    BY <1>2, <1>3
  <2>2. DOMAIN is = 1 .. n /\ \A i \in 1 .. n : is[i] = txs[i].inputs
    BY <1>2
  <2> HIDE DEF is
  <2>3. is \in Seq(Seq(Commitments))
    <3> DEFINE V == Seq(Commitments)
    <3> HIDE DEF V, n
    <3>1. is \in Seq(V)
      BY <1>2, <2>1 DEF V
    <3> QED BY <3>1 DEF V
  <2>4. ins \in Seq(Commitments) /\ ToSet(ins) = UNION {ToSet(is[i]) : i \in DOMAIN is}
    BY <2>3, FlattenIs
  <2>5. UNION {ToSet(is[i]) : i \in 1 .. n} = UNION {ToSet(tx.inputs) : tx \in {txs[i] : i \in 1 .. n}}
    BY <2>2, Zenon
  <2> QED BY <1>2, <2>2, <2>4, <2>5 DEF Spent, ToSet
<1>6. /\ outs \in Seq(PlainOutputs)
      /\ ToSet(outs) = UNION {ToSet(tx.outputs) : tx \in T}
  <2>1. os \in [1 .. n -> Seq(PlainOutputs)]
    BY <1>2, <1>3
  <2>2. DOMAIN os = 1 .. n /\ \A i \in 1 .. n : os[i] = txs[i].outputs
    BY <1>2
  <2> HIDE DEF os
  <2>3. os \in Seq(Seq(PlainOutputs))
    <3> DEFINE V == Seq(PlainOutputs)
    <3> HIDE DEF V, n
    <3>1. os \in Seq(V)
      BY <1>2, <2>1 DEF V
    <3> QED BY <3>1 DEF V
  <2>4. outs \in Seq(PlainOutputs) /\ ToSet(outs) = UNION {ToSet(os[i]) : i \in DOMAIN os}
    BY <2>3, FlattenIs
  <2>5. UNION {ToSet(os[i]) : i \in 1 .. n} = UNION {ToSet(tx.outputs) : tx \in {txs[i] : i \in 1 .. n}}
    BY <2>2, Zenon
  <2> QED BY <1>2, <2>2, <2>4, <2>5 DEF ToSet
<1> HIDE DEF ins, outs
<1>7. /\ Append(outs, r.output) \in Seq(PlainOutputs \cup RewardOutputs)
      /\ ToSet(Append(outs, r.output)) = ToSet(outs) \cup {r.output}
  <2> HIDE DEF r
  <2> QED BY <1>4, <1>6, ToSetAppend
<1>8. /\ b.kernels \in Seq(ToSet(b.kernels)) /\ b.kernels # <<>>
      /\ \A x \in ToSet(b.kernels) : x.excess \in Commitments /\ x.fee \in 0 .. MaxFee
  <2> DEFINE K == {Kernel(tx) : tx \in S}
             q == Append(ks, r.kernel)
  <2>1. ks \in [1 .. n -> K]
    BY <1>2
  <2>2. ks \in Seq(K)
    <3> HIDE DEF ks, K, n
    <3> QED BY <1>2, <2>1
  <2>3. ToSet(ks) \subseteq K
    <3> HIDE DEF ks, K
    <3> QED BY <2>2 DEF ToSet
  <2>4. \A x \in K : x.excess \in Commitments /\ x.fee \in 0 .. MaxFee
    BY KernelIs
  <2>5. 0 \in 0 .. MaxFee
    BY TransactionAssumption, BlockAssumption DEF MaxFee
  <2> HIDE DEF ks, K, r
  <2>6. ToSet(q) = ToSet(ks) \cup {r.kernel}
    BY <2>2, ToSetAppend
  <2>7. q \in Seq(ToSet(q)) /\ q # <<>>
    <3>1. q \in Seq(K \cup {r.kernel}) /\ q # <<>>
      BY <2>2
    <3> HIDE DEF q
    <3>2. DOMAIN q = 1 .. Len(q) /\ Len(q) \in Nat /\ q = [i \in 1 .. Len(q) |-> q[i]]
      BY <3>1
    <3>3. \A i \in 1 .. Len(q) : q[i] \in ToSet(q)
      BY <3>2 DEF ToSet
    <3>4. q \in [1 .. Len(q) -> ToSet(q)]
      BY <3>2, <3>3
    <3> QED BY <3>1, <3>2, <3>4
  <2>8. b.kernels = q
    OBVIOUS
  <2> HIDE DEF q, b
  <2> QED BY <1>4, <2>3, <2>4, <2>5, <2>6, <2>7, <2>8
<1>9. IsBody(b)
  <2>1. /\ b = [height |-> b.height, inputs |-> b.inputs, outputs |-> b.outputs, kernels |-> b.kernels]
        /\ b.inputs = ins /\ b.outputs = Append(outs, r.output)
    OBVIOUS
  <2> HIDE DEF b
  <2> QED BY <1>5, <1>7, <1>8, <2>1 DEF IsBody
<1>10. Plain(b) = Created(T)
  <2>1. b.outputs = Append(outs, r.output)
    OBVIOUS
  <2> HIDE DEF b, r
  <2>2. r.output.features = "CoinbaseOutput" /\ \A o \in ToSet(outs) : o.features = "DefaultOutput"
    <3>1. \A o \in ToSet(outs) : o \in PlainOutputs
      BY <1>6 DEF ToSet
    <3>2. \A o \in PlainOutputs : o.features = "DefaultOutput"
      BY DEF PlainOutputs
    <3>3. r.output.features = "CoinbaseOutput"
      BY <1>4 DEF RewardOutputs
    <3> QED BY <3>1, <3>2, <3>3
  <2>3. ToSet(b.outputs) \ CoinbaseOutputs(b) = ToSet(outs)
    BY <1>7, <2>1, <2>2 DEF CoinbaseOutputs
  <2>4. Plain(b) = {o.commit : o \in UNION {ToSet(tx.outputs) : tx \in T}}
    BY <1>6, <2>3 DEF Plain
  <2>5. ASSUME NEW tx \in T PROVE ToSet(Commits(tx.outputs)) = {o.commit : o \in ToSet(tx.outputs)}
    <3>1. tx.outputs \in Seq(PlainOutputs \cup RewardOutputs)
      BY <1>2, <1>3
    <3> QED BY <3>1, CommitsAre
  <2>6. Created(T) = UNION {ToSet(Commits(tx.outputs)) : tx \in T}
    BY DEF Created
  <2> HIDE DEF T
  <2>7. UNION {ToSet(Commits(tx.outputs)) : tx \in T}
          = UNION {{o.commit : o \in ToSet(tx.outputs)} : tx \in T}
    BY <2>5, Zenon
  <2>8. {o.commit : o \in UNION {ToSet(tx.outputs) : tx \in T}}
          = UNION {{o.commit : o \in ToSet(tx.outputs)} : tx \in T}
    <3> DEFINE L == {o.commit : o \in UNION {ToSet(tx.outputs) : tx \in T}}
               R == UNION {{o.commit : o \in ToSet(tx.outputs)} : tx \in T}
    <3>1. ASSUME NEW x \in L PROVE x \in R
      <4>1. PICK o \in UNION {ToSet(tx.outputs) : tx \in T} : x = o.commit
        OBVIOUS
      <4>2. PICK tx \in T : o \in ToSet(tx.outputs)
        OBVIOUS
      <4> QED BY <4>1, <4>2
    <3>2. ASSUME NEW x \in R PROVE x \in L
      <4>1. PICK tx \in T : x \in {o.commit : o \in ToSet(tx.outputs)}
        OBVIOUS
      <4>2. PICK o \in ToSet(tx.outputs) : x = o.commit
        BY <4>1
      <4> QED BY <4>2
    <3> HIDE DEF L, R
    <3>3. L = R
      BY <3>1, <3>2
    <3> QED BY <3>3 DEF L, R
  <2> QED BY <2>4, <2>6, <2>7, <2>8, Zenon
<1>11. b.inputs = ins
  OBVIOUS
<1> HIDE DEF b
<1> QED BY <1>1, <1>5, <1>9, <1>10, <1>11, CompactIs

\* Block.Merge drops what one block spends and the other creates.
LEMMA MergeIs ==
  ASSUME NEW b, IsBody(b), NEW c, IsBody(c)
  PROVE  /\ IsBody(Merge(b, c))
         /\ ToSet(Merge(b, c).inputs)
              = (ToSet(b.inputs) \cup ToSet(c.inputs)) \ (Plain(b) \cup Plain(c))
         /\ Plain(Merge(b, c))
              = (Plain(b) \cup Plain(c)) \ (ToSet(b.inputs) \cup ToSet(c.inputs))
<1> DEFINE ins == b.inputs \o c.inputs
           outs == b.outputs \o c.outputs
           kerns == b.kernels \o c.kernels
           m == [b EXCEPT !.inputs = ins, !.outputs = outs, !.kernels = kerns]
<1>1. Merge(b, c) = Compact(m)
  BY DEF Merge
<1>2. ins \in Seq(Commitments) /\ ToSet(ins) = ToSet(b.inputs) \cup ToSet(c.inputs)
  BY ToSetConcat DEF IsBody
<1>3. /\ outs \in Seq(PlainOutputs \cup RewardOutputs)
      /\ ToSet(outs) = ToSet(b.outputs) \cup ToSet(c.outputs)
  BY ToSetConcat DEF IsBody
<1>4. /\ kerns \in Seq(ToSet(b.kernels) \cup ToSet(c.kernels)) /\ kerns # <<>>
      /\ ToSet(kerns) = ToSet(b.kernels) \cup ToSet(c.kernels)
  <2> DEFINE X == ToSet(b.kernels)
             Y == ToSet(c.kernels)
             p == b.kernels
             q == c.kernels
  <2>1. p \in Seq(X) /\ q \in Seq(Y) /\ p # <<>>
    BY DEF IsBody
  <2> HIDE DEF X, Y, p, q
  <2>2. p \in Seq(X \cup Y) /\ q \in Seq(X \cup Y)
    BY <2>1
  <2>3. p \o q # <<>>
    BY <2>1
  <2>4. p \o q \in Seq(X \cup Y) /\ ToSet(p \o q) = ToSet(p) \cup ToSet(q)
    BY <2>2, ToSetConcat
  <2> QED BY <2>3, <2>4 DEF X, Y, p, q
<1> HIDE DEF ins, outs, kerns
<1>5. /\ m = [height |-> m.height, inputs |-> m.inputs, outputs |-> m.outputs, kernels |-> m.kernels]
      /\ m.inputs = ins /\ m.outputs = outs /\ m.kernels = kerns
  <2>1. b = [height |-> b.height, inputs |-> b.inputs, outputs |-> b.outputs, kernels |-> b.kernels]
    BY DEF IsBody
  <2> DEFINE d == [b EXCEPT !.inputs = ins, !.outputs = outs]
  <2>2. d = [b EXCEPT !.inputs = ins, !.outputs = outs] /\ m = [d EXCEPT !.kernels = kerns]
    OBVIOUS
  <2> HIDE DEF m, d
  <2>3. /\ d.inputs = ins /\ d.outputs = outs
        /\ d = [height |-> d.height, inputs |-> d.inputs, outputs |-> d.outputs, kernels |-> d.kernels]
    BY <2>1, <2>2
  <2> QED BY <2>2, <2>3
<1> HIDE DEF m
<1>6. IsBody(m)
  BY <1>2, <1>3, <1>4, <1>5 DEF IsBody
<1>7. Plain(m) = Plain(b) \cup Plain(c)
  <2>1. ToSet(m.outputs) \ CoinbaseOutputs(m)
          = (ToSet(b.outputs) \ CoinbaseOutputs(b)) \cup (ToSet(c.outputs) \ CoinbaseOutputs(c))
    BY <1>3, <1>5 DEF CoinbaseOutputs
  <2> QED BY <2>1 DEF Plain
<1> QED BY <1>1, <1>2, <1>5, <1>6, <1>7, CompactIs

\* The blocks of which CutThrough speaks.
Unmixed(x) == IsInjective(x.txs) /\ (x.rewards = 1 \/ ~Conflicting(ToSet(x.txs)))

\* What CutThrough says of one.
Cut(x) ==
  LET T == ToSet(x.txs)
  IN /\ ToSet(x.body.inputs) = Spent(T) \ Created(T)
     /\ Plain(x.body) = Created(T) \ Spent(T)

\* The inductive invariant of blocks.
IsBlock(x) ==
  /\ IsBody(x.body)
  /\ x.txs \in Seq(ToSet(x.txs))
  /\ x.rewards \in Nat \ {0}
  /\ Unmixed(x) => Cut(x)

\* Transactions that do not conflict share nothing.
LEMMA Apart ==
  ASSUME NEW T, NEW U, ~Conflicting(T \cup U), T \cap U = {}
  PROVE  /\ ~Conflicting(T) /\ ~Conflicting(U)
         /\ Spent(T) \cap Spent(U) = {} /\ Created(T) \cap Created(U) = {}
         /\ Spent(T \cup U) = Spent(T) \cup Spent(U)
         /\ Created(T \cup U) = Created(T) \cup Created(U)
<1>1. ~Conflicting(T) /\ ~Conflicting(U)
  BY Zenon DEF Conflicting
<1>2. ASSUME NEW x, x \in Spent(T), x \in Spent(U) PROVE FALSE
  <2>1. PICK t \in T : x \in Spent({t})
    BY <1>2 DEF Spent
  <2>2. PICK u \in U : x \in Spent({u})
    BY <1>2 DEF Spent
  <2>3. t \in T \cup U /\ u \in T \cup U /\ t # u /\ Spent({t}) \cap Spent({u}) # {}
    BY <2>1, <2>2
  <2> QED BY <2>3, Zenon DEF Conflicting
<1>3. ASSUME NEW x, x \in Created(T), x \in Created(U) PROVE FALSE
  <2>1. PICK t \in T : x \in Created({t})
    BY <1>3 DEF Created
  <2>2. PICK u \in U : x \in Created({u})
    BY <1>3 DEF Created
  <2>3. t \in T \cup U /\ u \in T \cup U /\ t # u /\ Created({t}) \cap Created({u}) # {}
    BY <2>1, <2>2
  <2> QED BY <2>3, Zenon DEF Conflicting
<1>4. Spent(T \cup U) = Spent(T) \cup Spent(U) /\ Created(T \cup U) = Created(T) \cup Created(U)
  BY Zenon DEF Spent, Created
<1> QED BY <1>1, <1>2, <1>3, <1>4

\* Two lists that have no element twice between them.
LEMMA InjectiveParts ==
  ASSUME NEW X, NEW s \in Seq(X), NEW t \in Seq(X), IsInjective(s \o t)
  PROVE  IsInjective(s) /\ IsInjective(t) /\ ToSet(s) \cap ToSet(t) = {}
<1> DEFINE u == s \o t
           m == Len(s)
           n == Len(t)
<1>1. /\ DOMAIN u = 1 .. m + n /\ DOMAIN s = 1 .. m /\ DOMAIN t = 1 .. n
      /\ m \in Nat /\ n \in Nat
      /\ \A i \in 1 .. m + n : u[i] = IF i <= m THEN s[i] ELSE t[i - m]
  OBVIOUS
<1>2. \A i, j \in 1 .. m + n : u[i] = u[j] => i = j
  BY <1>1, Zenon DEF IsInjective
<1> HIDE DEF u, m, n
<1>3. \A i \in 1 .. m : i \in 1 .. m + n /\ u[i] = s[i]
  BY <1>1
<1>4. \A i \in 1 .. n : i + m \in 1 .. m + n /\ u[i + m] = t[i]
  <2>1. ASSUME NEW i \in 1 .. n PROVE i + m \in 1 .. m + n /\ ~(i + m <= m) /\ (i + m) - m = i
    BY <1>1
  <2>2. ASSUME NEW i \in 1 .. n PROVE u[i + m] = t[i]
    BY <1>1, <2>1
  <2> QED BY <2>1, <2>2
<1>5. IsInjective(s)
  BY <1>1, <1>2, <1>3 DEF IsInjective
<1>6. IsInjective(t)
  <2>1. ASSUME NEW i \in 1 .. n, NEW j \in 1 .. n, t[i] = t[j] PROVE i = j
    <3>1. i + m = j + m
      BY <1>2, <1>4, <2>1
    <3> QED BY <1>1, <3>1
  <2> QED BY <1>1, <2>1 DEF IsInjective
<1>7. ASSUME NEW i \in 1 .. m, NEW j \in 1 .. n, s[i] = t[j] PROVE FALSE
  <2>1. i = j + m
    BY <1>2, <1>3, <1>4, <1>7
  <2> QED BY <1>1, <2>1
<1>8. ToSet(s) \cap ToSet(t) = {}
  BY <1>1, <1>7 DEF ToSet
<1> QED BY <1>5, <1>6, <1>8

\* MergeBlocks makes a block of two.
LEMMA MergeKeeps ==
  ASSUME NEW b, IsBlock(b), NEW c, IsBlock(c), NEW x,
         x = [body |-> Merge(b.body, c.body), txs |-> b.txs \o c.txs,
              rewards |-> b.rewards + c.rewards]
  PROVE  IsBlock(x)
<1> DEFINE T == ToSet(b.txs)
           U == ToSet(c.txs)
<1>0. x.body = Merge(b.body, c.body) /\ x.txs = b.txs \o c.txs /\ x.rewards = b.rewards + c.rewards
  OBVIOUS
<1>1. b.txs \in Seq(T \cup U) /\ c.txs \in Seq(T \cup U)
  <2> DEFINE p == b.txs
             q == c.txs
  <2>1. p \in Seq(T) /\ q \in Seq(U)
    BY DEF IsBlock
  <2> HIDE DEF T, U, p, q
  <2>2. p \in Seq(T \cup U) /\ q \in Seq(T \cup U)
    BY <2>1
  <2> QED BY <2>2 DEF p, q
<1> HIDE DEF T, U
<1>2. x.txs \in Seq(T \cup U) /\ ToSet(x.txs) = T \cup U
  BY <1>0, <1>1, ToSetConcat DEF T, U
<1>3. x.rewards \in Nat \ {0} /\ x.rewards # 1
  BY <1>0 DEF IsBlock
<1>4. IsBody(b.body) /\ IsBody(c.body)
  BY DEF IsBlock
<1>5. /\ IsBody(x.body)
      /\ ToSet(x.body.inputs)
           = (ToSet(b.body.inputs) \cup ToSet(c.body.inputs)) \ (Plain(b.body) \cup Plain(c.body))
      /\ Plain(x.body)
           = (Plain(b.body) \cup Plain(c.body)) \ (ToSet(b.body.inputs) \cup ToSet(c.body.inputs))
  BY <1>0, <1>4, MergeIs
<1>6. ASSUME Unmixed(x) PROVE Cut(x)
  <2>1. IsInjective(b.txs \o c.txs) /\ ~Conflicting(T \cup U)
    BY <1>0, <1>2, <1>3, <1>6 DEF Unmixed
  <2>2. IsInjective(b.txs) /\ IsInjective(c.txs) /\ T \cap U = {}
    BY <1>1, <2>1, InjectiveParts DEF T, U
  <2>3. /\ ~Conflicting(T) /\ ~Conflicting(U)
        /\ Spent(T) \cap Spent(U) = {} /\ Created(T) \cap Created(U) = {}
        /\ Spent(T \cup U) = Spent(T) \cup Spent(U)
        /\ Created(T \cup U) = Created(T) \cup Created(U)
    BY <2>1, <2>2, Apart
  <2>4. Cut(b) /\ Cut(c)
    BY <2>2, <2>3 DEF IsBlock, Unmixed, T, U
  <2>5. /\ ToSet(b.body.inputs) = Spent(T) \ Created(T) /\ Plain(b.body) = Created(T) \ Spent(T)
        /\ ToSet(c.body.inputs) = Spent(U) \ Created(U) /\ Plain(c.body) = Created(U) \ Spent(U)
    BY <2>4 DEF Cut, T, U
  <2>6. /\ ToSet(x.body.inputs) = (Spent(T) \cup Spent(U)) \ (Created(T) \cup Created(U))
        /\ Plain(x.body) = (Created(T) \cup Created(U)) \ (Spent(T) \cup Spent(U))
    BY <1>5, <2>3, <2>5
  <2> QED BY <1>2, <2>3, <2>6 DEF Cut
<1> QED BY <1>2, <1>3, <1>5, <1>6 DEF IsBlock

\* A sequence has its own elements.
LEMMA SeqOfItself ==
  ASSUME NEW S, NEW s \in Seq(S)
  PROVE  s \in Seq(ToSet(s))
<1>1. DOMAIN s = 1 .. Len(s) /\ Len(s) \in Nat /\ s = [i \in 1 .. Len(s) |-> s[i]]
  OBVIOUS
<1>2. \A i \in 1 .. Len(s) : s[i] \in ToSet(s)
  BY <1>1 DEF ToSet
<1>3. s \in [1 .. Len(s) -> ToSet(s)]
  BY <1>1, <1>2
<1> QED BY <1>1, <1>3

\* SetToSeq lists a finite set.
LEMMA SetToSeqType ==
  ASSUME NEW S, IsFiniteSet(S)
  PROVE  SetToSeq(S) \in Seq(S)
<1> DEFINE n == Cardinality(S)
           s == SetToSeq(S)
<1>1. n \in Nat /\ ExistsBijection(1 .. n, S)
  BY FS_CardinalityType
<1>2. \E g \in [1 .. n -> S] : IsInjective(g)
  BY <1>1 DEF ExistsBijection, Bijection, Injection, IsInjective
<1>3. s = CHOOSE g \in [1 .. n -> S] : IsInjective(g)
  BY DEF SetToSeq
<1> HIDE DEF s, n
<1>4. s \in [1 .. n -> S]
  BY <1>2, <1>3
<1>5. s \in Seq(S)
  BY <1>1, <1>4
<1> QED BY <1>5 DEF s

\* Finished exchanges are finitely many transactions.
LEMMA FinalTxs ==
  ASSUME ExchangeInv, NEW O \in SUBSET Final
  PROVE  /\ IsFiniteSet({TxOf(o) : o \in O})
         /\ \A tx \in {TxOf(o) : o \in O} : IsTx(tx)
<1> DEFINE S == {TxOf(o) : o \in O}
           f == [o \in O |-> TxOf(o)]
<1>1. IsFiniteSet(S)
  <2>1. IsFiniteSet(O)
    BY OrdersAssumption, FS_Subset DEF Final
  <2>2. f \in Surjection(O, S)
    BY DEF Surjection
  <2> HIDE DEF f, S
  <2> QED BY <2>1, <2>2, FS_Surjection
<1>2. ASSUME NEW o \in O PROVE IsTx(TxOf(o))
  <2>1. Made(exchange[o])
    BY DEF ExchangeInv, Final, Underway
  <2>2. exchange[o].tx \in Txs(exchange[o].tx.lock_height,
                               Sign(kernel_sig_msg(exchange[o].tx.fee, exchange[o].tx.lock_height),
                                    exchange[o].blind))
    BY <2>1 DEF Made
  <2> QED BY <2>2 DEF IsTx, TxOf, Txs
<1> QED BY <1>1, <1>2

\* Block.New makes a block of transactions.
LEMMA NewKeeps ==
  ASSUME NEW S, \A tx \in S : IsTx(tx), NEW txs \in Seq(S), NEW h, NEW k \in MinerKeys
  PROVE  IsBlock([body |-> New(h, txs, k), txs |-> txs, rewards |-> 1])
<1> DEFINE b == New(h, txs, k)
           T == ToSet(txs)
           x == [body |-> b, txs |-> txs, rewards |-> 1]
<1>1. txs \in Seq(T)
  BY SeqOfItself
<1>2. IsBody(b) /\ ToSet(b.inputs) = Spent(T) \ Created(T) /\ Plain(b) = Created(T) \ Spent(T)
  BY NewIs
<1> HIDE DEF b
<1>3. x.body = b /\ x.txs = txs /\ x.rewards = 1
  OBVIOUS
<1> HIDE DEF x
<1>4. IsBlock(x)
  BY <1>1, <1>2, <1>3 DEF IsBlock, Cut
<1> QED BY <1>4 DEF x, b

------------------------------------------------------------------------------
(* Theorems *)

\* The inductive invariant.
MWInv == ExchangeInv /\ \A x \in blocks : IsBlock(x)

\* The invariant holds in every state.
LEMMA MWInvariance == Spec => []MWInv
<1>1. Init => MWInv
  <2> SUFFICES ASSUME Init PROVE MWInv
    OBVIOUS
  <2>1. None.state \notin Underway
    BY DEF None, Underway
  <2> QED BY <2>1 DEF Init, MWInv, ExchangeInv
<1>2. MWInv /\ [Next]_vars => MWInv'
  <2> SUFFICES ASSUME MWInv, [Next]_vars PROVE MWInv'
    OBVIOUS
  <2> USE DEF MWInv
  <2>1. ASSUME NEW o \in Orders, BuildPartial(o) PROVE MWInv'
    <3>1. Made(Built("partial", SenderParts(o))) \/ Built("partial", SenderParts(o)).state \notin Underway
      <4>1. "partial" \in Underway
        BY DEF Underway
      <4>2. SenderParts(o) \in Builds(o.lock_height, Empty.excess_sig)
        BY SenderBuilds
      <4> QED BY <4>1, <4>2, BuiltIsMade
    <3>2. exchange' = [exchange EXCEPT ![o] = Built("partial", SenderParts(o))] /\ UNCHANGED blocks
      BY <2>1 DEF BuildPartial
    <3> QED BY <3>1, <3>2 DEF ExchangeInv
  <2>2. ASSUME NEW o \in Orders, BuildFinal(o) PROVE MWInv'
    <3> DEFINE e == Built("final", ReceiverParts(o, exchange[o]))
    <3>1. Made(e) \/ e.state \notin Underway
      <4>1. "final" \in Underway /\ Made(exchange[o])
        BY <2>2 DEF Underway, BuildFinal, ExchangeInv
      <4>2. ReceiverParts(o, exchange[o])
              \in Builds(exchange[o].tx.lock_height, exchange[o].tx.excess_sig)
        BY <4>1, ReceiverBuilds
      <4> QED BY <4>1, <4>2, BuiltIsMade
    <3>2. exchange' = [exchange EXCEPT ![o] = e] /\ UNCHANGED blocks
      BY <2>2 DEF BuildFinal
    <3> HIDE DEF e
    <3> QED BY <3>1, <3>2 DEF ExchangeInv
  <2>3. ASSUME NEW h \in Heights, NEW T \in SUBSET Final, NEW k \in MinerKeys, NewBlock(h, T, k)
        PROVE  MWInv'
    <3> DEFINE txs == SetToSeq({TxOf(o) : o \in T})
               x == [body |-> New(h, txs, k), txs |-> txs, rewards |-> 1]
    <3>1. blocks' = blocks \cup {x} /\ UNCHANGED exchange
      BY <2>3 DEF NewBlock
    <3>2. IsBlock(x)
      <4> DEFINE S == {TxOf(o) : o \in T}
      <4>1. IsFiniteSet(S) /\ \A tx \in S : IsTx(tx)
        BY FinalTxs
      <4>2. txs \in Seq(S)
        BY <4>1, SetToSeqType
      <4> HIDE DEF txs, S
      <4> QED BY <4>1, <4>2, NewKeeps
    <3> HIDE DEF x
    <3> QED BY <3>1, <3>2 DEF ExchangeInv
  <2>4. ASSUME NEW b \in blocks, NEW other \in blocks, MergeBlocks(b, other)
        PROVE  MWInv'
    <3> DEFINE x == [body |-> Merge(b.body, other.body), txs |-> b.txs \o other.txs,
                     rewards |-> b.rewards + other.rewards]
    <3>1. blocks' = blocks \cup {x} /\ UNCHANGED exchange
      BY <2>4 DEF MergeBlocks
    <3>2. IsBlock(x)
      BY MergeKeeps
    <3> HIDE DEF x
    <3> QED BY <3>1, <3>2 DEF ExchangeInv
  <2>5. CASE UNCHANGED vars
    BY <2>5 DEF vars, ExchangeInv
  <2> QED BY <2>1, <2>2, <2>3, <2>4, <2>5 DEF Next
<1> QED BY <1>1, <1>2, PTL DEF Spec

\* The signature of a finished transaction verifies if and only if it balances,
\* whatever sender and receiver put into it (Build.Transaction, verify_sig).
THEOREM SignaturesBalance == Spec => []SignatureProvesBalance
<1>1. MWInv => SignatureProvesBalance
  <2> SUFFICES ASSUME MWInv, NEW o \in Final
               PROVE  verify_sig(TxOf(o)) <=>
                        Values(TxOf(o).inputs) = Values(Commits(TxOf(o).outputs)) + TxOf(o).fee
    BY DEF SignatureProvesBalance
  <2>1. Made(exchange[o])
    BY DEF MWInv, ExchangeInv, Final, Underway
  <2> QED BY <2>1, MadeVerifies DEF TxOf
<1> QED BY <1>1, MWInvariance, PTL

\* A block that Block.Validate accepts, built or merged, creates the subsidy less
\* half of the fees, and its coinbases are worth one reward.
THEOREM SupplyIsKept == Spec => []SupplyKept
<1>1. MWInv => SupplyKept
  <2> SUFFICES ASSUME MWInv, NEW b \in blocks, Validate(b.body) = "ok"
               PROVE  LET outs == Commits(b.body.outputs)
                          cb == Commits(Keep(b.body.outputs, CoinbaseOutputs(b.body)))
                      IN /\ Values(outs) - Values(b.body.inputs)
                              = RewardAmount - total_fees(b.body) \div 2
                         /\ Values(cb) = Reward(total_fees(b.body))
    BY DEF SupplyKept
  <2>1. IsBody(b.body)
    BY DEF MWInv, IsBlock
  <2> QED BY <2>1, ValidSupply
<1> QED BY <1>1, MWInvariance, PTL

\* Cut-through, in Block.New and in Block.Merge, leaves the effect of the
\* transactions on the unspent outputs as it is.
THEOREM CutThroughIsRight == Spec => []CutThrough
<1>1. MWInv => CutThrough
  <2> SUFFICES ASSUME MWInv, NEW b \in blocks, Unmixed(b)
               PROVE  LET T == ToSet(b.txs)
                          ins == ToSet(b.body.inputs)
                          outs == ToSet(Commits(b.body.outputs)) \ Coinbases(b.body)
                      IN ins \cap outs = {} /\ ins = Spent(T) \ Created(T) /\ outs = Created(T) \ Spent(T)
    BY DEF CutThrough, Unmixed
  <2>1. IsBody(b.body) /\ Cut(b)
    BY DEF MWInv, IsBlock
  <2>2. Plain(b.body) = ToSet(Commits(b.body.outputs)) \ Coinbases(b.body)
    BY <2>1, PlainIs
  <2> QED BY <2>1, <2>2 DEF Cut
<1> QED BY <1>1, MWInvariance, PTL
===============================================================================
